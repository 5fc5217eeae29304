--------------------------- MODULE ScanCacheProofs ---------------------------
(***************************************************************************)
(* Proofs about ScanCache, for any number of processes, roots, files,      *)
(* contents, contracts, options, passes, edits and crashes.                *)
(***************************************************************************)
EXTENDS ScanCache, TLAPS

\* What ties a process to the file it works on: the key it holds names that
\* file and its options, and so do the diagnostics it is about to store.
WorkInv ==
    \A p \in Procs :
        /\ Fingerprinted(p) => key[p].file = idx[p] /\ key[p].opts = opts[p]
        /\ Storing(p) => /\ report[p][idx[p]] \in Reports
                         /\ report[p][idx[p]].diags.file = idx[p]
                         /\ report[p][idx[p]].diags.opts = opts[p]

IsolationInv == TypeOK /\ WorkInv /\ KeyIsolation

\* While no file is edited under a scan: the key of a process still digests the
\* files, and every input it has read, or is about to store, is the key's.
QuietWork ==
    \A p \in Procs :
        /\ Reading(p) => key[p].content = Source(p, idx[p])
        /\ pc[p] \in {"exists", "read", "analyze"} => key[p].hashed = contracts.hashed
        /\ IF pc[p] \in {"analyze", "open", "write"}
           THEN \A i \in seen[p] : Matches(i, key[p])
           ELSE seen[p] = {}
        /\ Storing(p) => \A i \in report[p][idx[p]].diags.seen : Matches(i, key[p])

QuietInv == QuietWork /\ RecordsMatchKeys

\* With one clearing process: what clear() has listed stays until it unlinks it.
ClearInv ==
    \A p \in Procs : /\ pc[p] # "failed"
                     /\ clearing[p] \subseteq Listed
                     /\ clearing[p] # {} => p \in Clearers

LEMMA RootType == \A p \in Procs : RootOf[p] \in Roots
BY SizeAssumption

LEMMA SourceType ==
    ASSUME TypeOK, NEW p \in Procs, NEW f \in Files
    PROVE  Source(p, f) \in Contents
BY RootType DEF TypeOK, Source

LEMMA AnyKeyIsKey == AnyKey \in Keys
<1>1. \E k \in Keys : TRUE
  <2>1. PICK c \in Contents, h \in HashedContracts, o \in Options : TRUE
    BY SizeAssumption
  <2>2. 1 \in Files
    BY SizeAssumption DEF Files
  <2>3. [file |-> 1, content |-> c, hashed |-> h, opts |-> o] \in Keys
    BY <2>2 DEF Keys
  <2> QED BY <2>3
<1> QED BY <1>1 DEF AnyKey


LEMMA RehashedKey ==
    ASSUME NEW k \in Keys, NEW h \in HashedContracts
    PROVE  [k EXCEPT !.hashed = h] \in Keys
BY Zenon DEF Keys

LEMMA IsolationInit == Init => IsolationInv
<1> SUFFICES ASSUME Init PROVE IsolationInv
  OBVIOUS
<1>1. (CHOOSE o \in Options : TRUE) \in Options
  BY SizeAssumption
<1>2. 1 \in Files /\ 0 \in 0 .. NumPasses /\ 0 \in 0 .. MaxEdits /\ 0 \in 0 .. MaxCrashes
  BY SizeAssumption DEF Files
<1>3. TypeOK
  BY <1>1, <1>2, AnyKeyIsKey DEF Init, TypeOK, Resting, NoForecast
<1>4. WorkInv
  BY DEF Init, WorkInv, Fingerprinted, Storing
<1>5. KeyIsolation
  BY DEF Init, KeyIsolation, IsRecord
<1> QED BY <1>3, <1>4, <1>5 DEF IsolationInv

LEMMA IsolationStep == IsolationInv /\ [Next]_vars => IsolationInv'
<1> SUFFICES ASSUME IsolationInv, [Next]_vars PROVE IsolationInv'
  OBVIOUS
<1> USE DEF IsolationInv
<1>1. ASSUME NEW p \in Procs, NEW o \in Options, NEW clear \in BOOLEAN, Start(p, o, clear)
      PROVE IsolationInv'
  <2>1. Forecast(p, o, clear) \in [Procs -> [known : BOOLEAN, hits : SUBSET Files]]
    BY DEF Forecast, NoForecast
  <2>2. 1 \in Files /\ (IF clear THEN Listed ELSE {}) \in SUBSET Keys
    BY SizeAssumption DEF Files, Listed
  <2>7. TypeOK'
    BY <1>1, <2>1, <2>2 DEF Start, TypeOK, Resting, envVars
  <2>8. WorkInv'
    BY <1>1 DEF Start, TypeOK, WorkInv, Fingerprinted, Storing, envVars
  <2>9. KeyIsolation'
    BY <1>1 DEF Start, KeyIsolation, IsRecord, envVars
  <2> QED BY <2>7, <2>8, <2>9
<1>2. ASSUME NEW p \in Procs, NEW k \in Keys, Unlink(p, k)
      PROVE IsolationInv'
  <2>7. TypeOK'
    BY <1>2 DEF Unlink, TypeOK, Resting, envVars
  <2>8. WorkInv'
    BY <1>2 DEF Unlink, TypeOK, WorkInv, Fingerprinted, Storing, envVars
  <2>9. KeyIsolation'
    BY <1>2 DEF Unlink, KeyIsolation, IsRecord, envVars
  <2> QED BY <2>7, <2>8, <2>9
<1>3. ASSUME NEW p \in Procs, NEW k \in Keys, UnlinkMissing(p, k)
      PROVE IsolationInv'
  <2>7. TypeOK'
    BY <1>3, AnyKeyIsKey, SizeAssumption
       DEF UnlinkMissing, Dies, NoForecast, Files, TypeOK, Resting, envVars
  <2>8. WorkInv'
    BY <1>3
       DEF UnlinkMissing, Dies, NoForecast, Files, TypeOK, WorkInv, Fingerprinted, Storing,
           envVars
  <2>9. KeyIsolation'
    BY <1>3 DEF UnlinkMissing, Dies, NoForecast, Files, KeyIsolation, IsRecord, envVars
  <2> QED BY <2>7, <2>8, <2>9
<1>4. ASSUME NEW p \in Procs, BeginFiles(p)
      PROVE IsolationInv'
  <2>7. TypeOK'
    BY <1>4 DEF BeginFiles, TypeOK, Resting, envVars
  <2>8. WorkInv'
    BY <1>4 DEF BeginFiles, TypeOK, WorkInv, Fingerprinted, Storing, envVars
  <2>9. KeyIsolation'
    BY <1>4 DEF BeginFiles, KeyIsolation, IsRecord, envVars
  <2> QED BY <2>7, <2>8, <2>9
<1>5. ASSUME NEW p \in Procs, HashSource(p)
      PROVE IsolationInv'
  <2>1. KeyNow(p, idx[p], opts[p]) \in Keys
    BY SourceType DEF TypeOK, Keys, KeyNow, KeyOf, Contracts
  <2>7. TypeOK'
    BY <1>5, <2>1 DEF HashSource, TypeOK, Resting, envVars
  <2>8. WorkInv'
    BY <1>5 DEF HashSource, KeyNow, KeyOf, Source, TypeOK, WorkInv, Fingerprinted, Storing, envVars
  <2>9. KeyIsolation'
    BY <1>5 DEF HashSource, KeyIsolation, IsRecord, envVars
  <2> QED BY <2>7, <2>8, <2>9
<1>6. ASSUME NEW p \in Procs, HashContracts(p)
      PROVE IsolationInv'
  <2>1. [key[p] EXCEPT !.hashed = contracts.hashed] \in Keys
    BY RehashedKey DEF TypeOK, Contracts
  <2>2. /\ key' = [key EXCEPT ![p] = [key[p] EXCEPT !.hashed = contracts.hashed]]
        /\ pc' = [pc EXCEPT ![p] = "exists"]
        /\ UNCHANGED <<envVars, disk, opts, clearing, idx, pass, seen, fd, report, forecast>>
    BY <1>6 DEF HashContracts, TypeOK
  <2>7. TypeOK'
    BY <2>1, <2>2 DEF TypeOK, Resting, envVars
  <2>8. WorkInv'
    BY <1>6
       DEF HashContracts, Keys, Contracts, TypeOK, WorkInv, Fingerprinted, Storing, envVars
  <2>9. KeyIsolation'
    BY <1>6 DEF HashContracts, Keys, Contracts, KeyIsolation, IsRecord, envVars
  <2> QED BY <2>7, <2>8, <2>9
<1>7. ASSUME NEW p \in Procs, Exists(p)
      PROVE IsolationInv'
  <2>7. TypeOK'
    BY <1>7 DEF Exists, TypeOK, Resting, envVars
  <2>8. WorkInv'
    BY <1>7 DEF Exists, TypeOK, WorkInv, Fingerprinted, Storing, envVars
  <2>9. KeyIsolation'
    BY <1>7 DEF Exists, KeyIsolation, IsRecord, envVars
  <2> QED BY <2>7, <2>8, <2>9
<1>8. ASSUME NEW p \in Procs, ReadHit(p)
      PROVE IsolationInv'
  <2>1. IF idx[p] = NFiles THEN 1 \in Files ELSE idx[p] + 1 \in Files
    BY SizeAssumption DEF TypeOK, Files
  <2>2. [origin |-> "cached", diags |-> disk[key[p]]] \in Reports
    BY <1>8 DEF ReadHit, IsRecord, TypeOK, Reports, Origins
  <2>7. TypeOK'
    BY <1>8, <2>1, <2>2, AnyKeyIsKey DEF ReadHit, NextFile, TypeOK, Resting, envVars
  <2>8. WorkInv'
    BY <1>8 DEF ReadHit, NextFile, TypeOK, WorkInv, Fingerprinted, Storing, envVars
  <2>9. KeyIsolation'
    BY <1>8 DEF ReadHit, NextFile, KeyIsolation, IsRecord, envVars
  <2> QED BY <2>7, <2>8, <2>9
<1>9. ASSUME NEW p \in Procs, ReadMiss(p)
      PROVE IsolationInv'
  <2>7. TypeOK'
    BY <1>9 DEF ReadMiss, TypeOK, Resting, envVars
  <2>8. WorkInv'
    BY <1>9 DEF ReadMiss, TypeOK, WorkInv, Fingerprinted, Storing, envVars
  <2>9. KeyIsolation'
    BY <1>9 DEF ReadMiss, KeyIsolation, IsRecord, envVars
  <2> QED BY <2>7, <2>8, <2>9
<1>10. ASSUME NEW p \in Procs, AnalyzePass(p)
      PROVE IsolationInv'
  <2>1. seen' \in [Procs -> SUBSET Inputs]
    BY <1>10, SourceType DEF AnalyzePass, TypeOK, InputNow, Inputs
  <2>2. /\ [origin |-> "fresh", diags |-> AnalysisOf(RootOf[p], idx[p], seen'[p], opts[p])] \in Reports
        /\ AnalysisOf(RootOf[p], idx[p], seen'[p], opts[p]).file = idx[p]
        /\ AnalysisOf(RootOf[p], idx[p], seen'[p], opts[p]).opts = opts[p]
    BY <2>1, RootType DEF TypeOK, AnalysisOf, Reports, Origins, Diagnostics
  <2>3. ASSUME pass'[p] = NumPasses PROVE TypeOK' /\ WorkInv'
    <3> DEFINE done == [origin |-> "fresh", diags |-> AnalysisOf(RootOf[p], idx[p], seen'[p], opts[p])]
    <3>1. /\ pc' = [pc EXCEPT ![p] = "open"]
          /\ report' = [report EXCEPT ![p][idx[p]] = done]
      BY <1>10, <2>3 DEF AnalyzePass
    <3> HIDE DEF done
    <3>2. done \in Reports /\ done.diags.file = idx[p] /\ done.diags.opts = opts[p]
      BY <2>2 DEF done
    <3>3. report' \in [Procs -> [Files -> Reports \cup {NoReport}]] /\ report'[p][idx[p]] = done
      BY <3>1, <3>2 DEF TypeOK
    <3>4. \A q \in Procs \ {p} : report'[q] = report[q]
      BY <3>1 DEF TypeOK
    <3>5. TypeOK'
      BY <1>10, <2>1, <3>1, <3>3, SizeAssumption DEF AnalyzePass, TypeOK, Resting, envVars
    <3>6. WorkInv'
      BY <1>10, <3>1, <3>2, <3>3, <3>4
         DEF AnalyzePass, TypeOK, WorkInv, Fingerprinted, Storing, envVars
    <3> QED BY <3>5, <3>6
  <2>4. ASSUME pass'[p] # NumPasses PROVE TypeOK' /\ WorkInv'
    <3>1. UNCHANGED <<pc, report>>
      BY <1>10, <2>4 DEF AnalyzePass
    <3>2. TypeOK'
      BY <1>10, <2>1, <3>1, SizeAssumption DEF AnalyzePass, TypeOK, Resting, envVars
    <3>3. WorkInv'
      BY <1>10, <3>1 DEF AnalyzePass, TypeOK, WorkInv, Fingerprinted, Storing, envVars
    <3> QED BY <3>2, <3>3
  <2>9. KeyIsolation'
    BY <1>10 DEF AnalyzePass, KeyIsolation, IsRecord, envVars
  <2> QED BY <2>3, <2>4, <2>9
<1>11. ASSUME NEW p \in Procs, OpenForWrite(p)
      PROVE IsolationInv'
  <2>7. TypeOK'
    BY <1>11 DEF OpenForWrite, TypeOK, Resting, envVars
  <2>8. WorkInv'
    BY <1>11 DEF OpenForWrite, TypeOK, WorkInv, Fingerprinted, Storing, envVars
  <2>9. KeyIsolation'
    BY <1>11 DEF OpenForWrite, KeyIsolation, IsRecord, envVars
  <2> QED BY <2>7, <2>8, <2>9
<1>12. ASSUME NEW p \in Procs, Write(p)
      PROVE IsolationInv'
  <2>1. IF idx[p] = NFiles THEN 1 \in Files ELSE idx[p] + 1 \in Files
    BY SizeAssumption DEF TypeOK, Files
  <2>2. /\ report[p][idx[p]].diags \in Diagnostics
        /\ report[p][idx[p]].diags.file = key[p].file
        /\ report[p][idx[p]].diags.opts = key[p].opts
    BY <1>12 DEF Write, WorkInv, Fingerprinted, Storing, Reports
  <2>3. disk' = disk \/ \E after \in {report[p][idx[p]].diags, Torn} :
                                disk' = [disk EXCEPT ![key[p]] = after]
    BY <1>12 DEF Write, Overlaid
  <2>4. disk' \in [Keys -> Diagnostics \cup {Absent, Torn}]
    BY <2>2, <2>3 DEF TypeOK
  <2>5. /\ fd' = [fd EXCEPT ![p] = "none"]
        /\ pass' = [pass EXCEPT ![p] = 0]
        /\ seen' = [seen EXCEPT ![p] = {}]
        /\ NextFile(p)
        /\ UNCHANGED <<envVars, opts, clearing, report, forecast>>
    BY <1>12 DEF Write
  <2>7. TypeOK'
    BY <2>1, <2>4, <2>5, AnyKeyIsKey, SizeAssumption DEF NextFile, TypeOK, Resting, envVars
  <2>8. WorkInv'
    BY <1>12, <2>1 DEF Write, NextFile, TypeOK, WorkInv, Fingerprinted, Storing, envVars
  <2>9. KeyIsolation'
    BY <1>12, <2>2, <2>3 DEF TypeOK, KeyIsolation, IsRecord, envVars
  <2> QED BY <2>7, <2>8, <2>9
<1>13. ASSUME NEW p \in Procs, Finish(p)
      PROVE IsolationInv'
  <2>7. TypeOK'
    BY <1>13 DEF Finish, TypeOK, Resting, envVars
  <2>8. WorkInv'
    BY <1>13 DEF Finish, TypeOK, WorkInv, Fingerprinted, Storing, envVars
  <2>9. KeyIsolation'
    BY <1>13 DEF Finish, KeyIsolation, IsRecord, envVars
  <2> QED BY <2>7, <2>8, <2>9
<1>14. ASSUME NEW p \in Procs, Crash(p)
      PROVE IsolationInv'
  <2>7. TypeOK'
    BY <1>14, AnyKeyIsKey, SizeAssumption
       DEF Crash, Dies, NoForecast, Files, TypeOK, Resting, envVars
  <2>8. WorkInv'
    BY <1>14
       DEF Crash, Dies, NoForecast, Files, TypeOK, WorkInv, Fingerprinted, Storing, envVars
  <2>9. KeyIsolation'
    BY <1>14 DEF Crash, Dies, NoForecast, Files, KeyIsolation, IsRecord, envVars
  <2> QED BY <2>7, <2>8, <2>9
<1>15. ASSUME NEW r \in Roots, NEW f \in Files, NEW c \in Contents, EditSource(r, f, c)
      PROVE IsolationInv'
  <2>7. TypeOK'
    BY <1>15, SizeAssumption DEF EditSource, NoForecast, TypeOK, Resting, envVars
  <2>8. WorkInv'
    BY <1>15 DEF EditSource, NoForecast, TypeOK, WorkInv, Fingerprinted, Storing, envVars
  <2>9. KeyIsolation'
    BY <1>15 DEF EditSource, NoForecast, KeyIsolation, IsRecord, envVars
  <2> QED BY <2>7, <2>8, <2>9
<1>16. ASSUME NEW c \in Contracts, EditContracts(c)
      PROVE IsolationInv'
  <2>7. TypeOK'
    BY <1>16, SizeAssumption DEF EditContracts, NoForecast, TypeOK, Resting, envVars
  <2>8. WorkInv'
    BY <1>16 DEF EditContracts, NoForecast, TypeOK, WorkInv, Fingerprinted, Storing, envVars
  <2>9. KeyIsolation'
    BY <1>16 DEF EditContracts, NoForecast, KeyIsolation, IsRecord, envVars
  <2> QED BY <2>7, <2>8, <2>9
<1>17. ASSUME UNCHANGED vars PROVE IsolationInv'
  BY <1>17 DEF vars, TypeOK, WorkInv, Fingerprinted, Storing, KeyIsolation
<1> QED
  BY <1>1, <1>2, <1>3, <1>4, <1>5, <1>6, <1>7, <1>8, <1>9, <1>10, <1>11, <1>12, <1>13,
     <1>14, <1>15, <1>16, <1>17
     DEF Next, ScanStep, Proceed

\* Every variable keeps its type, whatever the interleaving.
THEOREM TypeCorrect == Spec => []TypeOK
<1>1. IsolationInv => TypeOK
  BY DEF IsolationInv
<1> QED BY <1>1, IsolationInit, IsolationStep, PTL DEF Spec

\* No entry of the cache holds the diagnostics of another file or of other
\* options than its key names (JsonCacheStore, build_analysis_fingerprint).
THEOREM Isolation == Spec => []KeyIsolation
<1>1. IsolationInv => KeyIsolation
  BY DEF IsolationInv
<1> QED BY <1>1, IsolationInit, IsolationStep, PTL DEF Spec

\* What a write leaves on disk.
LEMMA WriteOnDisk ==
    ASSUME IsolationInv, NEW p \in Procs, Write(p)
    PROVE  /\ pc[p] = "write"
           /\ report[p][idx[p]].diags \in Diagnostics
           /\ \/ disk' = disk
              \/ disk' = [disk EXCEPT ![key[p]] = report[p][idx[p]].diags]
              \/ disk' = [disk EXCEPT ![key[p]] = Torn]
<1>1. pc[p] = "write"
  BY DEF Write
<1>2. report[p][idx[p]].diags \in Diagnostics
  BY <1>1 DEF IsolationInv, WorkInv, Storing, Reports
<1>3. disk' = disk \/ \E after \in {report[p][idx[p]].diags, Torn} :
                              disk' = [disk EXCEPT ![key[p]] = after]
  BY DEF Write, Overlaid
<1> QED BY <1>1, <1>2, <1>3

LEMMA QuietWorkStep ==
    ASSUME IsolationInv, IsolationInv', ~EditsRace, QuietInv, [Next]_vars PROVE QuietWork'
<1> USE DEF IsolationInv
<1>1. ASSUME NEW p \in Procs, NEW o \in Options, NEW clear \in BOOLEAN, Start(p, o, clear)
      PROVE QuietWork'
  <2>1. \A q \in Procs \ {p} : /\ pc'[q] = pc[q]
                               /\ report'[q] = report[q]
                               /\ idx'[q] = idx[q]
    BY <1>1 DEF Start, TypeOK
  <2>2. pc'[p] = "clear" /\ pc[p] \in Resting
    BY <1>1 DEF Start, TypeOK, Running
  <2>3. UNCHANGED <<sources, contracts, key, seen>>
    BY <1>1 DEF Start, envVars
  <2> QED
    BY <2>1, <2>2, <2>3 DEF Resting, QuietInv, QuietWork, Reading, Storing, Matches,
             Source
<1>2. ASSUME NEW p \in Procs, NEW k \in Keys, Unlink(p, k)
      PROVE QuietWork'
  BY <1>2
     DEF Unlink, TypeOK, WorkInv, QuietInv, QuietWork, RecordsMatchKeys, Reading,
         Fingerprinted, Storing, Matches, IsRecord, Source, envVars
<1>3. ASSUME NEW p \in Procs, NEW k \in Keys, UnlinkMissing(p, k)
      PROVE QuietWork'
  BY <1>3
     DEF UnlinkMissing, Dies, TypeOK, WorkInv, QuietInv, QuietWork, RecordsMatchKeys,
         Reading, Fingerprinted, Storing, Matches, IsRecord, Source, envVars
<1>4. ASSUME NEW p \in Procs, BeginFiles(p)
      PROVE QuietWork'
  BY <1>4
     DEF BeginFiles, TypeOK, WorkInv, QuietInv, QuietWork, RecordsMatchKeys, Reading,
         Fingerprinted, Storing, Matches, IsRecord, Source, envVars
<1>5. ASSUME NEW p \in Procs, HashSource(p)
      PROVE QuietWork'
  BY <1>5
     DEF HashSource, KeyNow, KeyOf, TypeOK, WorkInv, QuietInv, QuietWork, RecordsMatchKeys,
         Reading, Fingerprinted, Storing, Matches, IsRecord, Source, envVars
<1>6. ASSUME NEW p \in Procs, HashContracts(p)
      PROVE QuietWork'
  BY <1>6
     DEF HashContracts, Keys, TypeOK, WorkInv, QuietInv, QuietWork, RecordsMatchKeys,
         Reading, Fingerprinted, Storing, Matches, IsRecord, Source, envVars
<1>7. ASSUME NEW p \in Procs, Exists(p)
      PROVE QuietWork'
  BY <1>7
     DEF Exists, TypeOK, WorkInv, QuietInv, QuietWork, RecordsMatchKeys, Reading,
         Fingerprinted, Storing, Matches, IsRecord, Source, envVars
<1>8. ASSUME NEW p \in Procs, ReadHit(p)
      PROVE QuietWork'
  BY <1>8
     DEF ReadHit, NextFile, TypeOK, WorkInv, QuietInv, QuietWork, RecordsMatchKeys, Reading,
         Fingerprinted, Storing, Matches, IsRecord, Source, envVars
<1>9. ASSUME NEW p \in Procs, ReadMiss(p)
      PROVE QuietWork'
  BY <1>9
     DEF ReadMiss, TypeOK, WorkInv, QuietInv, QuietWork, RecordsMatchKeys, Reading,
         Fingerprinted, Storing, Matches, IsRecord, Source, envVars
<1>10. ASSUME NEW p \in Procs, AnalyzePass(p)
      PROVE QuietWork'
  BY <1>10
     DEF AnalyzePass, InputNow, AnalysisOf, TypeOK, WorkInv, QuietInv, QuietWork,
         RecordsMatchKeys, Reading, Fingerprinted, Storing, Matches, IsRecord, Source, envVars
<1>11. ASSUME NEW p \in Procs, OpenForWrite(p)
      PROVE QuietWork'
  BY <1>11
     DEF OpenForWrite, TypeOK, WorkInv, QuietInv, QuietWork, RecordsMatchKeys, Reading,
         Fingerprinted, Storing, Matches, IsRecord, Source, envVars
<1>12. ASSUME NEW p \in Procs, Write(p)
      PROVE QuietWork'
  BY <1>12
     DEF Write, NextFile, TypeOK, WorkInv, QuietInv, QuietWork, RecordsMatchKeys, Reading,
         Fingerprinted, Storing, Matches, IsRecord, Source, envVars
<1>13. ASSUME NEW p \in Procs, Finish(p)
      PROVE QuietWork'
  BY <1>13
     DEF Finish, TypeOK, WorkInv, QuietInv, QuietWork, RecordsMatchKeys, Reading,
         Fingerprinted, Storing, Matches, IsRecord, Source, envVars
<1>14. ASSUME NEW p \in Procs, Crash(p)
      PROVE QuietWork'
  BY <1>14
     DEF Crash, Dies, TypeOK, WorkInv, QuietInv, QuietWork, RecordsMatchKeys, Reading,
         Fingerprinted, Storing, Matches, IsRecord, Source, envVars
<1>15. ASSUME NEW r \in Roots, NEW f \in Files, NEW c \in Contents, EditSource(r, f, c)
      PROVE QuietWork'
  BY <1>15
     DEF EditSource, TypeOK, WorkInv, QuietInv, QuietWork, RecordsMatchKeys, Reading,
         Fingerprinted, Storing, Matches, IsRecord, Source, envVars
<1>16. ASSUME NEW c \in Contracts, EditContracts(c)
      PROVE QuietWork'
  BY <1>16
     DEF EditContracts, TypeOK, WorkInv, QuietInv, QuietWork, RecordsMatchKeys, Reading,
         Fingerprinted, Storing, Matches, IsRecord, Source, envVars
<1>17. ASSUME UNCHANGED vars PROVE QuietWork'
  BY <1>17
     DEF vars, TypeOK, WorkInv, QuietInv, QuietWork, RecordsMatchKeys, Reading,
         Fingerprinted, Storing, Matches, IsRecord, Source, envVars
<1> QED
  BY <1>1, <1>2, <1>3, <1>4, <1>5, <1>6, <1>7, <1>8, <1>9, <1>10, <1>11, <1>12, <1>13,
     <1>14, <1>15, <1>16, <1>17
     DEF Next, ScanStep, Proceed

LEMMA RecordsStep ==
    ASSUME IsolationInv, IsolationInv', ~EditsRace, QuietInv, [Next]_vars PROVE RecordsMatchKeys'
<1> USE DEF IsolationInv
<1>1. ASSUME NEW p \in Procs, NEW o \in Options, NEW clear \in BOOLEAN, Start(p, o, clear)
      PROVE RecordsMatchKeys'
  BY <1>1
     DEF Start, TypeOK, WorkInv, QuietInv, QuietWork, RecordsMatchKeys, Storing, Matches,
         IsRecord, envVars
<1>2. ASSUME NEW p \in Procs, NEW k \in Keys, Unlink(p, k)
      PROVE RecordsMatchKeys'
  BY <1>2
     DEF Unlink, TypeOK, WorkInv, QuietInv, QuietWork, RecordsMatchKeys, Storing, Matches,
         IsRecord, envVars
<1>3. ASSUME NEW p \in Procs, NEW k \in Keys, UnlinkMissing(p, k)
      PROVE RecordsMatchKeys'
  BY <1>3
     DEF UnlinkMissing, Dies, TypeOK, WorkInv, QuietInv, QuietWork, RecordsMatchKeys,
         Storing, Matches, IsRecord, envVars
<1>4. ASSUME NEW p \in Procs, BeginFiles(p)
      PROVE RecordsMatchKeys'
  BY <1>4
     DEF BeginFiles, TypeOK, WorkInv, QuietInv, QuietWork, RecordsMatchKeys, Storing,
         Matches, IsRecord, envVars
<1>5. ASSUME NEW p \in Procs, HashSource(p)
      PROVE RecordsMatchKeys'
  BY <1>5
     DEF HashSource, KeyNow, KeyOf, Source, TypeOK, WorkInv, QuietInv, QuietWork, RecordsMatchKeys,
         Storing, Matches, IsRecord, envVars
<1>6. ASSUME NEW p \in Procs, HashContracts(p)
      PROVE RecordsMatchKeys'
  BY <1>6
     DEF HashContracts, Keys, TypeOK, WorkInv, QuietInv, QuietWork, RecordsMatchKeys,
         Storing, Matches, IsRecord, envVars
<1>7. ASSUME NEW p \in Procs, Exists(p)
      PROVE RecordsMatchKeys'
  BY <1>7
     DEF Exists, TypeOK, WorkInv, QuietInv, QuietWork, RecordsMatchKeys, Storing, Matches,
         IsRecord, envVars
<1>8. ASSUME NEW p \in Procs, ReadHit(p)
      PROVE RecordsMatchKeys'
  BY <1>8
     DEF ReadHit, NextFile, TypeOK, WorkInv, QuietInv, QuietWork, RecordsMatchKeys, Storing,
         Matches, IsRecord, envVars
<1>9. ASSUME NEW p \in Procs, ReadMiss(p)
      PROVE RecordsMatchKeys'
  BY <1>9
     DEF ReadMiss, TypeOK, WorkInv, QuietInv, QuietWork, RecordsMatchKeys, Storing, Matches,
         IsRecord, envVars
<1>10. ASSUME NEW p \in Procs, AnalyzePass(p)
      PROVE RecordsMatchKeys'
  BY <1>10
     DEF AnalyzePass, InputNow, AnalysisOf, TypeOK, WorkInv, QuietInv, QuietWork,
         RecordsMatchKeys, Storing, Matches, IsRecord, envVars
<1>11. ASSUME NEW p \in Procs, OpenForWrite(p)
      PROVE RecordsMatchKeys'
  BY <1>11
     DEF OpenForWrite, TypeOK, WorkInv, QuietInv, QuietWork, RecordsMatchKeys, Storing,
         Matches, IsRecord, envVars
<1>12. ASSUME NEW p \in Procs, Write(p)
      PROVE RecordsMatchKeys'
  <2>0. /\ pc[p] = "write"
        /\ report[p][idx[p]].diags \in Diagnostics
        /\ \/ disk' = disk
           \/ disk' = [disk EXCEPT ![key[p]] = report[p][idx[p]].diags]
           \/ disk' = [disk EXCEPT ![key[p]] = Torn]
    BY <1>12, WriteOnDisk
  <2>1. \A i \in report[p][idx[p]].diags.seen : Matches(i, key[p])
    BY <2>0 DEF QuietInv, QuietWork, Storing
  <2> QED BY <2>0, <2>1 DEF TypeOK, QuietInv, RecordsMatchKeys, Matches, IsRecord
<1>13. ASSUME NEW p \in Procs, Finish(p)
      PROVE RecordsMatchKeys'
  BY <1>13
     DEF Finish, TypeOK, WorkInv, QuietInv, QuietWork, RecordsMatchKeys, Storing, Matches,
         IsRecord, envVars
<1>14. ASSUME NEW p \in Procs, Crash(p)
      PROVE RecordsMatchKeys'
  BY <1>14
     DEF Crash, Dies, TypeOK, WorkInv, QuietInv, QuietWork, RecordsMatchKeys, Storing,
         Matches, IsRecord, envVars
<1>15. ASSUME NEW r \in Roots, NEW f \in Files, NEW c \in Contents, EditSource(r, f, c)
      PROVE RecordsMatchKeys'
  BY <1>15
     DEF EditSource, TypeOK, WorkInv, QuietInv, QuietWork, RecordsMatchKeys, Storing,
         Matches, IsRecord, envVars
<1>16. ASSUME NEW c \in Contracts, EditContracts(c)
      PROVE RecordsMatchKeys'
  BY <1>16
     DEF EditContracts, TypeOK, WorkInv, QuietInv, QuietWork, RecordsMatchKeys, Storing,
         Matches, IsRecord, envVars
<1>17. ASSUME UNCHANGED vars PROVE RecordsMatchKeys'
  BY <1>17
     DEF vars, TypeOK, WorkInv, QuietInv, QuietWork, RecordsMatchKeys, Storing, Matches,
         IsRecord, envVars
<1> QED
  BY <1>1, <1>2, <1>3, <1>4, <1>5, <1>6, <1>7, <1>8, <1>9, <1>10, <1>11, <1>12, <1>13,
     <1>14, <1>15, <1>16, <1>17
     DEF Next, ScanStep, Proceed

LEMMA ClearStep ==
    ASSUME IsolationInv, IsolationInv', \A p, q \in Clearers : p = q, ClearInv, [Next]_vars PROVE ClearInv'
<1> USE DEF IsolationInv
<1>1. ASSUME NEW p \in Procs, NEW o \in Options, NEW clear \in BOOLEAN, Start(p, o, clear)
      PROVE ClearInv'
  BY <1>1 DEF Start, TypeOK, ClearInv, Listed, envVars
<1>2. ASSUME NEW p \in Procs, NEW k \in Keys, Unlink(p, k)
      PROVE ClearInv'
  BY <1>2 DEF Unlink, TypeOK, ClearInv, Listed, envVars
<1>3. ASSUME NEW p \in Procs, NEW k \in Keys, UnlinkMissing(p, k)
      PROVE ClearInv'
  BY <1>3 DEF UnlinkMissing, Dies, TypeOK, ClearInv, Listed, envVars
<1>4. ASSUME NEW p \in Procs, BeginFiles(p)
      PROVE ClearInv'
  BY <1>4 DEF BeginFiles, TypeOK, ClearInv, Listed, envVars
<1>5. ASSUME NEW p \in Procs, HashSource(p)
      PROVE ClearInv'
  BY <1>5 DEF HashSource, KeyNow, KeyOf, Source, TypeOK, ClearInv, Listed, envVars
<1>6. ASSUME NEW p \in Procs, HashContracts(p)
      PROVE ClearInv'
  BY <1>6 DEF HashContracts, Keys, TypeOK, ClearInv, Listed, envVars
<1>7. ASSUME NEW p \in Procs, Exists(p)
      PROVE ClearInv'
  BY <1>7 DEF Exists, TypeOK, ClearInv, Listed, envVars
<1>8. ASSUME NEW p \in Procs, ReadHit(p)
      PROVE ClearInv'
  BY <1>8 DEF ReadHit, NextFile, TypeOK, ClearInv, Listed, envVars
<1>9. ASSUME NEW p \in Procs, ReadMiss(p)
      PROVE ClearInv'
  BY <1>9 DEF ReadMiss, TypeOK, ClearInv, Listed, envVars
<1>10. ASSUME NEW p \in Procs, AnalyzePass(p)
      PROVE ClearInv'
  BY <1>10 DEF AnalyzePass, InputNow, AnalysisOf, TypeOK, ClearInv, Listed, envVars
<1>11. ASSUME NEW p \in Procs, OpenForWrite(p)
      PROVE ClearInv'
  BY <1>11, MarkerAssumption DEF OpenForWrite, TypeOK, ClearInv, Listed, envVars
<1>12. ASSUME NEW p \in Procs, Write(p)
      PROVE ClearInv'
  <2>0. /\ pc[p] = "write"
        /\ report[p][idx[p]].diags \in Diagnostics
        /\ \/ disk' = disk
           \/ disk' = [disk EXCEPT ![key[p]] = report[p][idx[p]].diags]
           \/ disk' = [disk EXCEPT ![key[p]] = Torn]
    BY <1>12, WriteOnDisk
  <2>1. clearing' = clearing /\ pc'[p] # "failed" /\ \A q \in Procs \ {p} : pc'[q] = pc[q]
    BY <1>12 DEF Write, NextFile, TypeOK
  <2>2. Listed \subseteq Listed'
    BY <2>0, MarkerAssumption DEF Listed, TypeOK
  <2> QED BY <2>1, <2>2 DEF ClearInv
<1>13. ASSUME NEW p \in Procs, Finish(p)
      PROVE ClearInv'
  BY <1>13 DEF Finish, TypeOK, ClearInv, Listed, envVars
<1>14. ASSUME NEW p \in Procs, Crash(p)
      PROVE ClearInv'
  BY <1>14 DEF Crash, Dies, TypeOK, ClearInv, Listed, envVars
<1>15. ASSUME NEW r \in Roots, NEW f \in Files, NEW c \in Contents, EditSource(r, f, c)
      PROVE ClearInv'
  BY <1>15 DEF EditSource, TypeOK, ClearInv, Listed, envVars
<1>16. ASSUME NEW c \in Contracts, EditContracts(c)
      PROVE ClearInv'
  BY <1>16 DEF EditContracts, TypeOK, ClearInv, Listed, envVars
<1>17. ASSUME UNCHANGED vars PROVE ClearInv'
  BY <1>17 DEF vars, TypeOK, ClearInv, Listed, envVars
<1> QED
  BY <1>1, <1>2, <1>3, <1>4, <1>5, <1>6, <1>7, <1>8, <1>9, <1>10, <1>11, <1>12, <1>13,
     <1>14, <1>15, <1>16, <1>17
     DEF Next, ScanStep, Proceed

\* While no file is edited under the scan that works on it, every record of the
\* cache was computed from the very inputs that its key digests, however scans,
\* crashes and --cache-clear interleave (run_cached_scan, JsonCacheStore).
THEOREM RecordsGenuine ==
    ASSUME ~EditsRace PROVE Spec => []RecordsMatchKeys
<1>1. Init => QuietInv
  BY DEF Init, QuietInv, QuietWork, RecordsMatchKeys, IsRecord, Reading, Storing
<1>2. IsolationInv /\ QuietInv /\ [Next]_vars => QuietInv'
  BY IsolationStep, QuietWorkStep, RecordsStep DEF QuietInv
<1>3. IsolationInv /\ QuietInv => RecordsMatchKeys
  BY DEF QuietInv
<1> QED BY <1>1, <1>2, <1>3, IsolationInit, IsolationStep, PTL DEF Spec

\* The only exception the store can raise, unlink() of a file that is gone, needs
\* two clearing processes: with one, no scan ever fails.
THEOREM OneClearer == Spec => []OneClearerNeverFails
<1>1. CASE \A p, q \in Clearers : p = q
  <2>1. Init => ClearInv
    BY DEF Init, ClearInv
  <2>2. IsolationInv /\ ClearInv /\ [Next]_vars => ClearInv'
    BY <1>1, IsolationStep, ClearStep
  <2>3. ClearInv => OneClearerNeverFails
    BY DEF ClearInv, OneClearerNeverFails
  <2> QED BY <2>1, <2>2, <2>3, IsolationInit, IsolationStep, PTL DEF Spec
<1>2. CASE ~(\A p, q \in Clearers : p = q)
  <2>1. OneClearerNeverFails
    BY <1>2 DEF OneClearerNeverFails
  <2> QED BY <2>1, PTL
<1> QED BY <1>1, <1>2

-----------------------------------------------------------------------------
(* What a scan that runs alone takes from the cache.                       *)

Working(p) ==
    pc[p] \in {"hash_source", "hash_contracts", "exists", "read", "analyze", "open", "write"}

\* The files reported so far are those before idx[p], and idx[p] itself once it
\* is analysed.
ProgressInv ==
    \A p \in Procs :
        /\ pc[p] \in {"idle", "failed", "clear"} => \A f \in Files : report[p][f] = NoReport
        /\ pc[p] \in {"summary", "done"} => \A f \in Files : report[p][f] # NoReport
        /\ Working(p) => \A f \in Files :
                report[p][f] # NoReport <=> f < idx[p] \/ (Storing(p) /\ f = idx[p])
        /\ pc[p] = "clear" => idx[p] = 1

IsHit(p, f) == IsRecord(disk[KeyNow(p, f, opts[p])])

\* A forecast that stands: nobody else runs, the files that p has not looked up
\* yet are found in the cache as foretold, and those it has reported were.
Foretold(p) ==
    /\ pc[p] \notin {"idle", "failed"}
    /\ \A q \in Procs \ {p} : ~Running(q)
    /\ pc[p] = "clear" =>
            forecast[p].hits = {f \in Files : KeyNow(p, f, opts[p]) \notin clearing[p] /\ IsHit(p, f)}
    /\ Working(p) => \A f \in Files :
            f > idx[p] \/ (f = idx[p] /\ pc[p] \notin {"analyze", "open", "write"})
                => (f \in forecast[p].hits <=> IsHit(p, f))
    /\ pc[p] \in {"hash_contracts", "exists", "read", "analyze", "open", "write"} =>
            key[p].content = Source(p, idx[p])
    /\ pc[p] \in {"exists", "read", "analyze", "open", "write"} =>
            key[p].hashed = contracts.hashed
    /\ pc[p] \in {"analyze", "open", "write"} => idx[p] \notin forecast[p].hits
    /\ \A f \in Files : report[p][f] # NoReport =>
            (report[p][f].origin = "cached" <=> f \in forecast[p].hits)

ForecastInv == \A p \in Procs : forecast[p].known => Foretold(p)

\* Every record was computed from something.
SomethingSeen ==
    /\ \A k \in Keys : IsRecord(disk[k]) => disk[k].seen # {}
    /\ \A p \in Procs : Storing(p) => report[p][idx[p]].diags.seen # {}

\* What a hit reports: the record on disk, for the file worked on.
LEMMA HitReports ==
    ASSUME IsolationInv, NEW p \in Procs, ReadHit(p)
    PROVE  /\ pc[p] = "read" /\ disk[key[p]] \in Diagnostics
           /\ report'[p][idx[p]] = [origin |-> "cached", diags |-> disk[key[p]]]
           /\ report'[p][idx[p]] \in Reports
           /\ \A f \in Files \ {idx[p]} : report'[p][f] = report[p][f]
           /\ \A q \in Procs \ {p} : report'[q] = report[q]
<1>1. disk[key[p]] \in Diagnostics
  BY DEF ReadHit, IsRecord, IsolationInv, TypeOK
<1> DEFINE r == [origin |-> "cached", diags |-> disk[key[p]]]
<1>2. r \in Reports
  BY <1>1 DEF Reports, Origins
<1>3. report' = [report EXCEPT ![p][idx[p]] = r] /\ pc[p] = "read"
  BY DEF ReadHit
<1> HIDE DEF r
<1>4. /\ report'[p][idx[p]] = r
      /\ \A f \in Files \ {idx[p]} : report'[p][f] = report[p][f]
      /\ \A q \in Procs \ {p} : report'[q] = report[q]
  BY <1>2, <1>3 DEF IsolationInv, TypeOK
<1> QED BY <1>1, <1>2, <1>3, <1>4 DEF r

\* What the last pass reports: an analysis of the file worked on.
LEMMA LastPassReports ==
    ASSUME IsolationInv, NEW p \in Procs, AnalyzePass(p), pass'[p] = NumPasses
    PROVE  /\ pc[p] = "analyze" /\ pc' = [pc EXCEPT ![p] = "open"]
           /\ report'[p][idx[p]] = [origin |-> "fresh",
                                    diags |-> AnalysisOf(RootOf[p], idx[p], seen'[p], opts[p])]
           /\ report'[p][idx[p]] \in Reports
           /\ \A f \in Files \ {idx[p]} : report'[p][f] = report[p][f]
           /\ \A q \in Procs \ {p} : report'[q] = report[q]
<1> DEFINE r == [origin |-> "fresh", diags |-> AnalysisOf(RootOf[p], idx[p], seen'[p], opts[p])]
<1>1. seen'[p] \in SUBSET Inputs
  BY SourceType DEF AnalyzePass, IsolationInv, TypeOK, InputNow, Inputs
<1>2. r \in Reports
  BY <1>1, RootType DEF IsolationInv, TypeOK, AnalysisOf, Reports, Origins, Diagnostics
<1>3. /\ report' = [report EXCEPT ![p][idx[p]] = r] /\ pc[p] = "analyze"
      /\ pc' = [pc EXCEPT ![p] = "open"]
  BY DEF AnalyzePass
<1> HIDE DEF r
<1>4. /\ report'[p][idx[p]] = r
      /\ \A f \in Files \ {idx[p]} : report'[p][f] = report[p][f]
      /\ \A q \in Procs \ {p} : report'[q] = report[q]
  BY <1>2, <1>3 DEF IsolationInv, TypeOK
<1> QED BY <1>2, <1>3, <1>4 DEF r

LEMMA ProgressInit == Init => ProgressInv
BY DEF Init, ProgressInv, Working, Storing

LEMMA ProgressStep ==
    ASSUME IsolationInv, IsolationInv', ProgressInv, [Next]_vars PROVE ProgressInv'
<1>1. ASSUME NEW p \in Procs, NEW o \in Options, NEW clear \in BOOLEAN, Start(p, o, clear)
      PROVE ProgressInv'
  <2>1. /\ pc'[p] = "clear" /\ idx'[p] = 1
        /\ \A f \in Files : report'[p][f] = NoReport
    BY <1>1 DEF Start, IsolationInv, TypeOK
  <2>2. \A q \in Procs \ {p} : pc'[q] = pc[q] /\ idx'[q] = idx[q] /\ report'[q] = report[q]
    BY <1>1 DEF Start, IsolationInv, TypeOK
  <2> QED BY <2>1, <2>2 DEF ProgressInv, Working, Storing
<1>2. ASSUME NEW p \in Procs, NEW k \in Keys, Unlink(p, k)
      PROVE ProgressInv'
  BY <1>2, SizeAssumption, MarkerAssumption
     DEF Unlink, IsolationInv, TypeOK, WorkInv, ProgressInv, Working, Storing, Running,
         Resting, Files
<1>3. ASSUME NEW p \in Procs, NEW k \in Keys, UnlinkMissing(p, k)
      PROVE ProgressInv'
  BY <1>3, SizeAssumption, MarkerAssumption
     DEF UnlinkMissing, Dies, IsolationInv, TypeOK, WorkInv, ProgressInv, Working, Storing,
         Running, Resting, Files
<1>4. ASSUME NEW p \in Procs, BeginFiles(p)
      PROVE ProgressInv'
  BY <1>4, SizeAssumption, MarkerAssumption
     DEF BeginFiles, IsolationInv, TypeOK, WorkInv, ProgressInv, Working, Storing, Running,
         Resting, Files
<1>5. ASSUME NEW p \in Procs, HashSource(p)
      PROVE ProgressInv'
  BY <1>5, SizeAssumption, MarkerAssumption
     DEF HashSource, IsolationInv, TypeOK, WorkInv, ProgressInv, Working, Storing, Running,
         Resting, Files
<1>6. ASSUME NEW p \in Procs, HashContracts(p)
      PROVE ProgressInv'
  BY <1>6, SizeAssumption, MarkerAssumption
     DEF HashContracts, IsolationInv, TypeOK, WorkInv, ProgressInv, Working, Storing,
         Running, Resting, Files
<1>7. ASSUME NEW p \in Procs, Exists(p) PROVE ProgressInv'
  BY <1>7, SizeAssumption, MarkerAssumption
     DEF Exists, IsolationInv, TypeOK, WorkInv, ProgressInv, Working, Storing, Running,
         Resting, Files
<1>8. ASSUME NEW p \in Procs, ReadHit(p) PROVE ProgressInv'
  <2>1. /\ pc[p] = "read" /\ report'[p][idx[p]] # NoReport
        /\ \A f \in Files \ {idx[p]} : report'[p][f] = report[p][f]
        /\ \A q \in Procs \ {p} : report'[q] = report[q]
    BY <1>8, HitReports, MarkerAssumption
  <2>2. /\ pc' = [pc EXCEPT ![p] = IF idx[p] = NFiles THEN "summary" ELSE "hash_source"]
        /\ idx' = [idx EXCEPT ![p] = IF idx[p] = NFiles THEN 1 ELSE idx[p] + 1]
    BY <1>8 DEF ReadHit, NextFile, IsolationInv, TypeOK
  <2>3. /\ \A q \in Procs \ {p} : pc'[q] = pc[q] /\ idx'[q] = idx[q]
        /\ idx[p] = NFiles => pc'[p] = "summary" /\ idx'[p] = 1
        /\ idx[p] # NFiles => pc'[p] = "hash_source" /\ idx'[p] = idx[p] + 1
        /\ idx[p] \in 1 .. NFiles /\ NFiles \in Nat
    BY <2>2, SizeAssumption DEF IsolationInv, TypeOK, Files
  <2>4. \A f \in Files : report[p][f] # NoReport <=> f < idx[p]
    BY <2>1 DEF ProgressInv, Working, Storing
  <2>5. \A f \in Files : report'[p][f] # NoReport <=> f <= idx[p]
    BY <2>1, <2>3, <2>4 DEF Files
  <2> QED
    BY <2>1, <2>3, <2>5 DEF ProgressInv, Working, Storing, Files
<1>9. ASSUME NEW p \in Procs, ReadMiss(p) PROVE ProgressInv'
  BY <1>9, SizeAssumption, MarkerAssumption
     DEF ReadMiss, IsolationInv, TypeOK, WorkInv, ProgressInv, Working, Storing, Running,
         Resting, Files
<1>10. ASSUME NEW p \in Procs, AnalyzePass(p)
      PROVE ProgressInv'
  <2>1. CASE pass'[p] = NumPasses
    <3>1. /\ pc[p] = "analyze" /\ pc' = [pc EXCEPT ![p] = "open"]
          /\ report'[p][idx[p]] # NoReport
          /\ \A f \in Files \ {idx[p]} : report'[p][f] = report[p][f]
          /\ \A q \in Procs \ {p} : report'[q] = report[q]
      BY <1>10, <2>1, LastPassReports, MarkerAssumption
    <3>2. idx' = idx
      BY <1>10 DEF AnalyzePass
    <3>3. pc'[p] = "open" /\ \A q \in Procs \ {p} : pc'[q] = pc[q]
      BY <3>1 DEF IsolationInv, TypeOK
    <3>4. \A f \in Files : report'[p][f] # NoReport <=> f < idx[p] \/ f = idx[p]
      BY <3>1 DEF ProgressInv, Working, Storing
    <3> QED
      BY <3>1, <3>2, <3>3, <3>4 DEF ProgressInv, Working, Storing
  <2>2. CASE pass'[p] # NumPasses
    BY <1>10, <2>2 DEF AnalyzePass, ProgressInv, Working, Storing
  <2> QED BY <2>1, <2>2
<1>11. ASSUME NEW p \in Procs, OpenForWrite(p)
      PROVE ProgressInv'
  BY <1>11, SizeAssumption, MarkerAssumption
     DEF OpenForWrite, IsolationInv, TypeOK, WorkInv, ProgressInv, Working, Storing,
         Running, Resting, Files
<1>12. ASSUME NEW p \in Procs, Write(p) PROVE ProgressInv'
  BY <1>12, SizeAssumption, MarkerAssumption
     DEF Write, NextFile, IsolationInv, TypeOK, WorkInv, ProgressInv, Working, Storing,
         Running, Resting, Files
<1>13. ASSUME NEW p \in Procs, Finish(p) PROVE ProgressInv'
  BY <1>13, SizeAssumption, MarkerAssumption
     DEF Finish, IsolationInv, TypeOK, WorkInv, ProgressInv, Working, Storing, Running,
         Resting, Files
<1>14. ASSUME NEW p \in Procs, Crash(p) PROVE ProgressInv'
  BY <1>14, SizeAssumption, MarkerAssumption
     DEF Crash, Dies, IsolationInv, TypeOK, WorkInv, ProgressInv, Working, Storing, Running,
         Resting, Files
<1>15. ASSUME NEW r \in Roots, NEW f \in Files, NEW c \in Contents, EditSource(r, f, c)
      PROVE ProgressInv'
  BY <1>15, SizeAssumption, MarkerAssumption
     DEF EditSource, IsolationInv, TypeOK, WorkInv, ProgressInv, Working, Storing, Running,
         Resting, Files
<1>16. ASSUME NEW c \in Contracts, EditContracts(c)
      PROVE ProgressInv'
  BY <1>16, SizeAssumption, MarkerAssumption
     DEF EditContracts, IsolationInv, TypeOK, WorkInv, ProgressInv, Working, Storing,
         Running, Resting, Files
<1>17. ASSUME UNCHANGED vars PROVE ProgressInv'
  BY <1>17 DEF vars, ProgressInv, Working, Storing
<1> QED
  BY <1>1, <1>2, <1>3, <1>4, <1>5, <1>6, <1>7, <1>8, <1>9,
     <1>10, <1>11, <1>12, <1>13, <1>14, <1>15, <1>16, <1>17 DEF Next, ScanStep, Proceed

LEMMA SomethingSeenInit == Init => SomethingSeen
BY DEF Init, SomethingSeen, IsRecord, Storing

LEMMA SomethingSeenStep ==
    ASSUME IsolationInv, SomethingSeen, [Next]_vars PROVE SomethingSeen'
<1>1. ASSUME NEW p \in Procs, NEW o \in Options, NEW clear \in BOOLEAN, Start(p, o, clear)
      PROVE SomethingSeen'
  BY <1>1
     DEF Start, IsolationInv, TypeOK, SomethingSeen, Storing, IsRecord, Running, Resting,
         envVars
<1>2. ASSUME NEW p \in Procs, NEW k \in Keys, Unlink(p, k)
      PROVE SomethingSeen'
  BY <1>2
     DEF Unlink, IsolationInv, TypeOK, SomethingSeen, Storing, IsRecord, Running, Resting,
         envVars
<1>3. ASSUME NEW p \in Procs, NEW k \in Keys, UnlinkMissing(p, k)
      PROVE SomethingSeen'
  BY <1>3
     DEF UnlinkMissing, Dies, IsolationInv, TypeOK, SomethingSeen, Storing, IsRecord,
         Running, Resting, envVars
<1>4. ASSUME NEW p \in Procs, BeginFiles(p)
      PROVE SomethingSeen'
  BY <1>4
     DEF BeginFiles, IsolationInv, TypeOK, SomethingSeen, Storing, IsRecord, Running,
         Resting, envVars
<1>5. ASSUME NEW p \in Procs, HashSource(p)
      PROVE SomethingSeen'
  BY <1>5
     DEF HashSource, IsolationInv, TypeOK, SomethingSeen, Storing, IsRecord, Running,
         Resting, envVars
<1>6. ASSUME NEW p \in Procs, HashContracts(p)
      PROVE SomethingSeen'
  BY <1>6
     DEF HashContracts, IsolationInv, TypeOK, SomethingSeen, Storing, IsRecord, Running,
         Resting, envVars
<1>7. ASSUME NEW p \in Procs, Exists(p) PROVE SomethingSeen'
  BY <1>7
     DEF Exists, IsolationInv, TypeOK, SomethingSeen, Storing, IsRecord, Running, Resting,
         envVars
<1>8. ASSUME NEW p \in Procs, ReadHit(p) PROVE SomethingSeen'
  BY <1>8
     DEF ReadHit, NextFile, IsolationInv, TypeOK, SomethingSeen, Storing, IsRecord, Running,
         Resting, envVars
<1>9. ASSUME NEW p \in Procs, ReadMiss(p) PROVE SomethingSeen'
  BY <1>9
     DEF ReadMiss, IsolationInv, TypeOK, SomethingSeen, Storing, IsRecord, Running, Resting,
         envVars
<1>10. ASSUME NEW p \in Procs, AnalyzePass(p)
      PROVE SomethingSeen'
  <2>1. disk' = disk /\ idx' = idx
    BY <1>10 DEF AnalyzePass
  <2>2. CASE pass'[p] = NumPasses
    <3>1. /\ pc[p] = "analyze" /\ pc' = [pc EXCEPT ![p] = "open"]
          /\ report'[p][idx[p]] = [origin |-> "fresh",
                                   diags |-> AnalysisOf(RootOf[p], idx[p], seen'[p], opts[p])]
          /\ \A q \in Procs \ {p} : report'[q] = report[q]
      BY <1>10, <2>2, LastPassReports
    <3>2. report'[p][idx[p]].diags.seen # {}
      <4>1. seen'[p] # {}
        BY <1>10 DEF AnalyzePass, IsolationInv, TypeOK
      <4> QED BY <3>1, <4>1 DEF AnalysisOf
    <3> QED BY <2>1, <3>1, <3>2 DEF SomethingSeen, Storing, IsolationInv, TypeOK
  <2>3. CASE pass'[p] # NumPasses
    BY <1>10, <2>1, <2>3 DEF AnalyzePass, SomethingSeen, Storing
  <2> QED BY <2>2, <2>3
<1>11. ASSUME NEW p \in Procs, OpenForWrite(p)
      PROVE SomethingSeen'
  BY <1>11
     DEF OpenForWrite, IsolationInv, TypeOK, SomethingSeen, Storing, IsRecord, Running,
         Resting, envVars
<1>12. ASSUME NEW p \in Procs, Write(p) PROVE SomethingSeen'
  <2>1. /\ pc[p] = "write"
        /\ report[p][idx[p]].diags \in Diagnostics
        /\ \/ disk' = disk
           \/ disk' = [disk EXCEPT ![key[p]] = report[p][idx[p]].diags]
           \/ disk' = [disk EXCEPT ![key[p]] = Torn]
    BY <1>12, WriteOnDisk
  <2>2. \A k \in Keys : IsRecord(disk'[k]) => disk'[k].seen # {}
    BY <2>1 DEF IsolationInv, TypeOK, SomethingSeen, Storing, IsRecord
  <2>3. \A q \in Procs : Storing(q)' => Storing(q) /\ idx'[q] = idx[q] /\ report'[q] = report[q]
    BY <1>12 DEF Write, NextFile, IsolationInv, TypeOK, Storing
  <2> QED BY <2>2, <2>3 DEF SomethingSeen
<1>13. ASSUME NEW p \in Procs, Finish(p) PROVE SomethingSeen'
  BY <1>13
     DEF Finish, IsolationInv, TypeOK, SomethingSeen, Storing, IsRecord, Running, Resting,
         envVars
<1>14. ASSUME NEW p \in Procs, Crash(p) PROVE SomethingSeen'
  BY <1>14
     DEF Crash, Dies, IsolationInv, TypeOK, SomethingSeen, Storing, IsRecord, Running,
         Resting, envVars
<1>15. ASSUME NEW r \in Roots, NEW f \in Files, NEW c \in Contents, EditSource(r, f, c)
      PROVE SomethingSeen'
  BY <1>15
     DEF EditSource, IsolationInv, TypeOK, SomethingSeen, Storing, IsRecord, Running,
         Resting, envVars
<1>16. ASSUME NEW c \in Contracts, EditContracts(c)
      PROVE SomethingSeen'
  BY <1>16
     DEF EditContracts, IsolationInv, TypeOK, SomethingSeen, Storing, IsRecord, Running,
         Resting, envVars
<1>17. ASSUME UNCHANGED vars PROVE SomethingSeen'
  BY <1>17 DEF vars, SomethingSeen, Storing
<1> QED
  BY <1>1, <1>2, <1>3, <1>4, <1>5, <1>6, <1>7, <1>8, <1>9,
     <1>10, <1>11, <1>12, <1>13, <1>14, <1>15, <1>16, <1>17 DEF Next, ScanStep, Proceed

\* A step of p touches no forecast but p's own, because nobody else has one.
LEMMA MoversForecast ==
    ASSUME ForecastInv, NEW p \in Procs, Running(p), forecast' = forecast,
           forecast[p].known /\ Foretold(p) => Foretold(p)'
    PROVE  ForecastInv'
<1>1. \A q \in Procs \ {p} : ~forecast[q].known
  BY DEF ForecastInv, Foretold
<1> QED BY <1>1 DEF ForecastInv

LEMMA KeyNowIsKey ==
    ASSUME TypeOK, NEW p \in Procs, NEW f \in Files, NEW o \in Options
    PROVE  KeyNow(p, f, o) \in Keys /\ KeyNow(p, f, o).file = f
BY SourceType DEF TypeOK, KeyNow, KeyOf, Keys, Contracts

\* The key of a scan whose fingerprint is taken and still holds.
LEMMA KeyStillHolds ==
    ASSUME IsolationInv, NEW p \in Procs, Fingerprinted(p),
           key[p].content = Source(p, idx[p]), key[p].hashed = contracts.hashed
    PROVE  key[p] = KeyNow(p, idx[p], opts[p])
BY DEF IsolationInv, TypeOK, WorkInv, KeyNow, KeyOf, Source, Keys

\* A step of p that leaves the disk, the files and its options alone does not
\* change what it would find in the cache.
LEMMA HitsStay ==
    ASSUME NEW p \in Procs, UNCHANGED <<sources, contracts, disk, opts>>
    PROVE  \A f \in Files : IsHit(p, f)' <=> IsHit(p, f)
BY DEF IsHit, KeyNow, KeyOf, Source, IsRecord

\* Neither does a change of the entry of another file.
LEMMA OtherHitsStay ==
    ASSUME IsolationInv, NEW p \in Procs, NEW k \in Keys, UNCHANGED <<sources, contracts, opts>>,
           \A j \in Keys \ {k} : disk'[j] = disk[j]
    PROVE  \A f \in Files : f # k.file => (IsHit(p, f)' <=> IsHit(p, f))
<1> SUFFICES ASSUME NEW f \in Files, f # k.file PROVE IsHit(p, f)' <=> IsHit(p, f)
  OBVIOUS
<1>1. KeyNow(p, f, opts[p]) \in Keys \ {k}
  BY KeyNowIsKey DEF IsolationInv, TypeOK
<1>2. KeyNow(p, f, opts[p])' = KeyNow(p, f, opts[p])
  BY DEF KeyNow, KeyOf, Source
<1> QED BY <1>1, <1>2 DEF IsHit, IsRecord


LEMMA ForecastInit == Init => ForecastInv
BY DEF Init, ForecastInv, NoForecast

LEMMA ForecastStep ==
    ASSUME IsolationInv, IsolationInv', ProgressInv, ForecastInv, [Next]_vars PROVE ForecastInv'
<1>1. ASSUME NEW p \in Procs, NEW o \in Options, NEW clear \in BOOLEAN, Start(p, o, clear)
      PROVE ForecastInv'
  <2>1. \A q \in Procs \ {p} : ~forecast'[q].known
    BY <1>1 DEF Start, Forecast, NoForecast
  <2>2. ASSUME forecast'[p].known PROVE Foretold(p)'
    <3>1. /\ \A q \in Procs \ {p} : ~Running(q)
          /\ forecast'[p].hits = {f \in Files : ~clear /\ IsRecord(disk[KeyNow(p, f, o)])}
      BY <1>1, <2>2 DEF Start, Forecast, NoForecast
    <3>2. /\ pc' = [pc EXCEPT ![p] = "clear"] /\ opts'[p] = o
          /\ clearing'[p] = IF clear THEN Listed ELSE {}
          /\ \A f \in Files : report'[p][f] = NoReport
          /\ UNCHANGED <<sources, contracts, disk>>
      BY <1>1 DEF Start, IsolationInv, TypeOK, envVars
    <3>3. \A f \in Files : IsHit(p, f)' <=> IsRecord(disk[KeyNow(p, f, o)])
      BY <3>2 DEF IsHit, IsRecord, KeyNow, KeyOf, Source
    <3>4. \A f \in Files : KeyNow(p, f, opts[p])' = KeyNow(p, f, o) /\ KeyNow(p, f, o) \in Keys
      BY <3>2, KeyNowIsKey DEF KeyNow, KeyOf, Source, IsolationInv
    <3>5. \A f \in Files : (KeyNow(p, f, opts[p])' \notin clearing'[p] /\ IsHit(p, f)')
                               <=> (~clear /\ IsRecord(disk[KeyNow(p, f, o)]))
      BY <3>2, <3>3, <3>4 DEF Listed, IsRecord
    <3>6. pc'[p] = "clear" /\ \A q \in Procs \ {p} : pc'[q] = pc[q]
      BY <3>2 DEF IsolationInv, TypeOK
    <3> QED
      BY <3>1, <3>2, <3>5, <3>6 DEF Foretold, Working, Running, Source
  <2> QED BY <2>1, <2>2 DEF ForecastInv
<1>2. ASSUME NEW p \in Procs, NEW k \in Keys, Unlink(p, k)
      PROVE ForecastInv'
  <2>1. Running(p) /\ forecast' = forecast
    BY <1>2 DEF Unlink, Running, Resting, envVars
  <2>2. ASSUME forecast[p].known, Foretold(p) PROVE Foretold(p)'
    <3>1. /\ pc[p] = "clear" /\ pc' = pc /\ k \in clearing[p] /\ clearing'[p] = clearing[p] \ {k}
          /\ disk' = [disk EXCEPT ![k] = Absent] /\ UNCHANGED <<sources, contracts, opts, report>>
      BY <1>2 DEF Unlink, IsolationInv, TypeOK, envVars
    <3>2. ASSUME NEW f \in Files
          PROVE (KeyNow(p, f, opts[p])' \notin clearing'[p] /\ IsHit(p, f)')
                    <=> (KeyNow(p, f, opts[p]) \notin clearing[p] /\ IsHit(p, f))
      <4>1. KeyNow(p, f, opts[p])' = KeyNow(p, f, opts[p]) /\ KeyNow(p, f, opts[p]) \in Keys
        BY <3>1, KeyNowIsKey DEF KeyNow, KeyOf, Source, IsolationInv, TypeOK
      <4> QED BY <3>1, <4>1 DEF IsHit, IsRecord, IsolationInv, TypeOK
    <3> QED BY <2>1, <2>2, <3>1, <3>2 DEF Foretold, Working, Running, Source
  <2> QED BY <2>1, <2>2, MoversForecast
<1>3. ASSUME NEW p \in Procs, NEW k \in Keys, UnlinkMissing(p, k)
      PROVE ForecastInv'
  <2>1. /\ \A q \in Procs \ {p} : ~forecast[q].known /\ forecast'[q] = forecast[q]
        /\ ~forecast'[p].known
    <3>1. Running(p)
      BY <1>3 DEF UnlinkMissing, Running, Resting
    <3>2. \A q \in Procs \ {p} : ~forecast[q].known
      BY <3>1 DEF ForecastInv, Foretold
    <3>3. forecast' = [forecast EXCEPT ![p] = NoForecast]
      BY <1>3 DEF UnlinkMissing, Dies
    <3> QED BY <3>2, <3>3 DEF NoForecast, IsolationInv, TypeOK
  <2> QED BY <2>1 DEF ForecastInv
<1>4. ASSUME NEW p \in Procs, BeginFiles(p)
      PROVE ForecastInv'
  <2>1. Running(p) /\ forecast' = forecast
    BY <1>4 DEF BeginFiles, Running, Resting, envVars
  <2>2. ASSUME forecast[p].known, Foretold(p) PROVE Foretold(p)'
    <3>1. UNCHANGED <<sources, contracts, disk, opts>>
      BY <1>4 DEF BeginFiles, envVars
    <3>2. \A f \in Files : IsHit(p, f)' <=> IsHit(p, f)
      BY <3>1, HitsStay
    <3>3. /\ pc[p] = "clear" /\ clearing[p] = {} /\ pc'[p] = "hash_source"
          /\ \A q \in Procs \ {p} : pc'[q] = pc[q]
          /\ UNCHANGED <<report, forecast>>
      BY <1>4 DEF BeginFiles, IsolationInv, TypeOK
    <3>4. \A f \in Files : f \in forecast[p].hits <=> IsHit(p, f)
      BY <2>2, <3>3 DEF Foretold
    <3>5. \A q \in Procs \ {p} : ~Running(q)'
      BY <3>3, <2>2 DEF Foretold, Running
    <3> QED
      BY <2>2, <3>1, <3>2, <3>3, <3>5, <3>4 DEF Foretold, Working, Files, Source
  <2> QED BY <2>1, <2>2, MoversForecast
<1>5. ASSUME NEW p \in Procs, HashSource(p)
      PROVE ForecastInv'
  <2>1. Running(p) /\ forecast' = forecast
    BY <1>5 DEF HashSource, Running, Resting, envVars
  <2>2. ASSUME forecast[p].known, Foretold(p) PROVE Foretold(p)'
    <3>1. UNCHANGED <<sources, contracts, disk, opts>>
      BY <1>5 DEF HashSource, envVars
    <3>2. \A f \in Files : IsHit(p, f)' <=> IsHit(p, f)
      BY <3>1, HitsStay
    <3>3. /\ pc[p] = "hash_source" /\ pc'[p] = "hash_contracts"
          /\ \A q \in Procs \ {p} : pc'[q] = pc[q]
          /\ UNCHANGED <<report, forecast, idx>>
      BY <1>5 DEF HashSource, IsolationInv, TypeOK
    <3>4. key'[p].content = Source(p, idx[p])
      <4>1. key'[p] = KeyNow(p, idx[p], opts[p])
        BY <1>5 DEF HashSource, IsolationInv, TypeOK
      <4> QED BY <4>1 DEF KeyNow, KeyOf, Source
    <3>5. \A q \in Procs \ {p} : ~Running(q)'
      BY <3>3, <2>2 DEF Foretold, Running
    <3> QED
      BY <2>2, <3>1, <3>2, <3>3, <3>5, <3>4 DEF Foretold, Working, Files, Source
  <2> QED BY <2>1, <2>2, MoversForecast
<1>6. ASSUME NEW p \in Procs, HashContracts(p)
      PROVE ForecastInv'
  <2>1. Running(p) /\ forecast' = forecast
    BY <1>6 DEF HashContracts, Running, Resting, envVars
  <2>2. ASSUME forecast[p].known, Foretold(p) PROVE Foretold(p)'
    <3>1. UNCHANGED <<sources, contracts, disk, opts>>
      BY <1>6 DEF HashContracts, envVars
    <3>2. \A f \in Files : IsHit(p, f)' <=> IsHit(p, f)
      BY <3>1, HitsStay
    <3> QED
      BY <1>6, <2>1, <2>2, <3>1, <3>2, SizeAssumption
         DEF HashContracts, IsolationInv, TypeOK, WorkInv, ProgressInv, Foretold, Working, Source,
             Storing, Running, Resting, Keys, Files, envVars
  <2> QED BY <2>1, <2>2, MoversForecast
<1>7. ASSUME NEW p \in Procs, Exists(p) PROVE ForecastInv'
  <2>1. Running(p) /\ forecast' = forecast
    BY <1>7 DEF Exists, Running, Resting, envVars
  <2>2. ASSUME forecast[p].known, Foretold(p) PROVE Foretold(p)'
    <3>1. UNCHANGED <<sources, contracts, disk, opts>>
      BY <1>7 DEF Exists, envVars
    <3>2. \A f \in Files : IsHit(p, f)' <=> IsHit(p, f)
      BY <3>1, HitsStay
    <3>3. /\ pc[p] = "exists" /\ pc'[p] = IF disk[key[p]] = Absent THEN "analyze" ELSE "read"
          /\ \A q \in Procs \ {p} : pc'[q] = pc[q]
          /\ UNCHANGED <<report, forecast, idx, key>>
      BY <1>7 DEF Exists, IsolationInv, TypeOK
    <3>4. pc'[p] = "analyze" => idx[p] \notin forecast[p].hits
      <4>1. key[p] = KeyNow(p, idx[p], opts[p])
        BY <2>2, <3>3, KeyStillHolds DEF Foretold, Fingerprinted
      <4>2. idx[p] \in Files /\ ~(pc[p] \in {"analyze", "open", "write"})
        BY <3>3 DEF IsolationInv, TypeOK
      <4>3. idx[p] \in forecast[p].hits <=> IsHit(p, idx[p])
        BY <2>2, <3>3, <4>2 DEF Foretold, Working
      <4> QED BY <3>3, <4>1, <4>3 DEF IsHit, IsRecord
    <3>5. \A q \in Procs \ {p} : ~Running(q)'
      BY <3>3, <2>2 DEF Foretold, Running
    <3> QED
      BY <2>2, <3>1, <3>2, <3>3, <3>5, <3>4 DEF Foretold, Working, Files, Source
  <2> QED BY <2>1, <2>2, MoversForecast
<1>8. ASSUME NEW p \in Procs, ReadHit(p) PROVE ForecastInv'
  <2>1. Running(p) /\ forecast' = forecast
    BY <1>8 DEF ReadHit, NextFile, Running, Resting, envVars
  <2>2. ASSUME forecast[p].known, Foretold(p) PROVE Foretold(p)'
    <3>1. UNCHANGED <<sources, contracts, disk, opts>>
      BY <1>8 DEF ReadHit, NextFile, envVars
    <3>2. \A f \in Files : IsHit(p, f)' <=> IsHit(p, f)
      BY <3>1, HitsStay
    <3>3. /\ pc[p] = "read" /\ IsRecord(disk[key[p]])
          /\ idx[p] = NFiles => pc'[p] = "summary"
          /\ idx[p] # NFiles => pc'[p] = "hash_source" /\ idx'[p] = idx[p] + 1
          /\ idx[p] \in 1 .. NFiles /\ NFiles \in Nat
          /\ \A q \in Procs \ {p} : pc'[q] = pc[q]
          /\ forecast' = forecast
      BY <1>8, SizeAssumption DEF ReadHit, NextFile, IsolationInv, TypeOK, Files
    <3>4. idx[p] \in forecast[p].hits
      <4>1. key[p] = KeyNow(p, idx[p], opts[p])
        BY <2>2, <3>3, KeyStillHolds DEF Foretold, Fingerprinted
      <4>2. idx[p] \in Files
        BY DEF IsolationInv, TypeOK
      <4>3. idx[p] \in forecast[p].hits <=> IsHit(p, idx[p])
        BY <2>2, <3>3, <4>2 DEF Foretold, Working
      <4> QED BY <3>3, <4>1, <4>3 DEF IsHit
    <3>6. report'[p][idx[p]].origin = "cached" /\ \A f \in Files \ {idx[p]} : report'[p][f] = report[p][f]
      <4>1. /\ report'[p][idx[p]] = [origin |-> "cached", diags |-> disk[key[p]]]
            /\ \A f \in Files \ {idx[p]} : report'[p][f] = report[p][f]
        BY <1>8, HitReports
      <4> QED BY <4>1
    <3>7. \A f \in Files : report'[p][f] # NoReport =>
                (report'[p][f].origin = "cached" <=> f \in forecast[p].hits)
      BY <2>2, <3>4, <3>6 DEF Foretold
    <3>8. \A f \in Files : f > idx[p] => (f \in forecast[p].hits <=> IsHit(p, f))
      BY <2>2, <3>3 DEF Foretold, Working
    <3>5. \A q \in Procs \ {p} : ~Running(q)'
      BY <3>3, <2>2 DEF Foretold, Running
    <3> QED
      BY <2>2, <3>1, <3>2, <3>3, <3>5, <3>7, <3>8 DEF Foretold, Working, Files, Source
  <2> QED BY <2>1, <2>2, MoversForecast
<1>9. ASSUME NEW p \in Procs, ReadMiss(p) PROVE ForecastInv'
  <2>1. Running(p) /\ forecast' = forecast
    BY <1>9 DEF ReadMiss, Running, Resting, envVars
  <2>2. ASSUME forecast[p].known, Foretold(p) PROVE Foretold(p)'
    <3>1. UNCHANGED <<sources, contracts, disk, opts>>
      BY <1>9 DEF ReadMiss, envVars
    <3>2. \A f \in Files : IsHit(p, f)' <=> IsHit(p, f)
      BY <3>1, HitsStay
    <3>3. /\ pc[p] = "read" /\ pc'[p] = "analyze" /\ ~IsRecord(disk[key[p]])
          /\ \A q \in Procs \ {p} : pc'[q] = pc[q]
          /\ UNCHANGED <<report, forecast, idx, key>>
      BY <1>9 DEF ReadMiss, IsolationInv, TypeOK
    <3>4. idx[p] \notin forecast[p].hits
      <4>1. key[p] = KeyNow(p, idx[p], opts[p])
        BY <2>2, <3>3, KeyStillHolds DEF Foretold, Fingerprinted
      <4>2. idx[p] \in Files
        BY DEF IsolationInv, TypeOK
      <4>3. idx[p] \in forecast[p].hits <=> IsHit(p, idx[p])
        BY <2>2, <3>3, <4>2 DEF Foretold, Working
      <4> QED BY <3>3, <4>1, <4>3 DEF IsHit
    <3>5. \A q \in Procs \ {p} : ~Running(q)'
      BY <3>3, <2>2 DEF Foretold, Running
    <3> QED
      BY <2>2, <3>1, <3>2, <3>3, <3>5, <3>4 DEF Foretold, Working, Files, Source
  <2> QED BY <2>1, <2>2, MoversForecast
<1>10. ASSUME NEW p \in Procs, AnalyzePass(p)
      PROVE ForecastInv'
  <2>1. Running(p) /\ forecast' = forecast
    BY <1>10 DEF AnalyzePass, Running, Resting, envVars
  <2>2. ASSUME forecast[p].known, Foretold(p) PROVE Foretold(p)'
    <3>1. UNCHANGED <<sources, contracts, disk, opts>>
      BY <1>10 DEF AnalyzePass, envVars
    <3>2. \A f \in Files : IsHit(p, f)' <=> IsHit(p, f)
      BY <3>1, HitsStay
    <3>3. /\ pc[p] = "analyze" /\ pc'[p] \in {"analyze", "open"}
          /\ \A q \in Procs \ {p} : pc'[q] = pc[q]
          /\ UNCHANGED <<forecast, idx, key>>
      <4>1. pc' = pc \/ pc' = [pc EXCEPT ![p] = "open"]
        BY <1>10 DEF AnalyzePass
      <4> QED BY <1>10, <4>1 DEF AnalyzePass, IsolationInv, TypeOK
    <3>4. idx[p] \notin forecast[p].hits
      BY <2>2, <3>3 DEF Foretold
    <3> DEFINE Agree == \A f \in Files : report'[p][f] # NoReport =>
                            (report'[p][f].origin = "cached" <=> f \in forecast[p].hits)
    <3>6. ASSUME pass'[p] = NumPasses PROVE Agree
      <4>1. /\ report'[p][idx[p]] = [origin |-> "fresh",
                                      diags |-> AnalysisOf(RootOf[p], idx[p], seen'[p], opts[p])]
            /\ \A f \in Files \ {idx[p]} : report'[p][f] = report[p][f]
        BY <1>10, <3>6, LastPassReports
      <4>2. report'[p][idx[p]].origin = "fresh"
        BY <4>1
      <4> QED BY <2>2, <3>4, <4>1, <4>2 DEF Foretold
    <3>7. ASSUME pass'[p] # NumPasses PROVE Agree
      BY <1>10, <2>2, <3>7 DEF AnalyzePass, Foretold
    <3>8. \A f \in Files : report'[p][f] # NoReport =>
                (report'[p][f].origin = "cached" <=> f \in forecast[p].hits)
      BY <3>6, <3>7
    <3>5. \A q \in Procs \ {p} : ~Running(q)'
      BY <3>3, <2>2 DEF Foretold, Running
    <3> QED
      BY <2>2, <3>1, <3>2, <3>3, <3>5, <3>8 DEF Foretold, Working, Files, Source
  <2> QED BY <2>1, <2>2, MoversForecast
<1>11. ASSUME NEW p \in Procs, OpenForWrite(p)
      PROVE ForecastInv'
  <2>1. Running(p) /\ forecast' = forecast
    BY <1>11 DEF OpenForWrite, Running, Resting, envVars
  <2>2. ASSUME forecast[p].known, Foretold(p) PROVE Foretold(p)'
    <3>1. /\ pc[p] = "open" /\ pc' = [pc EXCEPT ![p] = "write"] /\ key[p] \in Keys
          /\ disk' = [disk EXCEPT ![key[p]] = Torn] /\ key[p].file = idx[p]
          /\ UNCHANGED <<sources, contracts, opts, report, idx, key>>
      BY <1>11 DEF OpenForWrite, IsolationInv, TypeOK, WorkInv, Fingerprinted, envVars
    <3>2. \A j \in Keys \ {key[p]} : disk'[j] = disk[j]
      BY <3>1 DEF IsolationInv, TypeOK
    <3>3. \A f \in Files : f # idx[p] => (IsHit(p, f)' <=> IsHit(p, f))
      BY <3>1, <3>2, OtherHitsStay
    <3>4. pc'[p] = "write" /\ \A q \in Procs \ {p} : pc'[q] = pc[q]
      BY <3>1 DEF IsolationInv, TypeOK
    <3>5. \A f \in Files : f > idx[p] => f # idx[p]
      BY DEF IsolationInv, TypeOK, Files
    <3> QED BY <2>1, <2>2, <3>1, <3>3, <3>4, <3>5 DEF Foretold, Working, Running, Source
  <2> QED BY <2>1, <2>2, MoversForecast
<1>12. ASSUME NEW p \in Procs, Write(p) PROVE ForecastInv'
  <2>1. Running(p) /\ forecast' = forecast
    BY <1>12 DEF Write, NextFile, Running, Resting, envVars
  <2>2. ASSUME forecast[p].known, Foretold(p) PROVE Foretold(p)'
    <3>1. /\ pc[p] = "write" /\ key[p] \in Keys /\ key[p].file = idx[p]
          /\ pc' = [pc EXCEPT ![p] = IF idx[p] = NFiles THEN "summary" ELSE "hash_source"]
          /\ idx' = [idx EXCEPT ![p] = IF idx[p] = NFiles THEN 1 ELSE idx[p] + 1]
          /\ UNCHANGED <<sources, contracts, opts, report>>
      BY <1>12 DEF Write, NextFile, IsolationInv, TypeOK, WorkInv, Fingerprinted, envVars
    <3>2. \A j \in Keys \ {key[p]} : disk'[j] = disk[j]
      BY <1>12, WriteOnDisk, ZenonT(60) DEF IsolationInv, TypeOK
    <3>3. \A f \in Files : f # idx[p] => (IsHit(p, f)' <=> IsHit(p, f))
      BY <3>1, <3>2, OtherHitsStay
    <3>4. /\ \A q \in Procs \ {p} : pc'[q] = pc[q]
          /\ idx[p] = NFiles => pc'[p] = "summary"
          /\ idx[p] # NFiles => pc'[p] = "hash_source" /\ idx'[p] = idx[p] + 1
          /\ idx[p] \in 1 .. NFiles /\ NFiles \in Nat
      BY <3>1, SizeAssumption DEF IsolationInv, TypeOK, Files
    <3>5. \A f \in Files : f > idx[p] => (f \in forecast[p].hits <=> IsHit(p, f)')
      BY <2>2, <3>1, <3>3, <3>4 DEF Foretold, Working, Files, Source
    <3> QED BY <2>1, <2>2, <3>1, <3>4, <3>5 DEF Foretold, Working, Running, Source, Files
  <2> QED BY <2>1, <2>2, MoversForecast
<1>13. ASSUME NEW p \in Procs, Finish(p) PROVE ForecastInv'
  <2>1. Running(p) /\ forecast' = forecast
    BY <1>13 DEF Finish, Running, Resting, envVars
  <2>2. ASSUME forecast[p].known, Foretold(p) PROVE Foretold(p)'
    <3>1. UNCHANGED <<sources, contracts, disk, opts>>
      BY <1>13 DEF Finish, envVars
    <3>2. \A f \in Files : IsHit(p, f)' <=> IsHit(p, f)
      BY <3>1, HitsStay
    <3> QED
      BY <1>13, <2>1, <2>2, <3>1, <3>2, SizeAssumption
         DEF Finish, IsolationInv, TypeOK, WorkInv, ProgressInv, Foretold, Working, Source, Storing,
             Running, Resting, Files, envVars
  <2> QED BY <2>1, <2>2, MoversForecast
<1>14. ASSUME NEW p \in Procs, Crash(p) PROVE ForecastInv'
  <2>1. /\ \A q \in Procs \ {p} : ~forecast[q].known /\ forecast'[q] = forecast[q]
        /\ ~forecast'[p].known
    <3>1. Running(p)
      BY <1>14 DEF Crash, Running, Resting
    <3>2. \A q \in Procs \ {p} : ~forecast[q].known
      BY <3>1 DEF ForecastInv, Foretold
    <3>3. forecast' = [forecast EXCEPT ![p] = NoForecast]
      BY <1>14 DEF Crash, Dies
    <3> QED BY <3>2, <3>3 DEF NoForecast, IsolationInv, TypeOK
  <2> QED BY <2>1 DEF ForecastInv
<1>15. ASSUME NEW r \in Roots, NEW f \in Files, NEW c \in Contents, EditSource(r, f, c)
      PROVE ForecastInv'
  BY <1>15 DEF EditSource, NoForecast, ForecastInv
<1>16. ASSUME NEW c \in Contracts, EditContracts(c)
      PROVE ForecastInv'
  BY <1>16 DEF EditContracts, NoForecast, ForecastInv
<1>17. ASSUME UNCHANGED vars PROVE ForecastInv'
  BY <1>17 DEF vars, ForecastInv, Foretold, Working, Running, IsHit, KeyNow, KeyOf, Source
<1> QED
  BY <1>1, <1>2, <1>3, <1>4, <1>5, <1>6, <1>7, <1>8, <1>9,
     <1>10, <1>11, <1>12, <1>13, <1>14, <1>15, <1>16, <1>17 DEF Next, ScanStep, Proceed

\* Run alone and with nothing edited under it, a scan takes from the cache exactly
\* the files whose records it found there when it started (run_cached_scan).
THEOREM HitsAsForecast == Spec => []HitsAreForecast
<1>1. IsolationInv /\ ProgressInv /\ ForecastInv => HitsAreForecast
  <2> SUFFICES ASSUME IsolationInv, ProgressInv, ForecastInv,
                      NEW p \in Procs, pc[p] = "done", forecast[p].known
               PROVE  {f \in Files : report[p][f].origin = "cached"} = forecast[p].hits
    BY DEF HitsAreForecast
  <2>1. \A f \in Files : report[p][f].origin = "cached" <=> f \in forecast[p].hits
    BY DEF ProgressInv, ForecastInv, Foretold
  <2>2. forecast[p].hits \subseteq Files
    BY DEF IsolationInv, TypeOK
  <2> QED BY <2>1, <2>2
<1>2. Init => ProgressInv /\ ForecastInv
  BY ProgressInit, ForecastInit
<1>3. IsolationInv /\ ProgressInv /\ ForecastInv /\ [Next]_vars => ProgressInv' /\ ForecastInv'
  BY IsolationStep, ProgressStep, ForecastStep
<1> QED BY <1>1, <1>2, <1>3, IsolationInit, IsolationStep, PTL DEF Spec

-----------------------------------------------------------------------------
(* The cached scan implements FreshScan.                                   *)

StageOf(p) == CASE Running(p) -> "scanning" [] pc[p] = "done" -> "done" [] OTHER -> "idle"
Stages == [p \in Procs |-> StageOf(p)]

PublishedOf(p) == [f \in Files |-> IF report[p][f] = NoReport THEN NoReport ELSE report[p][f].diags]
Publications == [p \in Procs |-> PublishedOf(p)]

LEMMA FreshInit == Init => Fresh!Init
<1> SUFFICES ASSUME Init PROVE Fresh!Init
  OBVIOUS
<1>1. Stages = [p \in Procs |-> "idle"]
  BY DEF Init, Stages, StageOf, Running, Resting
<1>2. Publications = [p \in Procs |-> [f \in Files |-> NoReport]]
  BY DEF Init, Publications, PublishedOf
<1>3. opts \in [Procs -> Options]
  BY IsolationInit DEF IsolationInv, TypeOK
<1> QED
  BY <1>1, <1>2, <1>3
     DEF Init, Fresh!Init, Fresh!Files, Fresh!Contracts, Files, Contracts, Stages, StageOf,
         Publications, PublishedOf

\* Most steps of a scan are not seen from outside.
LEMMA Hidden ==
    ASSUME UNCHANGED <<sources, contracts, opts, report>>,
           \A p \in Procs : StageOf(p)' = StageOf(p)
    PROVE  UNCHANGED Fresh!vars
<1>1. UNCHANGED <<Stages, Publications>>
  BY DEF Stages, Publications, PublishedOf
<1> QED BY <1>1 DEF Fresh!vars, Stages, StageOf, Publications, PublishedOf

LEMMA HiddenMove ==
    ASSUME TypeOK, NEW p \in Procs, UNCHANGED <<sources, contracts, opts, report>>,
           Running(p), Running(p)', \A q \in Procs \ {p} : pc'[q] = pc[q]
    PROVE  UNCHANGED Fresh!vars
<1>1. \A q \in Procs : StageOf(q)' = StageOf(q)
  BY DEF StageOf, Running, Resting
<1> QED BY <1>1, Hidden

\* With one state of the contracts that are not hashed, an input that matches a
\* key still holding is the input of now.
LEMMA MatchIsNow ==
    ASSUME TypeOK, \A u, v \in UnhashedContracts : u = v,
           NEW p \in Procs, NEW f \in Files, NEW i \in Inputs,
           i.content = Source(p, f), i.contracts.hashed = contracts.hashed
    PROVE  i = InputNow(p, f)
<1>1. i.contracts = contracts
  <2>1. contracts \in Contracts /\ i.contracts \in Contracts
    BY DEF TypeOK, Inputs
  <2> QED BY <2>1 DEF Contracts
<1> QED BY <1>1 DEF Inputs, InputNow

\* So a set of such inputs, when it is not empty, is one instant's.
LEMMA AnalysisIsFresh ==
    ASSUME TypeOK, \A u, v \in UnhashedContracts : u = v, \A r, s \in Roots : r = s,
           NEW p \in Procs, NEW d \in Diagnostics, d.file = idx[p], d.opts = opts[p], d.seen # {},
           key[p].content = Source(p, idx[p]), key[p].hashed = contracts.hashed,
           \A i \in d.seen : Matches(i, key[p])
    PROVE  d = Fresh!AnalysisOf(RootOf[p], idx[p], Source(p, idx[p]), contracts, opts[p])
<1>1. idx[p] \in Files /\ d.seen \in SUBSET Inputs
  BY DEF TypeOK, Diagnostics
<1>2. \A i \in d.seen : i = InputNow(p, idx[p])
  BY <1>1, MatchIsNow DEF Matches
<1>3. d.seen = {[content |-> Source(p, idx[p]), contracts |-> contracts]}
  BY <1>2 DEF InputNow
<1>4. d = [root |-> d.root, file |-> d.file, opts |-> d.opts, seen |-> d.seen]
  BY DEF Diagnostics
<1>5. d.root = RootOf[p]
  BY SizeAssumption DEF Diagnostics
<1> QED BY <1>3, <1>4, <1>5 DEF Fresh!AnalysisOf

\* A report of p on the file it works on is a publication.
LEMMA ReportPublishes ==
    ASSUME IsolationInv, ProgressInv, NEW p \in Procs,
           Running(p), Running(p)', Working(p), ~Storing(p),
           UNCHANGED <<sources, contracts, opts>>,
           \A q \in Procs \ {p} : pc'[q] = pc[q] /\ report'[q] = report[q],
           report'[p][idx[p]] \in Reports,
           report'[p][idx[p]].diags = Fresh!AnalysisOf(RootOf[p], idx[p], Source(p, idx[p]), contracts, opts[p]),
           \A f \in Files \ {idx[p]} : report'[p][f] = report[p][f]
    PROVE  \E f \in Files : Fresh!Publish(p, f)
<1> DEFINE d == Fresh!AnalysisOf(RootOf[p], idx[p], Source(p, idx[p]), contracts, opts[p])
<1>1. idx[p] \in Files /\ idx[p] \in 1 .. NFiles
  BY DEF IsolationInv, TypeOK, Files
<1>2. report[p][idx[p]] = NoReport
  BY <1>1 DEF ProgressInv
<1>3. Publications[p][idx[p]] = NoReport /\ Stages[p] = "scanning"
  <2>1. PublishedOf(p)[idx[p]] = NoReport
    BY <1>1, <1>2 DEF PublishedOf
  <2>2. StageOf(p) = "scanning"
    BY DEF StageOf, Running, Resting
  <2> QED BY <2>1, <2>2 DEF Publications, Stages
<1>4. UNCHANGED Stages
  BY DEF Stages, StageOf, Running, Resting
<1>5. PublishedOf(p)' = [PublishedOf(p) EXCEPT ![idx[p]] = d]
  <2>1. report'[p][idx[p]] # NoReport
    BY MarkerAssumption
  <2> HIDE DEF d
  <2>2. report'[p][idx[p]].diags = d
    BY DEF d
  <2> QED BY <1>1, <2>1, <2>2, ZenonT(60) DEF PublishedOf
<1>6. Publications' = [Publications EXCEPT ![p][idx[p]] = d]
  <2> HIDE DEF d
  <2>1. \A q \in Procs \ {p} : PublishedOf(q)' = PublishedOf(q)
    BY DEF PublishedOf
  <2>2. Publications[p] = PublishedOf(p)
    BY DEF Publications
  <2>3. Publications' = [Publications EXCEPT ![p] = PublishedOf(p)']
    BY <2>1 DEF Publications
  <2> QED BY <1>5, <2>2, <2>3
<1>7. PICK f \in Files : f = idx[p]
  BY <1>1
<1>8. Publications' = [Publications EXCEPT ![p][f] = Fresh!AnalysisOf(RootOf[p], f, Source(p, f), contracts, opts[p])]
  BY <1>6, <1>7
<1>9. Fresh!Publish(p, f)
  BY <1>3, <1>4, <1>7, <1>8 DEF Fresh!Publish, Source, Stages, StageOf, Publications, PublishedOf
<1> QED BY <1>9

\* A scan that dies is an aborted one.
LEMMA DyingAborts ==
    ASSUME TypeOK, NEW p \in Procs, NEW end \in {"idle", "failed"}, Running(p), Dies(p, end),
           UNCHANGED <<sources, contracts>>
    PROVE  Fresh!Abort(p)
<1>1. /\ pc' = [pc EXCEPT ![p] = end] /\ UNCHANGED opts
      /\ report' = [report EXCEPT ![p] = [f \in Files |-> NoReport]]
  BY DEF Dies
<1>2. /\ pc'[p] = end /\ \A q \in Procs \ {p} : pc'[q] = pc[q]
      /\ report'[p] = [f \in Files |-> NoReport]
      /\ \A q \in Procs \ {p} : report'[q] = report[q]
  BY <1>1 DEF TypeOK
<1>3. StageOf(p)' = "idle" /\ \A q \in Procs \ {p} : StageOf(q)' = StageOf(q)
  BY <1>2 DEF StageOf, Running, Resting
<1>4. Stages' = [Stages EXCEPT ![p] = "idle"] /\ Stages[p] = "scanning"
  <2>1. StageOf(p) = "scanning"
    BY DEF StageOf, Running, Resting
  <2> QED BY <1>3, <2>1 DEF Stages
<1>5. PublishedOf(p)' = [f \in Files |-> NoReport]
  BY <1>2 DEF PublishedOf
<1>6. \A q \in Procs \ {p} : PublishedOf(q)' = PublishedOf(q)
  BY <1>2 DEF PublishedOf
<1>7. Publications' = [Publications EXCEPT ![p] = [f \in Files |-> NoReport]]
  BY <1>5, <1>6 DEF Publications
<1> QED
  BY <1>1, <1>4, <1>7
     DEF Fresh!Abort, Fresh!Files, Files, Stages, StageOf, Publications, PublishedOf

LEMMA FreshStep ==
    ASSUME ~EditsRace, \A u, v \in UnhashedContracts : u = v, \A r, s \in Roots : r = s,
           IsolationInv, QuietInv, ProgressInv, SomethingSeen, [Next]_vars
    PROVE  Fresh!Next \/ UNCHANGED Fresh!vars
<1> USE DEF IsolationInv
<1>1. ASSUME NEW p \in Procs, NEW o \in Options, NEW clear \in BOOLEAN, Start(p, o, clear)
      PROVE Fresh!Next \/ UNCHANGED Fresh!vars
  <2>1. /\ pc' = [pc EXCEPT ![p] = "clear"] /\ opts' = [opts EXCEPT ![p] = o] /\ ~Running(p)
        /\ report' = [report EXCEPT ![p] = [f \in Files |-> NoReport]]
        /\ UNCHANGED <<sources, contracts>>
    BY <1>1 DEF Start, envVars
  <2>2. /\ pc'[p] = "clear" /\ \A q \in Procs \ {p} : pc'[q] = pc[q]
        /\ report'[p] = [f \in Files |-> NoReport]
        /\ \A q \in Procs \ {p} : report'[q] = report[q]
    BY <2>1 DEF TypeOK
  <2>3. StageOf(p)' = "scanning" /\ \A q \in Procs \ {p} : StageOf(q)' = StageOf(q)
    BY <2>2 DEF StageOf, Running, Resting
  <2>4. Stages' = [Stages EXCEPT ![p] = "scanning"] /\ Stages[p] # "scanning"
    <3>1. StageOf(p) # "scanning"
      BY <2>1 DEF StageOf
    <3> QED BY <2>3, <3>1 DEF Stages
  <2>5. PublishedOf(p)' = [f \in Files |-> NoReport]
    BY <2>2 DEF PublishedOf
  <2>6. \A q \in Procs \ {p} : PublishedOf(q)' = PublishedOf(q)
    BY <2>2 DEF PublishedOf
  <2>7. Publications' = [Publications EXCEPT ![p] = [f \in Files |-> NoReport]]
    BY <2>5, <2>6 DEF Publications
  <2>8. Fresh!Begin(p)
    BY <2>1, <2>4, <2>7
       DEF Fresh!Begin, Fresh!Files, Files, Stages, StageOf, Publications, PublishedOf
  <2> QED BY <2>8 DEF Fresh!Next
<1>2. ASSUME NEW p \in Procs, NEW k \in Keys, Unlink(p, k)
      PROVE Fresh!Next \/ UNCHANGED Fresh!vars
  <2>1. /\ UNCHANGED <<sources, contracts, opts, report>> /\ Running(p) /\ Running(p)'
        /\ \A q \in Procs \ {p} : pc'[q] = pc[q]
    BY <1>2 DEF Unlink, Running, Resting, TypeOK, envVars
  <2> QED BY <2>1, HiddenMove
<1>3. ASSUME NEW p \in Procs, NEW k \in Keys, UnlinkMissing(p, k)
      PROVE Fresh!Next \/ UNCHANGED Fresh!vars
  <2>1. Running(p) /\ Dies(p, "failed") /\ UNCHANGED <<sources, contracts>>
    BY <1>3 DEF UnlinkMissing, Running, Resting, envVars
  <2>2. Fresh!Abort(p)
    BY <2>1, DyingAborts
  <2> QED BY <2>2 DEF Fresh!Next
<1>4. ASSUME NEW p \in Procs, BeginFiles(p)
      PROVE Fresh!Next \/ UNCHANGED Fresh!vars
  <2>1. /\ UNCHANGED <<sources, contracts, opts, report>> /\ Running(p) /\ Running(p)'
        /\ \A q \in Procs \ {p} : pc'[q] = pc[q]
    BY <1>4 DEF BeginFiles, Running, Resting, TypeOK, envVars
  <2> QED BY <2>1, HiddenMove
<1>5. ASSUME NEW p \in Procs, HashSource(p)
      PROVE Fresh!Next \/ UNCHANGED Fresh!vars
  <2>1. /\ UNCHANGED <<sources, contracts, opts, report>> /\ Running(p) /\ Running(p)'
        /\ \A q \in Procs \ {p} : pc'[q] = pc[q]
    BY <1>5 DEF HashSource, Running, Resting, TypeOK, envVars
  <2> QED BY <2>1, HiddenMove
<1>6. ASSUME NEW p \in Procs, HashContracts(p)
      PROVE Fresh!Next \/ UNCHANGED Fresh!vars
  <2>1. /\ UNCHANGED <<sources, contracts, opts, report>> /\ Running(p) /\ Running(p)'
        /\ \A q \in Procs \ {p} : pc'[q] = pc[q]
    BY <1>6 DEF HashContracts, Running, Resting, TypeOK, envVars
  <2> QED BY <2>1, HiddenMove
<1>7. ASSUME NEW p \in Procs, Exists(p) PROVE Fresh!Next \/ UNCHANGED Fresh!vars
  <2>1. /\ UNCHANGED <<sources, contracts, opts, report>> /\ Running(p) /\ Running(p)'
        /\ \A q \in Procs \ {p} : pc'[q] = pc[q]
    BY <1>7 DEF Exists, Running, Resting, TypeOK, envVars
  <2> QED BY <2>1, HiddenMove
<1>8. ASSUME NEW p \in Procs, ReadHit(p) PROVE Fresh!Next \/ UNCHANGED Fresh!vars
  <2> DEFINE d == disk[key[p]]
  <2>1. /\ pc[p] = "read" /\ d \in Diagnostics /\ report'[p][idx[p]] \in Reports
        /\ report'[p][idx[p]] = [origin |-> "cached", diags |-> d]
        /\ \A f \in Files \ {idx[p]} : report'[p][f] = report[p][f]
        /\ \A q \in Procs \ {p} : report'[q] = report[q]
    BY <1>8, HitReports
  <2>2. /\ key[p] \in Keys /\ key[p].file = idx[p] /\ key[p].opts = opts[p]
        /\ key[p].content = Source(p, idx[p]) /\ key[p].hashed = contracts.hashed /\ IsRecord(d)
    BY <1>8, <2>1 DEF ReadHit, TypeOK, WorkInv, Fingerprinted, QuietInv, QuietWork, Reading
  <2>3. /\ d.file = idx[p] /\ d.opts = opts[p] /\ d.seen # {} /\ \A i \in d.seen : Matches(i, key[p])
    BY <2>2 DEF KeyIsolation, QuietInv, RecordsMatchKeys, SomethingSeen
  <2> HIDE DEF d
  <2>4. d = Fresh!AnalysisOf(RootOf[p], idx[p], Source(p, idx[p]), contracts, opts[p])
    BY <2>1, <2>2, <2>3, AnalysisIsFresh
  <2>5. /\ UNCHANGED <<sources, contracts, opts>> /\ Running(p) /\ Running(p)'
        /\ Working(p) /\ ~Storing(p) /\ \A q \in Procs \ {p} : pc'[q] = pc[q]
    BY <1>8 DEF ReadHit, NextFile, Running, Resting, TypeOK, envVars, Working, Storing
  <2>6. report'[p][idx[p]].diags = d
    BY <2>1
  <2>7. \E f \in Files : Fresh!Publish(p, f)
    BY <2>1, <2>4, <2>5, <2>6, ReportPublishes
  <2> QED BY <2>7 DEF Fresh!Next, Fresh!Files, Files
<1>9. ASSUME NEW p \in Procs, ReadMiss(p) PROVE Fresh!Next \/ UNCHANGED Fresh!vars
  <2>1. /\ UNCHANGED <<sources, contracts, opts, report>> /\ Running(p) /\ Running(p)'
        /\ \A q \in Procs \ {p} : pc'[q] = pc[q]
    BY <1>9 DEF ReadMiss, Running, Resting, TypeOK, envVars
  <2> QED BY <2>1, HiddenMove
<1>10. ASSUME NEW p \in Procs, AnalyzePass(p)
      PROVE Fresh!Next \/ UNCHANGED Fresh!vars
  <2>1. CASE pass'[p] # NumPasses
    <3>1. /\ UNCHANGED <<sources, contracts, opts, report>> /\ Running(p) /\ Running(p)'
          /\ \A q \in Procs \ {p} : pc'[q] = pc[q]
      BY <1>10, <2>1 DEF AnalyzePass, Running, Resting, TypeOK, envVars
    <3> QED BY <3>1, HiddenMove
  <2>2. CASE pass'[p] = NumPasses
    <3> DEFINE d == AnalysisOf(RootOf[p], idx[p], seen'[p], opts[p])
    <3>1. /\ pc[p] = "analyze" /\ pc' = [pc EXCEPT ![p] = "open"]
          /\ report'[p][idx[p]] = [origin |-> "fresh", diags |-> d]
          /\ report'[p][idx[p]] \in Reports
          /\ \A f \in Files \ {idx[p]} : report'[p][f] = report[p][f]
          /\ \A q \in Procs \ {p} : report'[q] = report[q]
      BY <1>10, <2>2, LastPassReports
    <3>2. /\ key[p].content = Source(p, idx[p]) /\ key[p].hashed = contracts.hashed
          /\ \A i \in seen[p] : Matches(i, key[p])
      BY <3>1 DEF QuietInv, QuietWork, Reading
    <3>3. seen'[p] = seen[p] \cup {InputNow(p, idx[p])}
      BY <1>10 DEF AnalyzePass, TypeOK
    <3>4. d.file = idx[p] /\ d.opts = opts[p] /\ d.seen = seen'[p]
      BY DEF AnalysisOf
    <3>5. d \in Diagnostics /\ report'[p][idx[p]].diags = d
      BY <3>1 DEF Reports
    <3> HIDE DEF d
    <3>6. d.seen # {} /\ \A i \in d.seen : Matches(i, key[p])
      <4>1. Matches(InputNow(p, idx[p]), key[p])
        BY <3>2 DEF Matches, InputNow
      <4> QED BY <3>2, <3>3, <3>4, <4>1
    <3>7. d = Fresh!AnalysisOf(RootOf[p], idx[p], Source(p, idx[p]), contracts, opts[p])
      BY <3>2, <3>4, <3>5, <3>6, AnalysisIsFresh
    <3>8. /\ UNCHANGED <<sources, contracts, opts>> /\ Running(p) /\ Running(p)'
          /\ Working(p) /\ ~Storing(p) /\ \A q \in Procs \ {p} : pc'[q] = pc[q]
      BY <1>10, <3>1 DEF AnalyzePass, Running, Resting, TypeOK, envVars, Working, Storing
    <3>9. \E f \in Files : Fresh!Publish(p, f)
      BY <3>1, <3>5, <3>7, <3>8, ReportPublishes
    <3> QED BY <3>9 DEF Fresh!Next, Fresh!Files, Files
  <2> QED BY <2>1, <2>2
<1>11. ASSUME NEW p \in Procs, OpenForWrite(p)
      PROVE Fresh!Next \/ UNCHANGED Fresh!vars
  <2>1. /\ UNCHANGED <<sources, contracts, opts, report>> /\ Running(p) /\ Running(p)'
        /\ \A q \in Procs \ {p} : pc'[q] = pc[q]
    BY <1>11 DEF OpenForWrite, Running, Resting, TypeOK, envVars
  <2> QED BY <2>1, HiddenMove
<1>12. ASSUME NEW p \in Procs, Write(p) PROVE Fresh!Next \/ UNCHANGED Fresh!vars
  <2>1. /\ UNCHANGED <<sources, contracts, opts, report>> /\ Running(p) /\ Running(p)'
        /\ \A q \in Procs \ {p} : pc'[q] = pc[q]
    BY <1>12 DEF Write, NextFile, Running, Resting, TypeOK, envVars
  <2> QED BY <2>1, HiddenMove
<1>13. ASSUME NEW p \in Procs, Finish(p) PROVE Fresh!Next \/ UNCHANGED Fresh!vars
  <2>1. /\ pc[p] = "summary" /\ pc'[p] = "done" /\ \A q \in Procs \ {p} : pc'[q] = pc[q]
        /\ UNCHANGED <<sources, contracts, opts, report>>
    BY <1>13 DEF Finish, TypeOK, envVars
  <2>2. StageOf(p) = "scanning" /\ StageOf(p)' = "done" /\ \A q \in Procs \ {p} : StageOf(q)' = StageOf(q)
    BY <2>1 DEF StageOf, Running, Resting
  <2>3. Stages[p] = "scanning" /\ Stages' = [Stages EXCEPT ![p] = "done"]
    BY <2>2 DEF Stages
  <2>4. \A f \in Files : Publications[p][f] # NoReport
    <3> SUFFICES ASSUME NEW f \in Files PROVE PublishedOf(p)[f] # NoReport
      BY DEF Publications
    <3>1. report[p][f] # NoReport
      BY <2>1 DEF ProgressInv
    <3>2. report[p][f].diags \in Diagnostics
      BY <3>1 DEF TypeOK, Reports
    <3> QED BY <3>1, <3>2, MarkerAssumption DEF PublishedOf
  <2>5. UNCHANGED Publications
    BY <2>1 DEF Publications, PublishedOf
  <2>6. Fresh!End(p)
    BY <2>1, <2>3, <2>4, <2>5
       DEF Fresh!End, Fresh!Files, Files, Stages, StageOf, Publications, PublishedOf
  <2> QED BY <2>6 DEF Fresh!Next
<1>14. ASSUME NEW p \in Procs, Crash(p) PROVE Fresh!Next \/ UNCHANGED Fresh!vars
  <2>1. Running(p) /\ Dies(p, "idle") /\ UNCHANGED <<sources, contracts>>
    BY <1>14 DEF Crash, Running, Resting, envVars
  <2>2. Fresh!Abort(p)
    BY <2>1, DyingAborts
  <2> QED BY <2>2 DEF Fresh!Next
<1>15. ASSUME NEW r \in Roots, NEW f \in Files, NEW c \in Contents, EditSource(r, f, c)
      PROVE Fresh!Next \/ UNCHANGED Fresh!vars
  <2>1. /\ sources' \in [Roots -> [Files -> Contents]] /\ contracts' \in Contracts
        /\ UNCHANGED <<pc, opts, report>>
    BY <1>15 DEF EditSource, TypeOK
  <2>2. UNCHANGED <<Stages, Publications>>
    BY <2>1 DEF Stages, StageOf, Running, Resting, Publications, PublishedOf
  <2>3. Fresh!Edit
    BY <2>1, <2>2
       DEF Fresh!Edit, Fresh!Files, Files, Fresh!Contracts, Contracts, Stages, StageOf,
           Publications, PublishedOf
  <2> QED BY <2>3 DEF Fresh!Next
<1>16. ASSUME NEW c \in Contracts, EditContracts(c)
      PROVE Fresh!Next \/ UNCHANGED Fresh!vars
  <2>1. /\ sources' \in [Roots -> [Files -> Contents]] /\ contracts' \in Contracts
        /\ UNCHANGED <<pc, opts, report>>
    BY <1>16 DEF EditContracts, TypeOK
  <2>2. UNCHANGED <<Stages, Publications>>
    BY <2>1 DEF Stages, StageOf, Running, Resting, Publications, PublishedOf
  <2>3. Fresh!Edit
    BY <2>1, <2>2
       DEF Fresh!Edit, Fresh!Files, Files, Fresh!Contracts, Contracts, Stages, StageOf,
           Publications, PublishedOf
  <2> QED BY <2>3 DEF Fresh!Next
<1>17. ASSUME UNCHANGED vars PROVE Fresh!Next \/ UNCHANGED Fresh!vars
  <2>1. UNCHANGED <<Stages, Publications>>
    BY <1>17 DEF vars, Stages, StageOf, Running, Resting, Publications, PublishedOf
  <2> QED BY <1>17, <2>1
     DEF vars, envVars, Fresh!vars, Stages, StageOf, Publications, PublishedOf
<1> QED
  BY <1>1, <1>2, <1>3, <1>4, <1>5, <1>6, <1>7, <1>8, <1>9,
     <1>10, <1>11, <1>12, <1>13, <1>14, <1>15, <1>16, <1>17 DEF Next, ScanStep, Proceed

\* While no file is edited under the scan that works on it, all the contracts are
\* hashed and one root uses the directory, a cached scan is a scan: however scans, crashes and --cache-clear
\* interleave, what it reports for a file is an analysis of the file as it is then
\* (run_cached_scan against StructGuard.check_project).
THEOREM CachedScanIsAScan ==
    ASSUME ~EditsRace, \A u, v \in UnhashedContracts : u = v, \A r, s \in Roots : r = s
    PROVE  Spec => RefinesFreshScan
<1>1. Init => QuietInv /\ ProgressInv /\ SomethingSeen
  BY ProgressInit, SomethingSeenInit
     DEF Init, QuietInv, QuietWork, RecordsMatchKeys, IsRecord, Reading, Storing
<1>2. IsolationInv /\ QuietInv /\ ProgressInv /\ SomethingSeen /\ [Next]_vars
          => QuietInv' /\ ProgressInv' /\ SomethingSeen'
  BY IsolationStep, QuietWorkStep, RecordsStep, ProgressStep, SomethingSeenStep DEF QuietInv
<1>3. IsolationInv /\ QuietInv /\ ProgressInv /\ SomethingSeen /\ [Next]_vars
          => [Fresh!Next]_(Fresh!vars)
  BY FreshStep
<1> QED
  BY <1>1, <1>2, <1>3, IsolationInit, IsolationStep, FreshInit, PTL
     DEF Spec, RefinesFreshScan, Fresh!Spec
==============================================================================
