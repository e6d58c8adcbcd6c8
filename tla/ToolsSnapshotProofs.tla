------------------------ MODULE ToolsSnapshotProofs ------------------------
(***************************************************************************)
(* Proofs about ToolsSnapshot, for any threads and any number of changes,  *)
(* exports and errors: no change is lost between the dirty flag, the       *)
(* handle and the timer, the file stays whole and advances while exports   *)
(* do not overlap, and the snapshots mirror the registry.                  *)
(***************************************************************************)
EXTENDS ToolsSnapshot, TLAPS

(* The parts of the inductive invariant. *)

\* The handle says whether an export waits for its time.
HandleTells == timers + tasks = IF handle THEN 1 ELSE 0

\* Snapshots follow the registry.
NotAhead == built <= registry

\* Files are numbered by the exports that create them, and exports that have not
\* opened their file have created none.
FilesNumbered ==
    /\ tmp <= exports
    /\ path <= exports
    /\ \A n \in Exports : n > exports => export[n].at = "none"
    /\ \A n \in Exports : export[n].at = "open" => tmp # n /\ path # n
    /\ tmp # NoFile => tmp # path

\* Without overlap only the last export is at work, with the last snapshot, and
\* has the temporary file for itself.
AloneAtWork ==
    ~overlapped =>
        \A n \in Busy :
            /\ n = exports
            /\ export[n].snapshot = built
            /\ export[n].at \in {"write", "replace"} => tmp = export[n].file /\ tmp # NoFile
            /\ export[n].at = "write" => content[tmp] = Broken
            /\ export[n].at = "replace" => content[tmp] = built

IInv ==
    /\ TypeOK
    /\ HandleTells
    /\ NotAhead
    /\ NoLostChange
    /\ FilesNumbered
    /\ AloneAtWork
    /\ WholeFile

-----------------------------------------------------------------------------

\* The invariant holds before the first change.
LEMMA InitIInv == Init => IInv
  <1> SUFFICES ASSUME Init PROVE IInv
    OBVIOUS
  <1>1. TypeOK
    <2>1. export \in [Exports -> Export]
      BY SnapshotAssumption DEF Init, Export
    <2>2. content \in [Exports -> 0 .. MaxChanges \cup {Broken}]
      BY DEF Init
    <2>3. marker \in [Markers -> {"idle", "changed", "marked"}]
      BY DEF Init
    <2>4. tmp \in Exports \cup {NoFile} /\ path \in Exports \cup {NoFile}
      BY DEF Init
    <2>5. /\ registry \in 0 .. MaxChanges
          /\ built \in 0 .. MaxChanges
          /\ exports \in 0 .. MaxExports
          /\ errors \in 0 .. MaxErrors
      BY SnapshotAssumption DEF Init
    <2>6. dirty \in BOOLEAN /\ handle \in BOOLEAN /\ building \in BOOLEAN /\ overlapped \in BOOLEAN
      BY DEF Init
    <2>7. scheduled \in Nat /\ timers \in {0, 1} /\ tasks \in {0, 1}
      BY DEF Init
    <2> QED
      BY <2>1, <2>2, <2>3, <2>4, <2>5, <2>6, <2>7 DEF TypeOK
  <1>2. HandleTells /\ NotAhead /\ NoLostChange
    BY DEF Init, HandleTells, NotAhead, NoLostChange, OnItsWay
  <1>3. FilesNumbered /\ AloneAtWork /\ WholeFile
    BY DEF Init, FilesNumbered, AloneAtWork, WholeFile, Busy, Exports, NoFile
  <1> QED
    BY <1>1, <1>2, <1>3 DEF IInv

\* What the threads that change tools do keeps it, and touches no file.
LEMMA MarkerPreserves ==
  ASSUME NEW t \in Markers, IInv, ChangeTools(t) \/ MarkerStep(t)
  PROVE  IInv'
  <1> USE SnapshotAssumption
          DEF IInv, MarkerStep, ChangeTools, MarkDirty, Schedule, loopVars, exportVars
  <1>1. TypeOK'
    <2>1. marker' \in [Markers -> {"idle", "changed", "marked"}]
      BY DEF TypeOK
    <2>2. registry' \in 0 .. MaxChanges /\ scheduled' \in Nat
      BY DEF TypeOK
    <2>3. dirty' \in BOOLEAN
      BY DEF TypeOK
    <2> QED
      BY <2>1, <2>2, <2>3 DEF TypeOK
  <1>2. HandleTells' /\ NotAhead'
    BY DEF HandleTells, NotAhead, TypeOK
  <1>3. NoLostChange'
    <2>1. CASE ChangeTools(t)
      BY <2>1 DEF NoLostChange, OnItsWay, TypeOK
    <2>2. CASE MarkDirty(t)
      BY <2>2 DEF NoLostChange, OnItsWay, TypeOK
    <2>3. CASE Schedule(t)
      BY <2>3 DEF NoLostChange, OnItsWay, TypeOK
    <2> QED
      BY <2>1, <2>2, <2>3
  <1>4. FilesNumbered' /\ AloneAtWork' /\ WholeFile'
    BY DEF FilesNumbered, AloneAtWork, WholeFile, Busy
  <1> QED
    BY <1>1, <1>2, <1>3, <1>4

\* What the event loop does before it builds a snapshot keeps it: the handle
\* covers a call of _schedule_debounced_export that arms no timer, and a task
\* that finds the flag set builds.
LEMMA LoopPreserves ==
  ASSUME IInv, ScheduleDebouncedExport \/ TimerFires \/ ExportIfDirty
  PROVE  IInv'
  <1> USE SnapshotAssumption
          DEF IInv, ScheduleDebouncedExport, ArmsTimer, TimerFires, ExportIfDirty, exportVars
  <1>0. timers \in {0, 1} /\ tasks \in {0, 1} /\ handle \in BOOLEAN
    BY DEF TypeOK
  <1>1. TypeOK' /\ HandleTells'
    <2>1. CASE ScheduleDebouncedExport
      <3>1. timers' \in {0, 1} /\ HandleTells'
        BY <1>0, <2>1 DEF HandleTells
      <3> QED
        BY <2>1, <3>1 DEF TypeOK
    <2>2. CASE TimerFires
      <3>1. timers' \in {0, 1} /\ tasks' \in {0, 1} /\ HandleTells'
        BY <1>0, <2>2 DEF HandleTells
      <3> QED
        BY <2>2, <3>1 DEF TypeOK
    <2>3. CASE ExportIfDirty
      <3>1. tasks' \in {0, 1} /\ HandleTells'
        BY <1>0, <2>3 DEF HandleTells
      <3> QED
        BY <2>3, <3>1 DEF TypeOK
    <2> QED
      BY <2>1, <2>2, <2>3
  <1>2. NotAhead'
    BY DEF NotAhead, TypeOK
  <1>3. NoLostChange'
    BY DEF NoLostChange, OnItsWay, HandleTells, TypeOK
  <1>4. FilesNumbered' /\ AloneAtWork' /\ WholeFile'
    BY DEF FilesNumbered, AloneAtWork, WholeFile, Busy
  <1> QED
    BY <1>1, <1>2, <1>3, <1>4

\* A snapshot is the registry; the export that starts is the last one.
LEMMA BuildPreserves ==
  ASSUME IInv, BuildSnapshot
  PROVE  IInv'
  <1> USE SnapshotAssumption DEF IInv, BuildSnapshot, TypeOK, Exports
  <1>1. TypeOK'
    <2>1. export' \in [Exports -> Export] /\ exports' \in 0 .. MaxExports
      BY DEF Export
    <2>2. overlapped' \in BOOLEAN
      OBVIOUS
    <2>3. building' \in BOOLEAN /\ built' \in 0 .. MaxChanges
      OBVIOUS
    <2> QED
      BY <2>1, <2>2, <2>3
  <1>2. HandleTells' /\ NotAhead' /\ NoLostChange'
    BY DEF HandleTells, NotAhead, NoLostChange
  <1>3. FilesNumbered'
    BY DEF FilesNumbered
  <1>4. AloneAtWork'
    BY DEF AloneAtWork, Busy, NotAhead, FilesNumbered
  <1>5. WholeFile'
    BY DEF WholeFile, NotAhead
  <1> QED
    BY <1>1, <1>2, <1>3, <1>4, <1>5

\* The thread of an export keeps it, alone or not.
LEMMA OpenPreserves ==
  ASSUME NEW n \in Exports, IInv, OpenTmp(n)
  PROVE  IInv'
  <1> USE SnapshotAssumption DEF IInv, OpenTmp, TypeOK, Exports, NoFile, loopVars
  <1>1. TypeOK'
    <2> DEFINE file == IF tmp = NoFile THEN n ELSE tmp
    <2>1. file \in Exports
      OBVIOUS
    <2>2. /\ tmp' = file
          /\ export' = [export EXCEPT ![n].at = "write", ![n].file = file]
          /\ content' = [content EXCEPT ![file] = Broken]
      OBVIOUS
    <2> HIDE DEF file
    <2>3. export' \in [Exports -> Export]
      <3>1. export[n] \in Export
        OBVIOUS
      <3>2. [export[n] EXCEPT !.at = "write", !.file = file] \in Export
        BY <2>1, <3>1 DEF Export
      <3> QED
        BY <2>2, <3>2
    <2>4. content' \in [Exports -> 0 .. MaxChanges \cup {Broken}]
      BY <2>1, <2>2
    <2> QED
      BY <2>1, <2>2, <2>3, <2>4
  <1>2. HandleTells' /\ NotAhead' /\ NoLostChange'
    BY DEF HandleTells, NotAhead, NoLostChange, OnItsWay
  <1>3. FilesNumbered'
    BY DEF FilesNumbered, Export
  <1>4. AloneAtWork'
    BY DEF AloneAtWork, Busy, Export
  <1>5. WholeFile'
    BY DEF WholeFile, FilesNumbered
  <1> QED
    BY <1>1, <1>2, <1>3, <1>4, <1>5

LEMMA WritePreserves ==
  ASSUME NEW n \in Exports, IInv, WriteTmp(n)
  PROVE  IInv'
  <1> USE SnapshotAssumption DEF IInv, WriteTmp, TypeOK, Exports, NoFile, loopVars
  <1>1. TypeOK'
    BY ZenonT(60) DEF Export, Broken
  <1>2. HandleTells' /\ NotAhead' /\ NoLostChange'
    BY DEF HandleTells, NotAhead, NoLostChange, OnItsWay
  <1>3. FilesNumbered'
    BY DEF FilesNumbered, Export
  <1>4. AloneAtWork'
    BY DEF AloneAtWork, Busy, Export, Shared
  <1>5. WholeFile'
    BY DEF WholeFile, FilesNumbered, AloneAtWork, Busy
  <1> QED
    BY <1>1, <1>2, <1>3, <1>4, <1>5

LEMMA ReplacePreserves ==
  ASSUME NEW n \in Exports, IInv, ReplacePath(n)
  PROVE  IInv'
  <1> USE SnapshotAssumption DEF IInv, ReplacePath, TypeOK, Exports, NoFile, loopVars
  <1>1. TypeOK'
    BY DEF Export
  <1>2. HandleTells' /\ NotAhead' /\ NoLostChange'
    BY DEF HandleTells, NotAhead, NoLostChange, OnItsWay
  <1>3. FilesNumbered'
    BY DEF FilesNumbered, Export
  <1>4. AloneAtWork'
    BY DEF AloneAtWork, Busy, Export
  <1>5. WholeFile'
    BY DEF WholeFile, AloneAtWork, Busy
  <1> QED
    BY <1>1, <1>2, <1>3, <1>4, <1>5

LEMMA FailPreserves ==
  ASSUME NEW n \in Exports, IInv, ExportFails(n)
  PROVE  IInv'
  <1> USE SnapshotAssumption DEF IInv, ExportFails, TypeOK, Exports, NoFile, loopVars
  <1>1. TypeOK'
    <2>1. export' \in [Exports -> Export]
      BY SMTT(30) DEF Export
    <2>2. content' \in [Exports -> 0 .. MaxChanges \cup {Broken}]
      OBVIOUS
    <2>3. errors' \in 0 .. MaxErrors
      OBVIOUS
    <2> QED
      BY <2>1, <2>2, <2>3
  <1>2. HandleTells' /\ NotAhead' /\ NoLostChange'
    BY DEF HandleTells, NotAhead, NoLostChange, OnItsWay
  <1>3. FilesNumbered'
    <2>1. \A m \in Exports : export'[m].at = export[m].at \/ export'[m].at = "done"
      BY DEF Export
    <2>2. \A m \in Exports : m > exports => export[m].at = "none" /\ m # n
      BY DEF FilesNumbered, Busy
    <2>3. \A m \in Exports : m # n => export'[m] = export[m]
      OBVIOUS
    <2> QED
      BY <2>1, <2>2, <2>3 DEF FilesNumbered
  <1>4. AloneAtWork'
    BY DEF AloneAtWork, Busy, Export
  <1>5. WholeFile'
    BY DEF WholeFile, FilesNumbered, AloneAtWork, Busy
  <1> QED
    BY <1>1, <1>2, <1>3, <1>4, <1>5

\* No step of Next breaks the invariant.
LEMMA NextIInv == IInv /\ [Next]_vars => IInv'
  <1> SUFFICES ASSUME IInv, [Next]_vars PROVE IInv'
    OBVIOUS
  <1>1. CASE UNCHANGED vars
    BY <1>1
    DEF vars, loopVars, exportVars, IInv, TypeOK, HandleTells, NotAhead, NoLostChange,
        OnItsWay, FilesNumbered, AloneAtWork, WholeFile, Busy
  <1>2. CASE Next
    BY <1>2, MarkerPreserves, LoopPreserves, BuildPreserves, OpenPreserves, WritePreserves,
       ReplacePreserves, FailPreserves DEF Next, WriterStep
  <1> QED
    BY <1>1, <1>2

\* The inductive invariant is one.
THEOREM Invariant == Spec => []IInv
  BY InitIInv, NextIInv, PTL DEF Spec

-----------------------------------------------------------------------------

\* Every variable keeps its type.
THEOREM TypeCorrect == Spec => []TypeOK
  <1>1. IInv => TypeOK
    BY DEF IInv
  <1> QED
    BY <1>1, Invariant, PTL

\* _schedule_debounced_export: one export at most waits for its time.
THEOREM ExportsDebounced == Spec => []OneExportWaits
  <1>1. IInv => OneExportWaits
    BY DEF IInv, HandleTells, OneExportWaits
  <1> QED
    BY <1>1, Invariant, PTL

\* mark_dirty and _export_if_dirty: a change the last snapshot does not show is on
\* its way to one, whatever the threads and the loop interleave.
THEOREM ChangesNotLost == Spec => []NoLostChange
  <1>1. IInv => NoLostChange
    BY DEF IInv
  <1> QED
    BY <1>1, Invariant, PTL

\* _write_file: while exports do not overlap, the file under the path is whole and
\* shows no more than the last snapshot, although exports may fail at any step.
THEOREM FileIsWhole == Spec => []WholeFile
  <1>1. IInv => WholeFile
    BY DEF IInv
  <1> QED
    BY <1>1, Invariant, PTL

\* _write_file: nor does it go back to an earlier snapshot.
THEOREM FileOnlyAdvances == Spec => FileAdvances
  <1>1. IInv /\ IInv' /\ [Next]_vars => [~overlapped' => Shown(path)' >= Shown(path)]_vars
    <2> SUFFICES ASSUME IInv, IInv', Next, ~overlapped'
                 PROVE  Shown(path)' >= Shown(path)
      BY DEF vars
    <2> USE SnapshotAssumption DEF IInv, TypeOK, Shown, Exports, NoFile, Broken
    <2>0. Shown(path) \in Int
      OBVIOUS
    <2>1. ASSUME UNCHANGED <<path, content>> PROVE Shown(path)' >= Shown(path)
      BY <2>0, <2>1
    <2>2. ASSUME NEW n \in Exports, OpenTmp(n) PROVE Shown(path)' >= Shown(path)
      <3>1. path' = path /\ (path # NoFile => content'[path] = content[path])
        BY <2>2 DEF OpenTmp, FilesNumbered
      <3> QED
        BY <2>0, <3>1
    <2>3. ASSUME NEW n \in Exports, WriteTmp(n) PROVE Shown(path)' >= Shown(path)
      <3>1. n \in Busy /\ ~overlapped
        BY <2>3 DEF WriteTmp, Busy
      <3>2. export[n].file = tmp /\ tmp # NoFile /\ tmp # path
        BY <2>3, <3>1 DEF WriteTmp, AloneAtWork, FilesNumbered
      <3>3. path' = path /\ (path # NoFile => content'[path] = content[path])
        BY <2>3, <3>2 DEF WriteTmp
      <3> QED
        BY <2>0, <3>3
    <2>4. ASSUME NEW n \in Exports, ReplacePath(n) PROVE Shown(path)' >= Shown(path)
      <3>1. n \in Busy /\ ~overlapped
        BY <2>4 DEF ReplacePath, Busy
      <3>2. content[tmp] = built /\ tmp # NoFile
        BY <2>4, <3>1 DEF ReplacePath, AloneAtWork
      <3> QED
        BY <2>4, <3>1, <3>2 DEF ReplacePath, WholeFile
    <2>5. ASSUME NEW n \in Exports, ExportFails(n) PROVE Shown(path)' >= Shown(path)
      <3>1. n \in Busy /\ ~overlapped
        BY <2>5 DEF ExportFails
      <3>2. export[n].at = "write" => export[n].file = tmp /\ tmp # NoFile /\ tmp # path
        BY <3>1 DEF AloneAtWork, FilesNumbered
      <3> QED
        BY <2>5, <3>2 DEF ExportFails
    <2> QED
      BY <2>1, <2>2, <2>3, <2>4, <2>5
      DEF Next, MarkerStep, ChangeTools, MarkDirty, Schedule, ScheduleDebouncedExport,
          TimerFires, ExportIfDirty, BuildSnapshot, WriterStep, exportVars
  <1> QED
    BY <1>1, Invariant, PTL DEF Spec, FileAdvances

\* The snapshots that are built mirror the registry: the exporter implements the
\* safety part of Mirror.
THEOREM SnapshotsMirror == Spec => M!Spec
  <1>1. Init => M!Init
    BY DEF Init, M!Init
  <1>2. [Next]_vars => [M!Next]_<<registry, built>>
    BY DEF Next, MarkerStep, ChangeTools, MarkDirty, Schedule, ScheduleDebouncedExport,
           TimerFires, ExportIfDirty, BuildSnapshot, WriterStep, OpenTmp, WriteTmp,
           ReplacePath, ExportFails, vars, loopVars, exportVars, M!Next, M!Change, M!CatchUp
  <1> QED
    BY <1>1, <1>2, PTL DEF Spec, M!Spec

=============================================================================
