--------------------------- MODULE ToolsSnapshot ---------------------------
(***************************************************************************)
(* The debounced export of the tools to a file (gateway/tools_snapshot.py).*)
(*                                                                         *)
(* Any thread that changed the tool registry calls mark_dirty.  The event  *)
(* loop arms one timer for all the changes of a window, takes a snapshot,  *)
(* and hands it to a thread of the default executor.  Every export runs in *)
(* a thread of its own, and all of them write to the same temporary file.  *)
(*                                                                         *)
(* The contents of the registry are the number of changes made to it.      *)
(***************************************************************************)
EXTENDS Integers

CONSTANTS
    Markers,    \* the threads that change tools: sync threads, readers, the loop
    MaxChanges, \* bound on the changes
    MaxExports, \* bound on the exports; with the first one, MaxChanges + 1 is enough
    MaxErrors   \* bound on the exports that fail

ASSUME SnapshotAssumption == MaxChanges \in Nat /\ MaxExports \in Nat /\ MaxErrors \in Nat

\* Every export has a number, which also names the file it creates; 0 is no file.
Exports == 1 .. MaxExports
NoFile == 0

\* What a file holds when it is empty, half written or written by two threads, and
\* what is seen where there is none.
Broken == -1

VARIABLES
    registry,   \* the contents of ToolRegistry
    marker,     \* where each thread stands: it changed tools, it set _dirty
    dirty,      \* _dirty
    scheduled,  \* the calls of _schedule_debounced_export the loop has to run
    handle,     \* _debounce_handle is not None
    timers,     \* the armed timers
    tasks,      \* the tasks that are to run _export_if_dirty
    building,   \* the loop is in _export_if_dirty and has cleared _dirty
    built,      \* the last snapshot
    export,     \* each export: where its thread stands, its snapshot, its file
    exports,    \* the number of exports so far
    tmp, path,  \* the files under the names <path>.tmp and <path>
    content,    \* the contents of each file
    overlapped, \* history: an export began before the one before it had ended
    errors      \* the number of exports that failed

loopVars == <<dirty, scheduled, handle, timers, tasks, building, built>>
exportVars == <<export, exports, tmp, path, content, overlapped, errors>>
vars == <<registry, marker, loopVars, exportVars>>

\* Where the thread of an export stands, what it writes, and to which file.
Export == [at : {"none", "open", "write", "replace", "done"}, snapshot : 0 .. MaxChanges,
           file : Exports \cup {NoFile}]

TypeOK ==
    /\ registry \in 0 .. MaxChanges
    /\ marker \in [Markers -> {"idle", "changed", "marked"}]
    /\ dirty \in BOOLEAN
    /\ scheduled \in Nat
    /\ handle \in BOOLEAN
    /\ timers \in {0, 1}
    /\ tasks \in {0, 1}
    /\ building \in BOOLEAN
    /\ built \in 0 .. MaxChanges
    /\ export \in [Exports -> Export]
    /\ exports \in 0 .. MaxExports
    /\ tmp \in Exports \cup {NoFile}
    /\ path \in Exports \cup {NoFile}
    /\ content \in [Exports -> 0 .. MaxChanges \cup {Broken}]
    /\ overlapped \in BOOLEAN
    /\ errors \in 0 .. MaxErrors

\* The constructor of the MCP server has registered the gateway's own tools and
\* called mark_dirty for them.
Init ==
    /\ registry = 0
    /\ marker = [t \in Markers |-> "idle"]
    /\ dirty = TRUE
    /\ scheduled = 1
    /\ handle = FALSE
    /\ timers = 0
    /\ tasks = 0
    /\ building = FALSE
    /\ built = 0
    /\ export = [n \in Exports |-> [at |-> "none", snapshot |-> 0, file |-> NoFile]]
    /\ exports = 0
    /\ tmp = NoFile
    /\ path = NoFile
    /\ content = [n \in Exports |-> Broken]
    /\ overlapped = FALSE
    /\ errors = 0

-----------------------------------------------------------------------------
(* Any thread: a change of the registry, then mark_dirty. *)

\* register_service or unregister_device.  A registration that raises after its
\* change does not mark it; the removal that follows in the same thread does.
ChangeTools(t) ==
    /\ marker[t] \in {"idle", "changed"}
    /\ registry < MaxChanges
    /\ registry' = registry + 1
    /\ marker' = [marker EXCEPT ![t] = "changed"]
    /\ UNCHANGED <<loopVars, exportVars>>

MarkDirty(t) ==
    /\ marker[t] = "changed"
    /\ dirty' = TRUE
    /\ marker' = [marker EXCEPT ![t] = "marked"]
    /\ UNCHANGED <<registry, scheduled, handle, timers, tasks, building, built, exportVars>>

\* call_soon_threadsafe.
Schedule(t) ==
    /\ marker[t] = "marked"
    /\ scheduled' = scheduled + 1
    /\ marker' = [marker EXCEPT ![t] = "idle"]
    /\ UNCHANGED <<registry, dirty, handle, timers, tasks, building, built, exportVars>>

MarkerStep(t) == MarkDirty(t) \/ Schedule(t)

-----------------------------------------------------------------------------
(* The event loop. *)

\* _schedule_debounced_export arms a timer unless one is on its way.  The faulty
\* variant does not look.
ArmsAlways == TRUE
ArmsTimer == ~handle

ScheduleDebouncedExport ==
    /\ ~building
    /\ scheduled > 0
    /\ scheduled' = scheduled - 1
    /\ timers' = IF ArmsTimer THEN timers + 1 ELSE timers
    /\ handle' = TRUE
    /\ UNCHANGED <<registry, marker, dirty, tasks, building, built, exportVars>>

\* The window is over: create_task.  The faulty variant resets the handle already.
TimerResetsHandle ==
    /\ ~building
    /\ timers > 0
    /\ timers' = timers - 1
    /\ tasks' = tasks + 1
    /\ handle' = FALSE
    /\ UNCHANGED <<registry, marker, dirty, scheduled, building, built, exportVars>>
TimerFires ==
    /\ ~building
    /\ timers > 0
    /\ timers' = timers - 1
    /\ tasks' = tasks + 1
    /\ UNCHANGED <<registry, marker, dirty, scheduled, handle, building, built, exportVars>>

\* _export_if_dirty up to the end of its critical section.  The faulty variant
\* leaves the handle set.
ExportKeepsHandle ==
    /\ ~building
    /\ tasks > 0
    /\ tasks' = tasks - 1
    /\ building' = dirty
    /\ dirty' = FALSE
    /\ UNCHANGED <<registry, marker, scheduled, handle, timers, built, exportVars>>
ExportIfDirty ==
    /\ ~building
    /\ tasks > 0
    /\ tasks' = tasks - 1
    /\ handle' = FALSE
    /\ building' = dirty
    /\ dirty' = FALSE
    /\ UNCHANGED <<registry, marker, scheduled, timers, built, exportVars>>

Busy == {n \in Exports : export[n].at \in {"open", "write", "replace"}}

\* _build_snapshot reads the registry in one step; then the snapshot is handed to
\* a thread.
BuildSnapshot ==
    /\ building
    /\ exports < MaxExports
    /\ building' = FALSE
    /\ built' = registry
    /\ exports' = exports + 1
    /\ export' = [export EXCEPT ![exports + 1] =
                   [at |-> "open", snapshot |-> registry, file |-> NoFile]]
    /\ overlapped' = (overlapped \/ Busy # {})
    /\ UNCHANGED <<registry, marker, dirty, scheduled, handle, timers, tasks, tmp, path, content, errors>>

-----------------------------------------------------------------------------
(* The thread of export n: _write_file. *)

\* open(tmp_path, "w") creates the file, or empties the one that is there.  The
\* faulty variant opens the file under the path itself.
OpenPath(n) ==
    /\ export[n].at = "open"
    /\ LET file == IF path = NoFile THEN n ELSE path
       IN /\ path' = file
          /\ export' = [export EXCEPT ![n].at = "write", ![n].file = file]
          /\ content' = [content EXCEPT ![file] = Broken]
    /\ UNCHANGED <<registry, marker, loopVars, exports, tmp, overlapped, errors>>
OpenTmp(n) ==
    /\ export[n].at = "open"
    /\ LET file == IF tmp = NoFile THEN n ELSE tmp
       IN /\ tmp' = file
          /\ export' = [export EXCEPT ![n].at = "write", ![n].file = file]
          /\ content' = [content EXCEPT ![file] = Broken]
    /\ UNCHANGED <<registry, marker, loopVars, exports, path, overlapped, errors>>

\* json.dump and close.  Over what another thread wrote, or is writing, the
\* snapshot may come out mixed with it.
Shared(n) ==
    \/ content[export[n].file] # Broken
    \/ \E m \in Exports \ {n} : export[m].at = "write" /\ export[m].file = export[n].file

WriteTmp(n) ==
    /\ export[n].at = "write"
    /\ \E result \in {export[n].snapshot} \cup (IF Shared(n) THEN {Broken} ELSE {}) :
         content' = [content EXCEPT ![export[n].file] = result]
    /\ export' = [export EXCEPT ![n].at = "replace"]
    /\ UNCHANGED <<registry, marker, loopVars, exports, tmp, path, overlapped, errors>>

\* os.replace moves whichever file has the temporary name by now; if there is
\* none it raises, which is logged.  The faulty variant replaces no file.
ReplaceNothing(n) ==
    /\ export[n].at = "replace"
    /\ path' = IF tmp = NoFile \/ path # NoFile THEN path ELSE tmp
    /\ tmp' = IF path # NoFile THEN tmp ELSE NoFile
    /\ export' = [export EXCEPT ![n].at = "done"]
    /\ UNCHANGED <<registry, marker, loopVars, exports, content, overlapped, errors>>
ReplacePath(n) ==
    /\ export[n].at = "replace"
    /\ path' = IF tmp = NoFile THEN path ELSE tmp
    /\ tmp' = NoFile
    /\ export' = [export EXCEPT ![n].at = "done"]
    /\ UNCHANGED <<registry, marker, loopVars, exports, content, overlapped, errors>>

\* A step that raises is logged and ends the export.  The faulty variant moves
\* the file nevertheless.
FailsAndReplaces(n) ==
    /\ n \in Busy
    /\ errors < MaxErrors
    /\ errors' = errors + 1
    /\ path' = IF tmp = NoFile THEN path ELSE tmp
    /\ tmp' = NoFile
    /\ export' = [export EXCEPT ![n].at = "done"]
    /\ UNCHANGED <<registry, marker, loopVars, exports, content, overlapped>>
ExportFails(n) ==
    /\ n \in Busy
    /\ errors < MaxErrors
    /\ errors' = errors + 1
    /\ export' = [export EXCEPT ![n].at = "done"]
    /\ content' = IF export[n].at = "write" THEN [content EXCEPT ![export[n].file] = Broken]
                  ELSE content
    /\ UNCHANGED <<registry, marker, loopVars, exports, tmp, path, overlapped>>

WriterStep(n) == OpenTmp(n) \/ WriteTmp(n) \/ ReplacePath(n)

-----------------------------------------------------------------------------

Next ==
    \/ \E t \in Markers : ChangeTools(t) \/ MarkerStep(t)
    \/ ScheduleDebouncedExport \/ TimerFires \/ ExportIfDirty \/ BuildSnapshot
    \/ \E n \in Exports : WriterStep(n) \/ ExportFails(n)

Spec == Init /\ [][Next]_vars

\* Threads run, the loop runs what is ready in turn, and timers fire; tools need
\* not change and exports need not fail.
FairSpec ==
    /\ Spec
    /\ \A t \in Markers : WF_vars(MarkerStep(t))
    /\ WF_vars(ScheduleDebouncedExport)
    /\ WF_vars(TimerFires)
    /\ WF_vars(ExportIfDirty)
    /\ WF_vars(BuildSnapshot)
    /\ \A n \in Exports : WF_vars(WriterStep(n))

-----------------------------------------------------------------------------
(* What holds. *)

\* The window merges changes: however many threads call mark_dirty, no more than
\* one export waits for its time (_schedule_debounced_export).
OneExportWaits == timers + tasks <= 1

\* A change the last snapshot does not show is on its way to one, as the gateway's
\* own tools are before the first, at every step of mark_dirty and _export_if_dirty:
\* no wake-up is lost between the flag, the handle and the timer.
OnItsWay ==
    \/ \E t \in Markers : marker[t] = "changed"
    \/ dirty /\ ( \/ \E t \in Markers : marker[t] = "marked"
                  \/ scheduled + timers + tasks > 0)
    \/ building

NoLostChange == built # registry \/ exports = 0 => OnItsWay

\* While no export outlasts the window after it, the file under the path is whole
\* and the work of one export, although a failed one leaves its temporary file
\* behind for the next (_write_file).
WholeFile == path # NoFile /\ ~overlapped => content[path] \in 0 .. built

\* Nor does the file go back to an earlier state.
Shown(file) == IF file = NoFile THEN Broken ELSE content[file]
FileAdvances ==
    [][~overlapped' => Shown(path)' >= Shown(path)]_vars

\* The gateway's own tools and every change get into the file, unless an export fails
\* or outlasts the window.
FileFollows ==
    \A v \in 0 .. MaxChanges :
        registry >= v ~> Shown(path) >= v \/ overlapped \/ errors > 0

\* Its snapshots are a mirror of the registry.
M == INSTANCE Mirror WITH source <- registry, copy <- built
ImplementsMirror == M!FairSpec

=============================================================================
