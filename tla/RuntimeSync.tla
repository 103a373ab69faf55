----------------------------- MODULE RuntimeSync -----------------------------
(* One automation and its flow in Activepieces: WorkflowCompilerService,   *)
(* RuntimeBindingService and ActivepiecesService.startRun.  The draft is   *)
(* edited, compiled and published; a sync imports a compiled draft into    *)
(* the flow, reads the flow back and records it in the binding; meanwhile  *)
(* people edit the flow in Activepieces, pull it, overwrite it, and runs   *)
(* are started.  The flow is not in the database: every step that looks at *)
(* it or changes it is a call of its own.  The statuses and hashes of the  *)
(* binding that are only shown to users are left out.                      *)
EXTENDS Requests, Naturals, FiniteSets

CONSTANTS Sources,    \* what a canvas can hold, each with its hash
          Sound,      \* contents that compile without blocking issues
          SyncVersions, \* automation_canvas_versions ids
          SyncKeys,   \* idempotency keys of runtime syncs
          RunKeys,    \* idempotency keys of runs
          MaxEdits,   \* bound on the edits of the draft and of the flow
          MaxReports  \* bound on the compile reports kept

ASSUME SyncAssumption == /\ Sound \subseteq Sources
                         /\ MaxEdits \in Nat /\ MaxReports \in Nat

VARIABLES canvas,     \* the draft, its current version, the active one, sync_state
          published,  \* what each published version holds
          reports,    \* automation_compile_reports
          flow,       \* what the flow in Activepieces holds
          binding,    \* automation_runtime_bindings: one row, or None
          sync_event, \* automation_runtime_sync_events.status, by key
          runs,       \* workflow_runs, with what the flow held when it was checked
          pushed,     \* history: versions a successful sync was made for
          edits       \* history: edits made so far

syncTables == <<canvas, published, reports, flow, binding, sync_event, runs, pushed, edits>>
syncVars == <<syncTables, request>>

ByHand == {"edited", "unsafe"}  \* left by somebody at work in Activepieces
FlowContents == Sources \cup ByHand \cup {"empty"}
EventStatuses == {"absent", "requested", "blocked", "failed", "completed"}
Reports == [source : Sources, version : SyncVersions \cup {None}]

SyncInit ==
  /\ RequestsInit
  /\ \E first \in Sources :
       canvas = [draft |-> first, current |-> None, active |-> None,
                 synced |-> FALSE]
  /\ published = [v \in SyncVersions |-> None]
  /\ reports = {}
  /\ flow = None
  /\ binding = None
  /\ sync_event = [k \in SyncKeys |-> "absent"]
  /\ runs = {}
  /\ pushed = {}
  /\ edits = 0

(* Faulty: the hashes are looked at first.                                 *)
DetectHashFirst(bound, found) ==
  CASE bound = None -> "importable"
    [] bound # None /\ found = bound.last_synced -> "synced"
    [] OTHER -> IF found = "unsafe" THEN "unknown_runtime_nodes" ELSE "runtime_modified"

(* RuntimeDiffService.detect: unsafe steps first, then the hashes.  (A     *)
(* modified flow is called a conflict if the canvas was changed as well.)  *)
Detect(bound, found) ==
  CASE bound = None -> "importable"
    [] bound # None /\ found = "unsafe" -> "unknown_runtime_nodes"
    [] bound # None /\ found # "unsafe" /\ found = bound.last_synced -> "synced"
    [] OTHER -> "runtime_modified"

-----------------------------------------------------------------------------
(* The canvas (CanvasDraft and CanvasVersions say how): what matters here  *)
(* is that a draft keeps its current version while it is edited on, and    *)
(* that publishing asks for a new sync.  (An automation that was disabled  *)
(* starts no run until it is provisioned again, and is left out.)          *)
EditCanvas(content) ==
  /\ content # canvas.draft
  /\ edits < MaxEdits /\ edits' = edits + 1
  /\ canvas' = [canvas EXCEPT !.draft = content]
  /\ UNCHANGED <<published, reports, flow, binding, sync_event, runs, pushed, request>>

Publish(v) ==
  /\ published[v] = None /\ canvas.draft \in Sound
  /\ published' = [published EXCEPT ![v] = canvas.draft]
  /\ canvas' = [canvas EXCEPT !.current = v, !.active = v, !.synced = FALSE]
  /\ UNCHANGED <<reports, flow, binding, sync_event, runs, pushed, edits, request>>

(* compile: the report names the draft's current version, also when the    *)
(* draft has been edited since it was published.                           *)
Report == [source |-> canvas.draft, version |-> canvas.current]
Persist(report) == /\ Cardinality(reports \cup {report}) <= MaxReports
                   /\ reports' = reports \cup {report}
Compile ==
  /\ Persist(Report)
  /\ UNCHANGED <<canvas, published, flow, binding, sync_event, runs, pushed, edits, request>>

(* Somebody edits the flow in the embedded builder.                        *)
EditFlow(content) ==
  /\ flow # None /\ content \in ByHand
  /\ edits < MaxEdits /\ edits' = edits + 1
  /\ flow' = content
  /\ UNCHANGED <<canvas, published, reports, binding, sync_event, runs, pushed, request>>

-----------------------------------------------------------------------------
(* syncRuntime.  A key whose sync was completed is answered from the flow; *)
(* only if the flow cannot be read the sync is made again.                 *)
Record(k, status) == sync_event' = IF k = None THEN sync_event
                                   ELSE [sync_event EXCEPT ![k] = status]

SyncStart(h, r, overwrite, k) ==
  /\ At(h, "idle") /\ r \in reports
  /\ IF k # None /\ sync_event[k] = "completed" /\ binding # None
     THEN Record(k, "failed")
     ELSE UNCHANGED sync_event
  /\ Goto(h, [pc |-> "syncSource", report |-> r, overwrite |-> overwrite, key |-> k])
  /\ UNCHANGED <<canvas, published, reports, flow, binding, runs, pushed, edits>>

(* A stale report, or one with blocking issues, is refused.                *)
SyncSource(h) ==
  /\ At(h, "syncSource")
  /\ LET source == request[h].report.source
     IN IF source = canvas.draft /\ source \in Sound THEN Proceed(h, "syncRequested")
        ELSE Return(h)
  /\ UNCHANGED syncTables

SyncRequested(h) ==
  /\ At(h, "syncRequested")
  /\ Record(request[h].key, "requested")
  /\ Proceed(h, "syncBinding")
  /\ UNCHANGED <<canvas, published, reports, flow, binding, runs, pushed, edits>>

SyncBinding(h) ==
  /\ At(h, "syncBinding")
  /\ Goto(h, [pc |-> "syncFlow", report |-> request[h].report, key |-> request[h].key,
              overwrite |-> request[h].overwrite, bound |-> binding])
  /\ UNCHANGED syncTables

EnsureFlow(h) ==
  /\ At(h, "syncFlow")
  /\ flow' = IF flow = None THEN "empty" ELSE flow
  /\ Proceed(h, "syncDrift")
  /\ UNCHANGED <<canvas, published, reports, binding, sync_event, runs, pushed, edits>>

SyncDrift(h) ==
  /\ At(h, "syncDrift")
  /\ LET drift == Detect(request[h].bound, flow)
     IN IF drift \in {"synced", "importable"} \/ request[h].overwrite
        THEN Proceed(h, "syncApply") /\ UNCHANGED sync_event
        ELSE Return(h) /\ Record(request[h].key, "blocked")
  /\ UNCHANGED <<canvas, published, reports, flow, binding, runs, pushed, edits>>

ApplyOperations(h) ==
  /\ At(h, "syncApply")
  /\ flow' = request[h].report.source
  /\ Proceed(h, "syncReadBack")
  /\ UNCHANGED <<canvas, published, reports, binding, sync_event, runs, pushed, edits>>

ReadBack(h) ==
  /\ At(h, "syncReadBack")
  /\ Goto(h, [pc |-> "syncPersist", report |-> request[h].report, key |-> request[h].key,
              after |-> flow])
  /\ UNCHANGED syncTables

(* One transaction: binding, snapshot, mappings, automation, event.        *)
PersistSyncSuccess(h) ==
  /\ At(h, "syncPersist")
  /\ LET r == request[h].report IN
       /\ binding' = [version |-> r.version, last_synced |-> request[h].after]
       /\ pushed' = pushed \cup {r.version}
  /\ canvas' = [canvas EXCEPT !.synced = TRUE]
  /\ Record(request[h].key, "completed")
  /\ Return(h)
  /\ UNCHANGED <<published, reports, flow, runs, edits>>

(* A call to Activepieces fails, or a statement does: the catch records it.*)
InTry == {"syncFlow", "syncDrift", "syncApply", "syncReadBack", "syncPersist"}
SyncFails(h) ==
  /\ \E pc \in InTry : At(h, pc)
  /\ Record(request[h].key, "failed")
  /\ Return(h)
  /\ UNCHANGED <<canvas, published, reports, flow, binding, runs, pushed, edits>>

-----------------------------------------------------------------------------
(* overwriteRuntime: the flow is read for a snapshot, then the draft is     *)
(* compiled and a sync is made that overwrites.                            *)
Overwrite(h) ==
  /\ At(h, "idle")
  /\ Persist(Report)
  /\ Goto(h, [pc |-> "syncSource", report |-> Report, overwrite |-> TRUE, key |-> None])
  /\ UNCHANGED <<canvas, published, flow, binding, sync_event, runs, pushed, edits>>

-----------------------------------------------------------------------------
(* startRun, for createRun: key, readiness and automation, binding, drift, *)
(* and the insert.                                                         *)
KeyUsed(k) == \E run \in runs : run.key = k
CanRun == canvas.synced

RunStart(h, k) ==
  /\ At(h, "idle") /\ ~KeyUsed(k) /\ CanRun
  /\ Goto(h, [pc |-> "runBinding", key |-> k, active |-> canvas.active])
  /\ UNCHANGED syncTables

(* The binding must point to the active version, if there is one.          *)
PointsToActive(active) == active = None \/ binding.version = active
RunBinding(h) ==
  /\ At(h, "runBinding")
  /\ IF binding # None /\ PointsToActive(request[h].active)
     THEN Goto(h, [pc |-> "runDrift", key |-> request[h].key,
                   version |-> IF request[h].active = None THEN binding.version
                               ELSE request[h].active])
     ELSE Return(h)
  /\ UNCHANGED syncTables

RunDrift(h) ==
  /\ At(h, "runDrift")
  /\ IF Detect(binding, flow) = "synced"
     THEN Goto(h, [pc |-> "runInsert", key |-> request[h].key,
                   version |-> request[h].version, executes |-> flow])
     ELSE Return(h)
  /\ UNCHANGED syncTables

(* Faulty: the unique constraint is missing.                               *)
AlwaysInsertable(k) == TRUE

(* (workspace_id, idempotency_key) is unique.                              *)
RunInsertable(k) == ~KeyUsed(k)
InsertRun(h) ==
  /\ At(h, "runInsert")
  /\ runs' = IF RunInsertable(request[h].key)
             THEN runs \cup {[key |-> request[h].key, no |-> Cardinality(runs),
                              version |-> request[h].version, executes |-> request[h].executes]}
             ELSE runs
  /\ Return(h)
  /\ UNCHANGED <<canvas, published, reports, flow, binding, sync_event, pushed, edits>>

-----------------------------------------------------------------------------
SyncCall(h) ==
  \/ \E r \in reports, overwrite \in BOOLEAN, k \in SyncKeys \cup {None} :
       SyncStart(h, r, overwrite, k)
  \/ Overwrite(h)
  \/ \E k \in RunKeys : RunStart(h, k)

SyncContinue(h) ==
  \/ SyncSource(h) \/ SyncRequested(h) \/ SyncBinding(h) \/ EnsureFlow(h) \/ SyncDrift(h)
  \/ ApplyOperations(h) \/ ReadBack(h) \/ PersistSyncSuccess(h) \/ SyncFails(h)
  \/ RunBinding(h) \/ RunDrift(h) \/ InsertRun(h)

SyncNext ==
  \/ \E h \in Handlers : SyncCall(h) \/ SyncContinue(h)
                         \/ (Dies(h) /\ UNCHANGED syncTables)
  \/ \E content \in FlowContents : EditFlow(content)
  \/ \E content \in Sources : EditCanvas(content)
  \/ \E v \in SyncVersions : Publish(v)
  \/ Compile

SyncSpec == SyncInit /\ [][SyncNext]_syncVars

-----------------------------------------------------------------------------
Runs == [key : RunKeys, no : Nat, version : SyncVersions \cup {None},
         executes : FlowContents]
SyncTypeOK ==
  /\ canvas \in [draft : Sources, current : SyncVersions \cup {None},
                 active : SyncVersions \cup {None}, synced : BOOLEAN]
  /\ published \in [SyncVersions -> Sources \cup {None}]
  /\ reports \subseteq Reports
  /\ flow \in FlowContents \cup {None}
  /\ binding \in {None} \cup
       [version : SyncVersions \cup {None}, last_synced : FlowContents]
  /\ sync_event \in [SyncKeys -> EventStatuses]
  /\ runs \subseteq Runs

(* Two starts with one key make one run, overlapping or not: the key is    *)
(* looked up long before the run is inserted.                              *)
StartedOncePerKey == \A a, b \in runs : a.key = b.key => a = b

(* No run starts on a flow with unsafe steps, not even if they were put in *)
(* between import and read-back, so that the sync took them for its own.   *)
UnsafeNeverRuns == \A run \in runs : run.executes # "unsafe"

(* Every run of a published version comes after a sync that succeeded for  *)
(* that version: also when the sync of an older one ends after publishing. *)
RunsOnlySyncedVersions == \A run \in runs : run.version # None => run.version \in pushed

(* What runs has been through a sync, and through its checks.              *)
RunsAreSynced == UnsafeNeverRuns /\ RunsOnlySyncedVersions

(* "Runtime binding does not point to the active Canvas version": a run    *)
(* executes the content of the version it is recorded with, and never a    *)
(* draft nobody has published.  (Flows edited by hand are left aside.)     *)
RunsPublishedVersion ==
  \A run \in runs : run.version # None /\ run.executes \in Sources =>
                     run.executes = published[run.version]
=============================================================================
