---------------------------- MODULE CanvasVersions ----------------------------
(***************************************************************************)
(* The versions of one automation, above CanvasDraft: publishing a draft,  *)
(* making a draft from a version, importing what was changed in the        *)
(* runtime, rolling back and the emergency disable, by                     *)
(* CanvasPublishingService, CanvasVersioningService and                    *)
(* WorkflowCompilerService.                                                *)
(*                                                                         *)
(* A version keeps its draft's id, revision and content, which its hash    *)
(* stands for. Left out: reports and projections stored along with it,     *)
(* the draft's status columns, the columns that say production is disabled *)
(* (nothing here reads them), the runtime's binding (and with it           *)
(* runtime_binding_rollback), audit.                                       *)
(***************************************************************************)
EXTENDS CanvasDraft, FiniteSetsExt

CONSTANTS Keys,        \* idempotency keys of rollbacks
          BadOp,       \* an operation whose result does not pass the publish gate
          ImportOps,   \* the workflow found in the runtime
          MaxVersions  \* bound: versions ever published

ASSUME VersionsAssumption == ImportOps \in Seq(Ops) /\ MaxVersions \in Nat
ASSUME KeysAssumption == "none" \notin Keys

VARIABLES versions,  \* app.automation_canvas_versions, oldest first
          active,    \* installed_automations.active_canvas_version_id, 0 for null
          ledger,    \* app.automation_version_rollbacks, by key
          candidate, \* status of the row in app.automation_import_candidates
          moved,     \* keys whose rollback took effect (history)
          disturbed  \* keys that overlapped, or failed before the ledger (history)

lifecycle == <<versions, active, ledger, candidate>>
versionHistory == <<moved, disturbed>>
vars == <<canvasVars, lifecycle, versionHistory>>

-----------------------------------------------------------------------------
Versions == [no : Nat, draft : DraftIds, rev : Nat, ops : Content]
VersionIds == 1..MaxVersions
NoKey == "none"

VersionLocals ==
  [pc : {"before publish", "version number"}, draft : DraftIds, base : Rows]
    \cup [pc : {"publish"}, draft : DraftIds, base : Rows, no : Nat]
    \cup [pc : {"insert draft"}, target : VersionIds, key : Keys \cup {NoKey}]
    \cup [pc : {"roll back"}, target : VersionIds, key : Keys]
    \cup [pc : {"disable", "record"}, key : Keys]
    \cup [pc : {"import", "imported"}]

VersionsTypeOK ==
  /\ CanvasTypeOK /\ proc \in [Handlers -> CanvasLocals \cup VersionLocals]
  /\ versions \in Seq(Versions) /\ Len(versions) <= MaxVersions
  /\ active \in 0..MaxVersions
  /\ ledger \subseteq Keys /\ moved \subseteq Keys /\ disturbed \subseteq Keys
  /\ candidate \in {"none", "preview_ready", "applied", "rejected"}

VersionsInit ==
  /\ Init /\ versions = <<>> /\ active = 0 /\ ledger = {}
  /\ candidate = "none" /\ moved = {} /\ disturbed = {}

-----------------------------------------------------------------------------
(* publishDraft. *)
PublishGate(row) == \A i \in DOMAIN row.ops : row.ops[i] # BadOp

PublishStart(h) ==
  \E d \in DraftIds :
    /\ proc[h] = Idle /\ Len(versions) < MaxVersions
    /\ EnsureDraft(d) /\ PublishGate(drafts'[d])
    /\ Continue(h, [pc |-> "before publish", draft |-> d, base |-> drafts'[d]])
    /\ UNCHANGED <<locks, records, snapshots, patch, canonical, restored, lifecycle, versionHistory>>

BeforePublish(h) ==
  /\ proc[h].pc = "before publish"
  /\ PersistSnapshot(SnapshotOf(proc[h].draft, proc[h].base, "before_publish", "none"))
  /\ Continue(h, [proc[h] EXCEPT !.pc = "version number"])
  /\ UNCHANGED <<drafts, locks, records, patch, canonical, restored, lifecycle, versionHistory>>

NextVersionNo(h) ==
  LET used == {versions[v].no : v \in DOMAIN versions}
  IN /\ proc[h].pc = "version number"
     /\ Continue(h, [pc |-> "publish", draft |-> proc[h].draft, base |-> proc[h].base,
                     no |-> 1 + Max({0} \cup used)])
     /\ UNCHANGED <<canvas, restored, lifecycle, versionHistory>>

(* Faulty: the draft is read again at the commit. *)
DraftAtCommit(h) == drafts[proc[h].draft]

(* The workflow publishDraft stores: the one it has validated. *)
Published(h) == proc[h].base

VersionHashUnique(h) ==
  \A v \in DOMAIN versions :
    ~(/\ versions[v].draft = proc[h].draft /\ versions[v].rev = Published(h).rev
      /\ versions[v].ops = Published(h).ops)

(* The unique constraints on version_no and on workflow_hash. *)
VersionInsertable(h) ==
  VersionHashUnique(h) /\ \A v \in DOMAIN versions : versions[v].no # proc[h].no

PublishCommit(h) ==
  /\ proc[h].pc = "publish" /\ Len(versions) < MaxVersions /\ VersionInsertable(h)
  /\ versions' = Append(versions, [no |-> proc[h].no, draft |-> proc[h].draft,
                                   rev |-> Published(h).rev, ops |-> Published(h).ops])
  /\ active' = Len(versions) + 1 /\ canonical' = Published(h).ops
  /\ Continue(h, Idle)
  /\ UNCHANGED <<drafts, locks, records, snapshots, patch, restored, ledger, candidate, versionHistory>>

-----------------------------------------------------------------------------
(* Rollbacks carry an idempotency key, looked up in the ledger first and   *)
(* written to it last.                                                     *)
Served(key) == {h \in Handlers : "key" \in DOMAIN proc[h] /\ proc[h].key = key}

(* Faulty: the ledger is not looked at. *)
KeyAcceptedUnchecked(key) ==
  disturbed' = IF Served(key) = {} THEN disturbed ELSE disturbed \cup {key}

KeyAccepted(key) ==
  /\ key \notin ledger
  /\ disturbed' = IF Served(key) = {} THEN disturbed ELSE disturbed \cup {key}

Moved(key) == moved' = moved \cup ({key} \cap Keys)

NextAfter(h) == IF proc[h].key \in Keys THEN [pc |-> "record", key |-> proc[h].key] ELSE Idle

(* createDraftFromVersion, called by itself or for restore_as_draft: the   *)
(* active draft is archived, and the new one inserted by a later statement.*)
ArchiveForVersion(h, v, key) ==
  /\ proc[h] = Idle /\ v \in DOMAIN versions
  /\ (key \in Keys /\ KeyAccepted(key)) \/ (key = NoKey /\ UNCHANGED disturbed)
  /\ drafts' = [d \in DOMAIN drafts |-> [drafts[d] EXCEPT !.archived = TRUE]]
  /\ Continue(h, [pc |-> "insert draft", target |-> v, key |-> key])
  /\ UNCHANGED <<locks, records, snapshots, patch, canonical, restored, lifecycle, moved>>

InsertDraft(h) ==
  /\ proc[h].pc = "insert draft" /\ Len(drafts) < MaxDrafts /\ DraftInsertable
  /\ drafts' = Append(drafts, FreshRow(versions[proc[h].target].ops))
  /\ Moved(proc[h].key) /\ Continue(h, NextAfter(h))
  /\ UNCHANGED <<locks, records, snapshots, patch, canonical, restored, lifecycle, disturbed>>

(* rollback to a version: its transaction repeats none of the checks. *)
RollbackStart(h, v, key) ==
  /\ proc[h] = Idle /\ v \in DOMAIN versions /\ KeyAccepted(key)
  /\ Continue(h, [pc |-> "roll back", target |-> v, key |-> key])
  /\ UNCHANGED <<canvas, restored, lifecycle, moved>>

RollbackCommit(h) ==
  /\ proc[h].pc = "roll back"
  /\ active' = proc[h].target /\ canonical' = versions[proc[h].target].ops
  /\ Moved(proc[h].key) /\ Continue(h, NextAfter(h))
  /\ UNCHANGED <<drafts, locks, records, snapshots, patch, restored, versions, ledger, candidate,
                 disturbed>>

DisableStart(h, key) ==
  /\ proc[h] = Idle /\ KeyAccepted(key)
  /\ Continue(h, [pc |-> "disable", key |-> key])
  /\ UNCHANGED <<canvas, restored, lifecycle, moved>>

EmergencyDisable(h) ==
  /\ proc[h].pc = "disable"
  /\ Moved(proc[h].key) /\ Continue(h, NextAfter(h))
  /\ UNCHANGED <<canvas, restored, versions, active, ledger, candidate, disturbed>>

(* recordRollback, under the unique key. *)
RecordRollback(h) ==
  /\ proc[h].pc = "record" /\ proc[h].key \notin ledger
  /\ ledger' = ledger \cup {proc[h].key} /\ Continue(h, Idle)
  /\ UNCHANGED <<canvas, restored, versions, active, candidate, versionHistory>>

-----------------------------------------------------------------------------
(* Runtime import: a candidate is previewed, then applied or rejected. *)
ImportPreview ==
  /\ candidate = "none" /\ candidate' = "preview_ready"
  /\ UNCHANGED <<canvasVars, versions, active, ledger, versionHistory>>

ImportStart(h) ==
  /\ proc[h] = Idle /\ candidate = "preview_ready" /\ Continue(h, [pc |-> "import"])
  /\ UNCHANGED <<canvas, restored, lifecycle, versionHistory>>

(* createRuntimeImportDraft: one transaction archives, inserts and writes  *)
(* the automation's workflow.                                              *)
ImportDraft(h) ==
  /\ proc[h].pc = "import" /\ Len(drafts) < MaxDrafts /\ RowInsertable
  /\ drafts' = Append([d \in DOMAIN drafts |-> [drafts[d] EXCEPT !.archived = TRUE]],
                      FreshRow(ImportOps))
  /\ canonical' = ImportOps /\ Continue(h, [pc |-> "imported"])
  /\ UNCHANGED <<locks, records, snapshots, patch, restored, lifecycle, versionHistory>>

ImportMark(h) ==
  /\ proc[h].pc = "imported" /\ candidate' = "applied" /\ Continue(h, Idle)
  /\ UNCHANGED <<canvas, restored, versions, active, ledger, versionHistory>>

(* Faulty: a status the column does not have. *)
ImportRejectMisspelt ==
  /\ candidate = "preview_ready" /\ candidate' = "declined"
  /\ UNCHANGED <<canvasVars, versions, active, ledger, versionHistory>>

ImportReject ==
  /\ candidate = "preview_ready" /\ candidate' = "rejected"
  /\ UNCHANGED <<canvasVars, versions, active, ledger, versionHistory>>

-----------------------------------------------------------------------------
(* A request that fails between its effect and the ledger leaves its key  *)
(* to be served again.                                                     *)
VersionRequestFails(h) ==
  /\ RequestFails(h) /\ UNCHANGED <<lifecycle, moved>>
  /\ disturbed' = disturbed \cup {key \in Keys : h \in Served(key) /\ proc[h].pc = "record"}

Publishing ==
  \E h \in Handlers : PublishStart(h) \/ BeforePublish(h) \/ NextVersionNo(h) \/ PublishCommit(h)

RollingBack ==
  \/ \E h \in Handlers, v \in VersionIds : \E key \in Keys \cup {NoKey} : ArchiveForVersion(h, v, key)
  \/ \E h \in Handlers, v \in VersionIds, key \in Keys : RollbackStart(h, v, key)
  \/ \E h \in Handlers, key \in Keys : DisableStart(h, key)
  \/ \E h \in Handlers : InsertDraft(h) \/ RollbackCommit(h) \/ EmergencyDisable(h) \/ RecordRollback(h)

Importing ==
  \/ ImportPreview \/ ImportReject
  \/ \E h \in Handlers : ImportStart(h) \/ ImportDraft(h) \/ ImportMark(h)

VersionsNext ==
  \/ (Locking \/ Editing \/ Restoring \/ Patching) /\ UNCHANGED <<lifecycle, versionHistory>>
  \/ Publishing \/ RollingBack \/ Importing
  \/ \E h \in Handlers : VersionRequestFails(h)

VersionsSpec == VersionsInit /\ [][VersionsNext]_vars

-----------------------------------------------------------------------------
(* Versions are numbered in the order they are published and without gaps, *)
(* although a number is drawn before the transaction that uses it          *)
(* (nextVersionNo).                                                        *)
VersionNumbersInOrder == \A v \in DOMAIN versions : versions[v].no = v

(* What is active has passed the publish gate, whatever was done to the    *)
(* draft while it was being published (publishDraft, rollback).            *)
ActivePassedGate == active # 0 => PublishGate(versions[active])

TakesEffect(h) == InsertDraft(h) \/ RollbackCommit(h) \/ EmergencyDisable(h)

(* A rollback's key takes effect once, unless a request with the key met   *)
(* another one or failed after its effect (loadRollbackByKey,              *)
(* recordRollback).                                                        *)
KeyTakesEffectOnce ==
  [][\A h \in Handlers : TakesEffect(h) => proc[h].key \notin moved \ disturbed]_vars

=============================================================================
