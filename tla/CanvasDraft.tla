----------------------------- MODULE CanvasDraft -----------------------------
(***************************************************************************)
(* Editing the canvas of one automation: its drafts, the edit locks, the   *)
(* log of operations, the snapshots, one patch proposed by the canvas AI,  *)
(* and the handlers of CanvasDraftService, CanvasLockService,              *)
(* CanvasOperationService, CanvasSnapshotService and                       *)
(* CanvasPatchApplyService that read and write them.                       *)
(*                                                                         *)
(* A workflow is the sequence of the operations it is the result of. Its   *)
(* hash is taken over the draft's id, the revision and the content         *)
(* (canonicalWorkflowHashInput), so two hashes are equal when these are.   *)
(* Which operations are refused, by policy, permission or because they do  *)
(* not fit the graph, is left open: any of them may be.                    *)
(*                                                                         *)
(* applyOperations holds the draft's row (FOR UPDATE) from its first       *)
(* statement to its commit, so that its transaction is one step. A         *)
(* heartbeat renews a lock that is live and leaves no trace here.          *)
(***************************************************************************)
EXTENDS Naturals, Sequences

CONSTANTS Users,      \* people who may edit the automation
          Handlers,   \* requests being served at the same time
          Ops,        \* client_operation_ids
          Batches,    \* batches of operations a client may send
          PatchBatch, \* the operations of the proposed patch
          Guards,     \* what a batch says of the draft it was made for
          Names,      \* checkpoint names
          RowPerAutomation, \* whether migration 000032's constraint on drafts is kept
          MaxDrafts,  \* bound: drafts ever made
          MaxOps,     \* bound: no batch makes a draft longer than this
          MaxRev      \* bound: no restore at this revision or above

ASSUME BatchesAssumption == Batches \subseteq Seq(Ops) /\ PatchBatch \in Seq(Ops)
ASSUME GuardsAssumption == Guards \subseteq {"none", "revision", "hash"}
ASSUME BoundsAssumption ==
  MaxDrafts \in Nat \ {0} /\ MaxOps \in Nat /\ MaxRev \in Nat /\ RowPerAutomation \in BOOLEAN

VARIABLES drafts,    \* app.automation_canvas_drafts, oldest first
          locks,     \* rows of app.automation_canvas_locks not yet released
          records,   \* app.automation_canvas_operations
          snapshots, \* app.automation_canvas_snapshots
          patch,     \* the row in app.canvas_ai_patch_proposals
          canonical, \* installed_automations.workflow
          proc,      \* what each request has read and does next
          restored   \* drafts overwritten from a snapshot (history)

canvas == <<drafts, locks, records, snapshots, patch, canonical>>
canvasVars == <<canvas, proc, restored>>

-----------------------------------------------------------------------------
DraftIds == 1..MaxDrafts
Content == Seq(Ops)
Rows == [rev : Nat, ops : Content, archived : BOOLEAN]
Statuses == {"none", "ready_for_review", "applied", "rejected", "expired"}
Snapshots == [draft : DraftIds, rev : Nat, reason : {"manual_save", "before_restore", "before_publish"},
              name : Names \cup {"none"}, ops : Content]

Idle == [pc |-> "idle"]
CanvasLocals ==
  [pc : {"idle", "patch done", "patch late"}]
    \cup [pc : {"lock"}, user : Users, draft : DraftIds]
    \cup [pc : {"snapshot"}, row : Snapshots]
    \cup [pc : {"operations"}, user : Users, draft : DraftIds, batch : Content,
          guard : Guards \cup {"hash"}, base : Rows, patch : BOOLEAN]
    \cup [pc : {"before restore", "restore"}, user : Users, draft : DraftIds, base : Rows,
          from : Content]

CanvasTypeOK ==
  /\ drafts \in Seq(Rows) /\ Len(drafts) <= MaxDrafts
  /\ locks \subseteq [draft : DraftIds, user : Users, live : BOOLEAN]
  /\ records \subseteq [draft : DraftIds, op : Ops, rejected : BOOLEAN]
  /\ snapshots \subseteq Snapshots
  /\ patch \in [status : Statuses, draft : DraftIds, base : Rows]
  /\ canonical \in Content /\ restored \subseteq DraftIds

TypeOK == CanvasTypeOK /\ proc \in [Handlers -> CanvasLocals]

FreshRow(content) == [rev |-> 0, ops |-> content, archived |-> FALSE]

Init ==
  /\ drafts = <<>> /\ locks = {} /\ records = {} /\ snapshots = {}
  /\ canonical = <<>>
  /\ patch = [status |-> "none", draft |-> 1, base |-> FreshRow(<<>>)]
  /\ proc = [h \in Handlers |-> Idle] /\ restored = {}

-----------------------------------------------------------------------------
ActiveDrafts == {d \in DOMAIN drafts : ~drafts[d].archived}

(* unique (workspace_id, installed_automation_id), which 000036 drops under *)
(* a name of 65 characters that is not the one PostgreSQL had given it.    *)
RowInsertable == RowPerAutomation => drafts = <<>>

(* ... and the unique index on the automation's unarchived drafts. *)
DraftInsertable == RowInsertable /\ ActiveDrafts = {}

(* ensureDraft: the active draft d, made from the automation's workflow if *)
(* there is none; the unique index turns a lost race into a second read.   *)
EnsureDraft(d) ==
  \/ d \in ActiveDrafts /\ UNCHANGED drafts
  \/ /\ ActiveDrafts = {} /\ DraftInsertable /\ d = Len(drafts) + 1 /\ d <= MaxDrafts
     /\ drafts' = Append(drafts, FreshRow(canonical))

Continue(h, local) == proc' = [proc EXCEPT ![h] = local]

(* createOrOpenDraft and every read that goes through ensureDraft. *)
OpenDraft ==
  /\ \E d \in DraftIds : EnsureDraft(d)
  /\ UNCHANGED <<locks, records, snapshots, patch, canonical, proc, restored>>

-----------------------------------------------------------------------------
(* Edit locks. *)
LockHeld(u, d) == [draft |-> d, user |-> u, live |-> TRUE] \in locks

(* acquireLock reads the lock first and goes on when it may be taken. *)
AcquireStart(h, u) ==
  \E d \in DraftIds :
    /\ proc[h] = Idle /\ EnsureDraft(d)
    /\ ~ \E r \in locks : r.draft = d /\ r.live
    /\ Continue(h, [pc |-> "lock", user |-> u, draft |-> d])
    /\ UNCHANGED <<locks, records, snapshots, patch, canonical, restored>>

(* Faulty: the update releases live locks of others too. *)
ReleasedUnconditionally(u, d) == {r \in locks : r.draft = d}

(* The rows acquireLock's transaction releases. *)
Released(u, d) == {r \in locks : r.draft = d /\ (~r.live \/ r.user = u)}

(* The insert meets the unique index on unreleased rows of the draft. *)
AcquireCommit(h) ==
  LET u == proc[h].user
      d == proc[h].draft
      left == locks \ Released(u, d)
  IN /\ proc[h].pc = "lock"
     /\ IF \E r \in left : r.draft = d
        THEN UNCHANGED locks
        ELSE locks' = left \cup {[draft |-> d, user |-> u, live |-> TRUE]}
     /\ Continue(h, Idle)
     /\ UNCHANGED <<drafts, records, snapshots, patch, canonical, restored>>

ReleaseLock(u) ==
  \E d \in DraftIds :
    /\ EnsureDraft(d)
    /\ locks' = {r \in locks : ~(r.draft = d /\ r.user = u)}
    /\ UNCHANGED <<records, snapshots, patch, canonical, proc, restored>>

(* expires_at passes without a heartbeat. *)
LockExpires ==
  \E r \in locks :
    /\ r.live /\ locks' = (locks \ {r}) \cup {[r EXCEPT !.live = FALSE]}
    /\ UNCHANGED <<drafts, records, snapshots, patch, canonical, proc, restored>>

(* isLockedByOther looks at one unreleased row, whichever draft it is of. *)
LockedByOther(u) ==
  IF locks = {} THEN {FALSE} ELSE {r.live /\ r.user # u : r \in locks}

-----------------------------------------------------------------------------
(* applyOperations: the draft and the lock are read before the transaction. *)
OperationsStart(h, u, batch, guard) ==
  \E d \in DraftIds :
    /\ proc[h] = Idle /\ EnsureDraft(d) /\ LockHeld(u, d)
    /\ Continue(h, [pc |-> "operations", user |-> u, draft |-> d, batch |-> batch,
                    guard |-> guard, base |-> drafts'[d], patch |-> FALSE])
    /\ UNCHANGED <<locks, records, snapshots, patch, canonical, restored>>

(* Faulty: the batch starts from the draft as it was read. *)
DraftAsRead(h) == proc[h].base
(* Faulty: the hash is not compared. *)
MatchesRevisionOnly(h, row) == proc[h].guard = "revision" => row.rev = proc[h].base.rev

(* The row getDraftForUpdate locks, and what may refuse it. *)
DraftForUpdate(h) == drafts[proc[h].draft]

Matches(h, row) ==
  CASE proc[h].guard = "none" -> TRUE
    [] proc[h].guard = "revision" -> row.rev = proc[h].base.rev
    [] OTHER -> row.rev = proc[h].base.rev /\ row.ops = proc[h].base.ops

(* Faulty: only what was rejected counts. *)
RejectedOperation(d, op) == \E r \in records : r.draft = d /\ r.op = op /\ r.rejected

ExistingOperation(d, op) == \E r \in records : r.draft = d /\ r.op = op

(* The operations of the batch that are not duplicates, in order. The log  *)
(* is looked up as it was before the batch: one that the batch names twice *)
(* is no duplicate.                                                        *)
NewOps(d, batch) ==
  LET kept[n \in 0..Len(batch)] ==
        IF n = 0 THEN <<>>
        ELSE IF ExistingOperation(d, batch[n]) THEN kept[n - 1]
        ELSE Append(kept[n - 1], batch[n])
  IN kept[Len(batch)]

(* insertOperationRecord: on conflict with the unique constraint on        *)
(* (workspace, automation, client_operation_id), whatever the draft, do    *)
(* nothing.                                                                *)
InsertRecords(new) ==
  records' = records \cup {r \in new : \A s \in records : s.op # r.op}

Logged(d, ops) == {[draft |-> d, op |-> ops[i], rejected |-> FALSE] : i \in DOMAIN ops}

(* The end of a request: a patch still has its own row to write. *)
Answer(h) == Continue(h, IF proc[h].patch THEN [pc |-> "patch done"] ELSE Idle)

(* The whole batch is applied, recorded and answered. *)
OperationsApplied(h) ==
  LET d == proc[h].draft
      row == DraftForUpdate(h)
      ops == NewOps(d, proc[h].batch)
  IN /\ proc[h].pc = "operations" /\ ~drafts[d].archived /\ Matches(h, row)
     /\ ops # <<>> => FALSE \in LockedByOther(proc[h].user)
     /\ Len(row.ops \o ops) <= MaxOps
     /\ drafts' = [drafts EXCEPT ![d].ops = row.ops \o ops, ![d].rev = row.rev + Len(ops)]
     /\ InsertRecords(Logged(d, ops))
     /\ Answer(h)
     /\ UNCHANGED <<locks, snapshots, patch, canonical, restored>>

(* Faulty: the operations before the refused one stay in the draft. *)
OperationRejectedPartly(h, k) ==
  LET d == proc[h].draft
      batch == proc[h].batch
  IN /\ ~drafts[d].archived /\ Matches(h, DraftForUpdate(h))
     /\ ~ExistingOperation(d, batch[k])
     /\ NewOps(d, SubSeq(batch, 1, k - 1)) # <<>> => FALSE \in LockedByOther(proc[h].user)
     /\ drafts' = [drafts EXCEPT ![d].ops = @ \o NewOps(d, SubSeq(batch, 1, k - 1))]
     /\ InsertRecords({[draft |-> d, op |-> batch[k], rejected |-> TRUE]})
     /\ Answer(h)
     /\ UNCHANGED <<locks, snapshots, patch, canonical, restored>>

(* Operation k of the batch is refused: only its record is written, and    *)
(* the answer lists the operations before it.                              *)
OperationRejected(h, k) ==
  LET d == proc[h].draft
      batch == proc[h].batch
  IN /\ ~drafts[d].archived /\ Matches(h, DraftForUpdate(h))
     /\ ~ExistingOperation(d, batch[k])
     /\ NewOps(d, SubSeq(batch, 1, k - 1)) # <<>> => FALSE \in LockedByOther(proc[h].user)
     /\ InsertRecords({[draft |-> d, op |-> batch[k], rejected |-> TRUE]})
     /\ Answer(h)
     /\ UNCHANGED <<drafts, locks, snapshots, patch, canonical, restored>>

SomeOperationRejected(h) ==
  proc[h].pc = "operations" /\ \E k \in DOMAIN proc[h].batch : OperationRejected(h, k)

(* 404, 409, or a crash, at this or any other statement. *)
RequestFails(h) ==
  /\ proc[h] # Idle /\ Continue(h, Idle)
  /\ UNCHANGED <<canvas, restored>>

-----------------------------------------------------------------------------
(* Snapshots. persistSnapshot keeps the row it finds under the same draft, *)
(* revision and reason.                                                    *)
PersistSnapshot(s) ==
  snapshots' = IF \E t \in snapshots : t.draft = s.draft /\ t.rev = s.rev /\ t.reason = s.reason
               THEN snapshots ELSE snapshots \cup {s}

SnapshotOf(d, row, reason, name) ==
  [draft |-> d, rev |-> row.rev, reason |-> reason, name |-> name, ops |-> row.ops]

(* createSnapshot reads the draft and stores it in a later statement. *)
SnapshotStart(h, name) ==
  \E d \in DraftIds :
    /\ proc[h] = Idle /\ EnsureDraft(d)
    /\ Continue(h, [pc |-> "snapshot", row |-> SnapshotOf(d, drafts'[d], "manual_save", name)])
    /\ UNCHANGED <<locks, records, snapshots, patch, canonical, restored>>

CreateSnapshot(h) ==
  /\ proc[h].pc = "snapshot" /\ PersistSnapshot(proc[h].row) /\ Continue(h, Idle)
  /\ UNCHANGED <<drafts, locks, records, patch, canonical, restored>>

(* restoreSnapshot: the draft, the lock and the snapshot are read, the     *)
(* draft as read is kept as a snapshot, and the draft is overwritten.      *)
RestoreStart(h, u, s) ==
  \E d \in DraftIds :
    /\ proc[h] = Idle /\ EnsureDraft(d) /\ LockHeld(u, d) /\ drafts'[d].rev < MaxRev
    /\ Continue(h, [pc |-> "before restore", user |-> u, draft |-> d, base |-> drafts'[d],
                    from |-> s.ops])
    /\ UNCHANGED <<locks, records, snapshots, patch, canonical, restored>>

BeforeRestore(h) ==
  /\ proc[h].pc = "before restore"
  /\ PersistSnapshot(SnapshotOf(proc[h].draft, proc[h].base, "before_restore", "none"))
  /\ Continue(h, [proc[h] EXCEPT !.pc = "restore"])
  /\ UNCHANGED <<drafts, locks, records, patch, canonical, restored>>

(* saveWorkflow: the update has no condition on the revision. *)
RestoreSave(h) ==
  /\ proc[h].pc = "restore"
  /\ drafts' = [drafts EXCEPT ![proc[h].draft].ops = proc[h].from,
                              ![proc[h].draft].rev = proc[h].base.rev + 1]
  /\ restored' = restored \cup {proc[h].draft}
  /\ Continue(h, Idle)
  /\ UNCHANGED <<locks, records, snapshots, patch, canonical>>

-----------------------------------------------------------------------------
(* The canvas AI's patch. *)
ProposePatch ==
  \E d \in ActiveDrafts :
    /\ patch.status = "none" /\ PatchBatch # <<>>
    /\ patch' = [status |-> "ready_for_review", draft |-> d, base |-> drafts[d]]
    /\ UNCHANGED <<drafts, locks, records, snapshots, canonical, proc, restored>>

(* apply: the proposal, the draft's hash and the lock are read. *)
PatchStart(h, u) ==
  LET d == patch.draft
  IN /\ proc[h] = Idle /\ patch.status = "ready_for_review"
     /\ d \in ActiveDrafts /\ drafts[d] = patch.base /\ LockHeld(u, d)
     /\ Continue(h, [pc |-> "operations", user |-> u, draft |-> d, batch |-> PatchBatch,
                     guard |-> "hash", base |-> patch.base, patch |-> TRUE])
     /\ UNCHANGED <<canvas, restored>>

(* apply after expires_at. *)
PatchStartLate(h) ==
  /\ proc[h] = Idle /\ patch.status = "ready_for_review"
  /\ Continue(h, [pc |-> "patch late"])
  /\ UNCHANGED <<canvas, restored>>

(* The proposal is marked whatever applyOperations answered. *)
PatchMarkApplied(h) ==
  /\ proc[h].pc = "patch done" /\ Continue(h, Idle)
  /\ patch' = [patch EXCEPT !.status = "applied"]
  /\ UNCHANGED <<drafts, locks, records, snapshots, canonical, restored>>

(* Faulty: a status the column does not have. *)
PatchMarkExpiredMisspelt(h) ==
  /\ proc[h].pc = "patch late" /\ Continue(h, Idle)
  /\ patch' = [patch EXCEPT !.status = IF @ = "applied" THEN @ ELSE "timed_out"]
  /\ UNCHANGED <<drafts, locks, records, snapshots, canonical, restored>>

PatchMarkExpired(h) ==
  /\ proc[h].pc = "patch late" /\ Continue(h, Idle)
  /\ patch' = [patch EXCEPT !.status = IF @ = "applied" THEN @ ELSE "expired"]
  /\ UNCHANGED <<drafts, locks, records, snapshots, canonical, restored>>

(* reject has no condition on the status. *)
PatchReject ==
  /\ patch.status # "none" /\ patch' = [patch EXCEPT !.status = "rejected"]
  /\ UNCHANGED <<drafts, locks, records, snapshots, canonical, proc, restored>>

-----------------------------------------------------------------------------
Locking ==
  \/ OpenDraft \/ LockExpires
  \/ \E u \in Users : ReleaseLock(u) \/ \E h \in Handlers : AcquireStart(h, u)
  \/ \E h \in Handlers : AcquireCommit(h)

Editing ==
  \/ \E h \in Handlers, u \in Users, b \in Batches, g \in Guards : OperationsStart(h, u, b, g)
  \/ \E h \in Handlers : OperationsApplied(h) \/ SomeOperationRejected(h)

Restoring ==
  \/ \E h \in Handlers, name \in Names : SnapshotStart(h, name)
  \/ \E h \in Handlers, u \in Users, s \in snapshots : RestoreStart(h, u, s)
  \/ \E h \in Handlers : CreateSnapshot(h) \/ BeforeRestore(h) \/ RestoreSave(h)

Patching ==
  \/ ProposePatch \/ PatchReject
  \/ \E h \in Handlers : PatchStartLate(h) \/ PatchMarkApplied(h) \/ PatchMarkExpired(h)
  \/ \E h \in Handlers, u \in Users : PatchStart(h, u)

Failing == \E h \in Handlers : RequestFails(h)

Next == Locking \/ Editing \/ Restoring \/ Patching \/ Failing

Spec == Init /\ [][Next]_canvasVars

-----------------------------------------------------------------------------
LoggedOps(d) == {op \in Ops : [draft |-> d, op |-> op, rejected |-> FALSE] \in records}
ContentOf(d) == {drafts[d].ops[i] : i \in DOMAIN drafts[d].ops}

Repeated(op) ==
  \E b \in Batches \cup {PatchBatch} : \E i, j \in DOMAIN b : i # j /\ b[i] = op /\ b[j] = op

(* However often a client sends an operation, alone or in another batch,   *)
(* the draft holds it once, unless one batch names it twice                *)
(* (findExistingOperation). The draft is the automation's first: one that  *)
(* replaces another starts without the log.                                *)
AppliedAtMostOnce ==
  \A d \in DOMAIN drafts : \A i, j \in DOMAIN drafts[d].ops :
    (i # j /\ drafts[d].ops[i] = drafts[d].ops[j]) => Repeated(drafts[d].ops[i])

(* The log and the draft agree: unless a snapshot was restored over it, a  *)
(* draft holds the operations logged as applied and no other, and its      *)
(* revision counts what it holds. No batch overwrites another              *)
(* (getDraftForUpdate's row lock).                                         *)
LogMatchesDraft ==
  \A d \in DOMAIN drafts \ restored :
    LoggedOps(d) = ContentOf(d) /\ drafts[d].rev = Len(drafts[d].ops)

(* The automation's draft as SharedDraft has it: there is one, and before  *)
(* it is made it is empty.                                                 *)
DraftText == IF drafts = <<>> THEN <<>> ELSE drafts[1].ops
RefusedOps(d) == {op \in Ops : [draft |-> d, op |-> op, rejected |-> TRUE] \in records}
TextsOf(local) == CASE local.pc = "snapshot" -> {local.row.ops}
                    [] local.pc \in {"before restore", "restore"} -> {local.base.ops, local.from}
                    [] OTHER -> {}
KeptTexts == {s.ops : s \in snapshots} \cup UNION {TextsOf(proc[h]) : h \in Handlers}

Shared == INSTANCE SharedDraft WITH Batches <- Batches \cup {PatchBatch}, text <- DraftText,
                                    applied <- LoggedOps(1), refused <- RefusedOps(1),
                                    kept <- KeptTexts

(* The requests implement the shared draft: whatever they read before their *)
(* transactions, batches take effect one at a time on the newest text, what *)
(* was decided once stays so, and what is restored was once the draft.     *)
ImplementsShared == Shared!SharedSpec

(* The planner gives the patch's operations ids of their own. *)
FirstIsOwn ==
  /\ PatchBatch # <<>> /\ ~Repeated(PatchBatch[1])
  /\ \A b \in Batches : \A i \in DOMAIN b : b[i] # PatchBatch[1]

(* The patch's operations follow directly on the content the patch was     *)
(* made for, whatever was edited or restored meanwhile (base_hash).        *)
PatchOnlyOnItsBase ==
  FirstIsOwn => \A d \in DOMAIN drafts : \A i \in DOMAIN drafts[d].ops :
    drafts[d].ops[i] = PatchBatch[1] => SubSeq(drafts[d].ops, 1, i - 1) = patch.base.ops

(* A request that acts on a row it read earlier takes nothing from others:  *)
(* a lock that is live does not pass to another user, it expires or is     *)
(* released first (acquireLock's update and unique index), and a patch     *)
(* marked applied does not expire, although the request that finds it late *)
(* has read it as still open (markExpired's condition).                    *)
LateWritersTakeNothing ==
  [][/\ \A r \in locks : r.live =>
          \A q \in locks' : (q.draft = r.draft /\ q.live) => q.user = r.user
     /\ patch.status = "applied" => patch'.status # "expired"]_canvasVars

(* What the API document says of restoreSnapshot: the draft is overwritten *)
(* only as it was when it was read.                                        *)
RestoreChecksRevision ==
  [][\A h \in Handlers : RestoreSave(h) => drafts[proc[h].draft] = proc[h].base]_canvasVars

=============================================================================
