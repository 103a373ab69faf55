# LexFrame execution core: a TLA+ development

LexFrame is a workspace for lawyers: a NestJS backend
(`src/apps/backend`), a Next.js client (`src/apps/web`), a few packages and a
Postgres schema (`src/supabase`). Users install automations, start workflow
runs in an Activepieces runtime, approve what the runs produce and let the
system deliver it. All state that matters is in Postgres; every backend
instance serves many requests at once, and instances share nothing else.

The development models the parts of the backend where requests of several
actors meet on the same rows: runs and their steps, runtime callbacks,
approvals, deliveries, and the outbox of live events; on the editing side, the
drafts of an automation's canvas, their locks, patches and versions, the graph
they hold and its way into the runtime; and the services around them: chat,
documents, the automation builder and the AI gateway.

## How the code is read

Two facts about `DatabaseService` (`modules/database`) shape every model.

* `query` and `one` send one statement, which commits by itself. A handler is
  therefore a *sequence of steps*, one per statement, and any other handler may
  run between two of them. A handler's local variables (the row it read
  first, the ids it made) live in `req[h]`, its position in `pc[h]` (in the canvas
  modules both in `proc[h]`, in the modules that extend `Requests` both in `request[h]`).
* `transaction(callback)` is one transaction at READ COMMITTED. When its
  statements only write rows found by primary key it is one step. Where it reads
  rows it has not locked (`applyStepEvent` counts the steps of the run) the read
  and the commit are two steps and the row lock held in between is modelled.

A handler may end between any two of its steps (`HandlerFails`, `Crash`,
`RequestFails`, `Dies`, `CutShort`): the
process dies, or a statement throws and the exception leaves the handler.
Nothing in the code takes such a handler up again; an open transaction rolls
back. The constants `CanFail`, `CanCrash`, `CanFailWrites`, `CanDie` switch this off
where a question is about handlers that do not end early.

Rows that are only appended and read by nobody in the model (audit,
notifications, decision and step events, live events except in their own
module and in `ChatThread`) are left out, and so are texts, hashes, recipients and timestamps. A
timestamp whose presence matters (`approved_at`, `sent_at`, `finished_at`) is a
Boolean.

## Inventory

| Component | State | Operations | What is hard |
|---|---|---|---|
| Live event outbox (`modules/realtime`) | `app.live_events` (status, attempts); per instance a timer and a `running` flag | `recordEvent`, `claimPending`, `markPublished`, `markFailed`, `tick` | several instances claim at once; a broadcast whose answer is lost; a process that dies with claimed rows; a rejected update |
| External delivery (`modules/delivery`) | `app.delivery_requests`, `app.delivery_attempts`, the run's status | `approve`, `send` (attempt, webhook call, settlement), `cancel`, `retry`, `createRuntimeRequest` | status checked on one statement and written by another; overlapping sends; the webhook's answer; four commits per gate |
| Approvals (`modules/approvals`) | `app.approval_tasks`, the delivery and the run they are about | `approveTask`, `rejectTask`, `requestChanges`, `createRuntimeTask`, `ensureTaskForGeneration` | three rows written one after the other from one earlier read; nested inside `approve` |
| Runtime callbacks (`modules/activepieces`) | `app.activepieces_callback_receipts`, `app.workflow_runs`, `app.workflow_run_steps`, artifact refs | `handleStepEvent`, `handleRunEvent`, `handleApprovalGate`, `handleDeliveryGate`, `ingestRuntimeArtifact` | redelivery; receipt and effect in different commits; counts read under READ COMMITTED; lists read, changed and written back |
| Run commands (`modules/runs`) | the same run and steps | `createRun`, `cancelRun`, `retryRun`, `retryStep` | unguarded updates of a run that callbacks write too |
| Run start (`activepieces.service.ts startRun`) | runs, the binding, the flow in the engine | `startRun` | idempotency key looked up and inserted in separate statements; calls to the engine in the middle; the binding it checks may be replaced meanwhile |
| Canvas drafts (`modules/canvas`) | drafts with a revision, edit locks with a lease, the log of operations, snapshots | `ensureDraft`, `acquireLock`, `heartbeatLock`, `releaseLock`, `applyOperations`, `createSnapshot`, `restoreSnapshot` | leases that run out; optimistic revisions; batches sent twice; a restore that writes what it read earlier |
| Canvas AI patches (`modules/canvas-ai`) | patch proposals with a base hash and an expiry | `apply`, `reject`, `markExpired` | the draft moves under the patch; status written after the batch |
| Canvas versions (`modules/canvas`) | published versions, the active one, the ledger of rollbacks | `publishDraft`, `createDraftFromVersion`, `rollback`, `emergencyDisable`, `recordRollback` | publishing a draft read earlier; numbers drawn outside the transaction; keys looked up first and stored last; archive and insert apart |
| Canvas graph (`canvas-operation`, `canvas-validation`, `workflow-compiler`) | blocks and connections of the draft | `ADD_NODE` ... `DELETE_EDGE`, insertion of a module; the checks for publishing; the compiler's order | hand-written searches; operations of which only some are checked; two modules that ask the same question of different edges |
| Runtime sync (`modules/workflow-compiler`, `modules/runtime`) | compile reports, the binding, sync events; the flow in Activepieces | `compile`, `syncRuntime`, `overwriteRuntime`, `pullRuntime`, `startRun` | half a dozen calls and statements around a flow people edit by hand; keys |
| Runtime import (`modules/workflow-compiler`) | import candidates, the canonical workflow | `applyRuntimeImport`, `rejectRuntimeImport` | a candidate decided twice; writers of the canonical workflow |
| Chat (`modules/chat`) | thread, branches, messages, stream jobs and their events, attachments | `streamMessage`, `cancelStream`, `resumeStream`, `createMessageBranch`, `archiveThread`, upload intents, completions, `deleteAttachment` | an answer, its events and its job settled one after the other, while clients cancel and resume; storage asked between read and write |
| Documents (`modules/documents`) | documents, versions, storage objects, processing jobs | `createUploadIntent`, `uploadVersionContent`, `completeUpload`, `makeCurrent`, `archive`, `softDelete`, `restore`, `createRunArtifact` | contents and completions of one version that overlap; an object the client puts at any time; decisions on old readings |
| Automation builder (`modules/automation-builder`) | intents, blueprints and their versions, builder artifacts, runtime jobs | `planIntent`, `approveBlueprint`, `rejectBlueprint`, `convertToCanvasDraft`, `createRuntimeDraft` | checked in one statement, written in another |
| AI gateway (`modules/ai-gateway`) | sessions, AI requests and their events, usage, drafts, versions, missing fields | `sendMessage`, `createWorkflowPatch`, `createDraft`, `updateDraftInputs` | budget and key checked long before they are used up; a draft written by six statements; a catch around half of them |
| Rest of the workflow compiler, canvas catalogue, DSL packages | none | pure functions | data, not protocol |
| Recommendations, legal search, document generation | index and job rows | calls to external services around single-statement writes | little shared state |
| Identity, authorization, settings, secrets, audit, notifications, telemetry, readiness | their own rows | checks before, records after a handler | no protocol with the parts above |
| Web client, mining worker, infra, scripts | none shared | | environment of the modelled handlers |

How they interact: the runtime posts callbacks; a step or run event changes the
run's rows; a gate makes an approval task and, for a delivery, a delivery
request. Users decide tasks and approve, send, cancel or retry deliveries;
each of these also writes the run's status. Every handler records live events,
which the publishers broadcast to the clients. On the editing side a draft is made
from the automation's canonical workflow or from a version, edited under a lock,
by patches and by restores, and published; publishing, rolling back and importing
write the canonical workflow. A compiled draft is synced into the flow the runtime
executes, and a run starts on the binding the last sync left. The builder and the
AI gateway make drafts of their own; the chat and the documents share no table with
the rest, and only artifacts of runs become documents.

Correctness, component by component:

* outbox: a row is in one publisher's hands, is broadcast a bounded number of
  times, is marked published only if it was, and settles;
* delivery and approvals: nothing that needs approval goes out without one;
  what the rows say was sent was taken by the receiver; each send settles its own
  attempt; a gate makes one delivery and one task, which name each other;
* callbacks: an event takes effect once; the end of a run is backed by what the
  runtime said; the copy of the steps on the run's row is true; artifacts are not
  lost; what was received is applied;
* drafts: an operation is applied once; log and draft agree, so that no batch
  overwrites another; a patch lands on the content it was made for; a live lock is
  not taken away;
* graph: the searches find cycles, unreachable blocks and approvals as they are; what
  may be published can be compiled, in an order that follows every connection;
* sync and run start: a run comes after a successful sync of its version, is not
  started on a flow in which the start saw unsafe steps, and is made once per key;
* chat: who is told that a stream is over has all of it; a streaming answer that has
  a text is settled; deleted files stay deleted;
* documents: ready means processed, and its object found as announced or, with no
  object there, vouched for by a client with a development token; versions only
  advance; what is shown as current has content;
* builder: what is made of a blueprint was approved and is sealed;
* AI gateway: what a user was answered with is in the draft; draft, version,
  missing fields and status agree; the budget and the key hold for requests in sequence;
* versions: what is active passed the publish gate; numbers follow the order of
  publication; a rollback's key takes effect once.

`PROJECT.json` lists every component with its status, and under `hazards` each
place where the code can go wrong in a way a test would hardly reach, with the
properties that watch it, or the reason why none does.

## Modules

| Module | Models |
|---|---|
| `LiveEvents` | `LiveEventsService`, `LiveEventPublisherService`, the broadcast endpoint |
| `LiveEventsProofs` | theorems about `LiveEvents` |
| `ApprovalGate` | the abstract specification of delivery: announce, endorse, start |
| `Delivery` | `DeliveryService`, the part of `ApprovalsService` about runs and deliveries, the two gate callbacks, the receiving webhook |
| `DeliveryProofs` | theorems about `Delivery`: approval, sends, rows, gates, and its refinement of `ApprovalGate` |
| `RunCallbacks` | step and run events, artifacts, receipts, `cancelRun`, `retryStep` for one run |
| `RunCallbacksProofs` | theorems about `RunCallbacks` |
| `CanvasDraft` | `CanvasDraftService`, `CanvasLockService`, `CanvasOperationService`, `CanvasSnapshotService`, `CanvasPatchApplyService` for one automation |
| `SharedDraft` | the abstract specification of a draft that several people edit: edit, refuse, keep, restore |
| `CanvasVersions` | extends `CanvasDraft` with `CanvasPublishingService`, the rollbacks of `CanvasVersioningService` and the import of `WorkflowCompilerService` |
| `CanvasProofs` | theorems about `CanvasDraft` and `CanvasVersions`: texts, locks, versions, keys, and the refinement of `SharedDraft` |
| `Requests` | what the modules below share: handlers, their next statement, their end |
| `ChatThread` | `ChatThreadService` for one thread |
| `DocumentStore` | `DocumentsService` for one document |
| `RuntimeSync` | compile and sync of `WorkflowCompilerService`, `RuntimeBindingService`, `startRun`, for one automation |
| `ServiceProofs` | theorems about `DocumentStore`, `ChatThread` and `RuntimeSync` |
| `WorkflowGraph` | `applySingleOperation` of `CanvasOperationService` on blocks and connections, the structural and policy checks of `CanvasValidationService`, `WorkflowGraphValidatorService` and the approvals of `WorkflowPolicyValidatorService` |
| `WorkflowGraphProofs` | theorems about `WorkflowGraph`: its searches, its checks, its operations |
| `AutomationBuilder` | `AutomationBuilderService` for one intent |
| `AiDrafts` | the sessions and drafts of `AiGatewayService` |
| `DraftingProofs` | theorems about `AutomationBuilder` and `AiDrafts` |
| `MCDelivery`, `MCRunCallbacks`, `MCCanvasDraft`, `MCCanvasVersions` | instances for TLC: symmetry sets; values are in the `.cfg` files |
| `MCServices` | the safety of `LiveEvents` and of the six modules above it, one of them in focus at a time |
| `MCServicesProofs` | theorems about `MCServices`: every service keeps its promises beside the others |
| `MCEventually` | the liveness of `LiveEvents`, `ChatThread`, `Delivery` and `RunCallbacks`, one of them in focus at a time |

### LiveEvents

`status` and `attempt_count` are the columns of the table; `phase`, `events` and
`current` are the program counter and the variables of `tick()` in each
instance; `received` counts what the endpoint took. `ClaimPending` is the claim
transaction: `for update skip locked` makes the rows it takes disjoint from those
of an instance claiming at the same time. `BroadcastRefused` is every outcome
other than a 2xx answer, and the endpoint may or may not have taken the event.
`MarkPublishedRejected` is the update inside the `try`: the statement fails, or
is applied and its confirmation is lost, and the `catch` goes on to `markFailed`;
`MarkFailedRejected` leaves the loop. `available_at` is left out because nothing
moves it after the insert.

### Delivery and ApprovalGate

One run with its deliveries. A gate callback (`DeliveryGate`) leaves a receipt,
looks for its key (`GateLookup`), inserts the request and updates the run
(`GateRow`), creates the task (`GateTask`, `GateRun`) and links it (`GateLink`).
`approve` and `decideTask` share `SettleTask`, `DecideRun`, `DecideRow`: the code
calls the one from the other (`nested`). `send` checks the row (`Send`), opens an
attempt (`SendAttempt`), calls the webhook (`DispatchAccepted`,
`DispatchFailed`), settles (`SendSuccess`, `SendFailure`). `endorsed` remembers
the deliveries somebody asked to approve and `accepted` the attempts the receiver
took; no action reads them to decide anything. `Elsewhere` lets the rest of the
backend set the run to any status other than the two of deliveries.

`ApprovalGate` has no rows: deliveries are announced as open or guarded,
endorsed, and started, a guarded one only when endorsed. `Delivery` implements
it with open and guarded read off `requires_approval` and started read off the
attempts.

### RunCallbacks

One run. `Receive` inserts the receipt, which is unique per key. `CountSteps` is
`applyStepEvent` up to its read of the steps: its own step is locked and seen as
updated, all others as committed. `CommitStep` makes everything it writes visible.
`ApplyRunEvent` reads nothing. `StoreArtifact`, `ReadRefs`, `WriteRefs`,
`ArtifactReceipt` are the statements of `ingestRuntimeArtifact`. Cancel and retry
are the transition service's statements. `DecideElsewhere`, `GateElsewhere` and
`DeliveryEndsElsewhere` are what `Delivery` does to the run. The histories
(`applied`, `retried`, `overlap`, `delivered`) serve the properties only.

### CanvasDraft and SharedDraft

One automation. A workflow is the sequence of operations it is the result of;
the hash the code compares is taken over the draft's id, the revision and the
content, so equal hashes are equal triples here. Which operations are refused
(by policy, permission, or the graph) is left open. `applyOperations` checks the
lock before its transaction (`OperationsStart`) and then holds the draft's row
from its first statement to its commit, so that the transaction is one step:
`OperationsApplied`, or `OperationRejected` at the first refused operation, which
leaves only the record of the refusal. `ExistingOperation` looks
the log up by draft; `InsertRecords` meets the unique constraint on client
operation ids, which covers all drafts of the automation, and does nothing then
(`on conflict do nothing`), so that an operation logged under an earlier draft is
applied without a record of its own, and one the batch names twice is applied twice
and recorded once. A 404 or 409 and a crash are
all `RequestFails`. A lock row is live until `LockExpires`; a heartbeat renews it
in place. `LockedByOther` is a set because the query takes any unreleased row of the
automation. `Restore...` and `Patch...` follow `restoreSnapshot` and `apply`
statement by statement. `restored` is a history.

`SharedDraft` has no requests, locks, revisions or hashes: a text, the operations
that were applied and those that were refused, and the texts somebody has kept. A
batch edits the newest text by what is left of it, whole and in its order; an
operation is applied by one batch or refused, for good; what is restored is a kept
text, and a kept text was once the draft's. It does not promise that a restore
leaves the edits made meanwhile: the code does not. `CanvasDraft` implements it with the
first draft's operations as text, the log as `applied` and `refused`, and snapshots
and the variables of the requests that copy or restore one as `kept`.

`RowPerAutomation` says whether the first migration's unique constraint on
(workspace, automation) is still there. 000036 drops it under a name of 65
characters; PostgreSQL, which keeps generated names within 63 bytes by shortening
their middle, has called it `..._installed_automation__key`, so the statement finds
nothing to drop (for the locks table, whose name is one shorter, the migration
tries the generated name too). `CanvasDraft`, where one draft is enough, runs with
the constraint, `CanvasVersions` with the schema the migration means: it allows
more behaviours, so its safety results hold with the constraint too.

### CanvasVersions

`publishDraft` reads and validates the draft (`PublishStart`), keeps a snapshot
(`BeforePublish`), draws a number (`NextVersionNo`) and commits version, active
version and canonical workflow in one transaction that does not look at the draft
again (`PublishCommit`). `createDraftFromVersion` archives (`ArchiveForVersion`)
and inserts (`InsertDraft`) in two statements. The three kinds of rollback look
their key up at the start (`KeyAccepted`) and write it at the end
(`RecordRollback`). Versions keep their draft's id, revision and content, which
the unique workflow hash stands for. A draft made from the canonical workflow may
in the code keep the id of an older draft inside its hash, so that publishing it
is refused where the model goes on: the model allows more. `moved` and `disturbed`
are histories.

### ChatThread

One thread. A stream id stands for its question, its answer and its job.
`streamMessage` stores the question, attaches files, opens the answer, starts the
job with its first event and calls the provider (`CallProvider`); then answer,
events and job are settled by three statements, in this order, on the way through
and in the catch alike; a stream that failed ends with an `error` and a
`message_done` that says failed (`WithFinalEvents`). The text is looked at after the
catch: without one, which is all the local provider's adapter ever streams, the request
throws there and leaves everything as it was (`LeaveWordless`). A client that resumes reads the job first and then the
events (`ResumeEvents`), the order that makes `ResumedIsWhole` true. Branches,
archiving and attachments are the handlers of the same names; the storage service
is asked between `completeUpload`'s read and its write.

### DocumentStore

One document. The number of a version is drawn by one statement and inserted by
another, as in the canvas; `RecordContent` looks at the status again in its
`where`, which is what `VersionsAdvance` rests on. `PutDocumentObject` is the
client's upload to a signed address, at any time. `VerifyObject` goes on when the
object is as announced, or when there is none and the request's token begins with
`dev.`; which tokens do is left open, since `auth.service.ts:100` accepts them in every
environment. A size or type the storage row leaves null is the client's, so that such
an object counts as matching. `ProcessVersion` is one
transaction and sets what it sets whatever document and version were.

### RuntimeSync

One automation. What a canvas holds is a source with its hash; the flow in
Activepieces holds the last source imported into it, or what somebody made of it
by hand (`edited`, `unsafe`), and every look at it is a call of its own. A sync takes
its report, binding, flow and drift check by separate steps (`SyncSource` to
`ReadBack`) and records them in one transaction (`PersistSyncSuccess`).
`startRun` is four steps. `CanvasDraft` and `CanvasVersions` say how drafts and
versions come about; here only what a sync reads of them is kept. Publishing an
automation that was disabled in an emergency leaves it unavailable, so that it
starts no run until it is provisioned again: it is left out.

### WorkflowGraph

The graph of one draft, with five kinds of block for the catalogue. Operations are
steps that leave the graph alone when they are refused. The searches
(`Ancestors`, `Visit`, `ReachedFrom`, `Place`) are written as the code makes them, one
round or visit at a time, and `Repeat` makes as many as are always enough: as many
rounds as there are blocks, twice as many steps of the search in depth. That this is
enough is part of what is proved. `Visit` has no call stack: a path of the blocks whose
call has not returned stands for it. The properties compare the searches with
`Followers`, the least set of blocks that edges lead into and not out of. Patches
(`UPDATE_NODE`, `UPDATE_EDGE`) are not checked by the code and reach graphs nothing
else does; `MaxPatches` bounds them. A block has a `kind`, its type, which validation and the
searches look at, and a `shape`, its block code and handles, which connections are
checked against: a patch may set either without the other, nothing else parts them.
`Openings` is where an inserted module may go: after the block the request names, before
one, between two, or at the start or end of the workflow; at the end the connection
that leads to the end is taken out, wherever it came from.

### AutomationBuilder

One intent; `Planned` stands for the validator. Approval, rejection, conversion and
runtime creation each load the blueprint in one statement and write in another.

### AiDrafts

One session. A message passes the budget (`SendMessage`), the key (`LookUpKey`),
writes the session and becomes a request; the provider's answer is charged and
kept by `persistDraftVersion`, here `InsertAiDraft` to `UpdateAiDraft`, one action per
statement. `Throws` is the catch of `sendMessage`: it covers what comes after the
request was stored, not what a policy blocks, and nothing of `createWorkflowPatch`.
Which fields a workflow calls for depends on the words of the message and is left
open, and so is what the validator and the policy say of a workflow that asks nothing
(`Verdicts`; with a question open the report has an error). A draft of `sendMessage` or
`updateDraftInputs` is then `clarification_required`, `validation_failed` or
`ready_for_review` (`StatusFor`, the code's `resolveDraftStatus`), one of `createDraft`
`saved` or `validation_failed` (`SavedAs`). `updateDraftInputs` starts from the session
as it read it.

In each module definitions commented "Faulty" are plausible slips of the code.
No specification uses them: they are there to show that the properties can fail.

## Runs

| Run | Question | Bounds |
|---|---|---|
| `delivery_one` | safety and the refinement, with handlers that may die | 2 handlers, 1 delivery, its task, 2 attempts: two sends overlap, approve and decide interleave |
| `delivery_two` | one delivery per key; tasks and deliveries keep together | 2 handlers, 2 deliveries, 2 tasks, 2 keys, no attempts |
| `delivery_toctou` | is the delivery approved when its attempt is opened? No | as `delivery_one` |
| `callbacks_steps` | callbacks, commands and deliveries on one run | 2 handlers, 2 steps, 2 callbacks, step events running, completed, failed, run event completed; 1 artifact, in behaviours without callbacks (`ArtifactsApart`), whose statements touch no column of theirs |
| `callbacks_overall` | is the run completed when its steps are? No | 2 handlers, 2 steps, one callback each, nobody dies |
| `canvas_edit` | editing, locking, restoring and patching one draft, and the refinement | 2 users, 2 requests, batches `<<o1>>` and `<<o1, o2, o2>>` that name no revision (which refuses fewer), a patch of one operation, at most 3 operations (`MaxOps`: the patch comes on top of `<<o1>>` or under it, the patch and the whole long batch in one draft are left to the theorems), 1 checkpoint name, restores at revision 0 (`MaxRev` = 1) |
| `canvas_restore` | does a restore overwrite only the draft it read? No | as `canvas_edit`, one batch |
| `versions` | publishing, versions, rollbacks, import | 1 user, 2 requests, 2 drafts, 2 versions, 1 rollback key, one batch whose content does not pass the gate, an import of the workflow the first draft starts from |
| `services` | the safety of the outbox, the chat, the documents, the sync, the graph, the builder and the AI gateway, under requests that end early | below |
| `eventually` | does everything that was begun come to its end? | outbox: 2 publishers, 2 events, crashes and rejected statements; chat: 1 stream, requests may die; delivery: 2 handlers, 1 of everything, nobody dies; callbacks: 1 step, 2 callbacks for it (they wait for its lock), users act; or 2 artifacts and no users |
| `sync_published` | does a run execute the version it is recorded with? No | 1 request at a time, 2 sources, 1 version, 1 edit, 2 reports |
| `graph_approved` | does every way to a delivery go through an approval? No | 4 blocks, 4 connections, no patches |

`services` and `eventually` put together modules that share no table. In a
behaviour one of them is in *focus* and the others stay as they began, so that the
state space is the sum of theirs, not the product, and nothing is lost: no step
of one reads what another writes. For the same reason the versions of the document and
the free blocks of the graph may be the same two values, so that one permutation is the
symmetry of both. The bounds of `services`:

| In focus | Bounds |
|---|---|
| outbox | 2 publishers, 3 events, batches of 2, 2 attempts: batches differ in size, leave a row for the other publisher, and the limit is reached |
| chat | 2 requests, 1 stream, 1 file, 1 branch: a stream is asked, cancelled and resumed by 2 requests at once |
| documents | 2 requests, 2 versions, 1 content (and requests without a hash) |
| sync | 2 requests, 2 sources, 1 version, 1 key of each kind, 1 edit of draft and of flow, 1 report |
| graph | 4 blocks, 2 of them a trigger and an end, 3 connections, 1 patch: all graphs of this size the operations can reach; three blocks are enough for every shape of cycle, by-pass and dead end |
| builder | 2 requests, 1 blueprint, 2 conversions |
| AI gateway | 2 requests, 2 AI requests, 1 draft of 2 versions, 1 key, 1 field, a budget of 1: once with requests that end early, once with drafts people make and update themselves and one AI request at most (`OneRequest`) |

Two handlers are enough for these questions: every hazard found in the code is
between a handler's read and its write, and one other handler, which may serve
several requests in turn, fills that gap. Ids are finite because each id is used
once. In the canvas modules `MaxDrafts`, `MaxVersions` and `MaxRev` bound what is
otherwise unbounded: two drafts and two versions, since every race is between one
draft or version and its successor, and a restore at the first revision, which is
enough to undo one batch and to meet another. The other bounds on what would grow
for ever are `MaxBranches`, `MaxEdits`, `MaxReports`, `MaxEdges`, `MaxPatches`,
`MaxConversions`, `MaxAiVersions`; each stops one action and no other. `CHECK_DEADLOCK
FALSE` is set because each system really may rest: everything recorded, nobody
calling.

Some properties say less than one would wish, because the code does less. A rollback
key and the budget and key of the AI gateway bind only requests that follow each other
(`KeyTakesEffectOnce`, `EntryChecksHold`): overlapping requests and requests cut short
do repeat an effect, and the histories `disturbed` and `crowded` leave them aside.
`MadeOfApproved` says that a blueprint something is made of had been approved, is sound
and is sealed; that it may have been rejected since the conversion looked is in the
model and no property forbids it. `RunsAreSynced` speaks of the flow as the start saw
it: an edit by hand after that look is executed.

What the five violations show (they are quoted in `PROJECT.json`):

1. `send` reads the delivery, checks that it is approved, and sets it to
   `sending` by a later statement whose `where` names only the id. A `cancel`, a
   `requestChanges` or a `retry` in between is overwritten, and the cancelled
   delivery goes out. What remains true, and is proved, is weaker: an approval was
   asked for and recorded at some time (`ApprovedBeforeDispatch`).
2. Two step events that complete the last two steps at once count, each, the
   other's step as not yet completed. Both leave the run `running`, and nothing
   looks again.
3. `restoreSnapshot` writes the draft it read some statements earlier, plus the
   snapshot's content, without looking at the revision. A batch committed in
   between is gone and is in no snapshot, although the API document promises a
   revision check.
4. A draft keeps its `current_version_id` while it is edited on, and a compile
   report takes the workflow from the draft and the version from that column. A
   version is published, its draft edited, compiled and synced (an overwrite does the
   same): the binding names the published version, and a run recorded with it
   executes what nobody published. What remains true is that the version had a
   successful sync and that nothing unsafe runs (`RunsAreSynced`).
5. Validation looks for an approval among the ancestors of a delivery. A way from
   the trigger to the delivery that goes round the approval is not noticed. The
   compiled flow, one row in which the approval comes first, and the delivery
   service's own approval make up for it.

Other behaviour met while modelling, each visible in the model and not the subject
of a run:

* runs and deliveries: an event left in `publishing` by a dead instance is never
  claimed again; a late callback or decision (`approvals.service.ts:972`) reopens a
  cancelled or failed run; step events are applied in the order of their arrival
  (`activepieces.service.ts:2735`), so that a delayed 'started' overwrites
  'completed'; a send whose answer was lost is repeated by `retry` and `send`;
  overlapping artifact uploads lose refs; a callback's receipt commits before its
  effect, so that a handler that dies in between leaves an event that is never
  applied and whose redelivery is refused;
* canvas: a refused operation drops the operations before it in its batch, which
  the answer lists as applied (`OperationRejected`); sent again, the refused
  operation itself is answered as applied, being a duplicate; a patch is marked
  applied whether or not its batch was accepted (`PatchMarkApplied`); a second
  checkpoint at one revision is answered as created and not stored
  (`PersistSnapshot`, `canvas-snapshot.service.ts:260`); an import overwrites the
  canonical workflow of the active version, which ADR 0007 says it does not
  (`ImportDraft`); between the two statements of `createDraftFromVersion`
  (`canvas-draft.service.ts:476`) the automation has no active draft; where the
  constraint described under `RowPerAutomation` survives, restoring a version
  archives the only draft and can insert no other;
* graph: after an approval nothing can be inserted from the catalogue; an insertion
  is checked against the block it names only, and may close a cycle or lead into a
  trigger, which validation reports later; `DELETE_NODE` of an approval is not
  refused where `UPDATE_NODE` is; an approval over an edge of data satisfies the
  checks for publishing and not those of the compiler; the compiled flow is one row,
  without branches;
* sync: a pull forgets that there was a conflict; of two syncs that overlap, or a
  sync and an edit by hand, what is read back is recorded as synced;
* chat: cancelling does not stop the provider, and a cancelled job is settled again;
  archiving a deleted thread brings it back; editing a message of an archived
  thread makes the branch and is then refused; files that were never uploaded can be
  attached; a completion that comes late sets an attached file back to uploaded; an
  answer without text, which the local provider's always is
  (`ai-provider.adapters.ts:683`), is refused after the catch
  (`chat-thread.service.ts:899`), so that answer and job stay `streaming` and `thinking`
  for ever and a client that resumes waits on (`LeaveWordless`);
* documents: a request with a token that begins with `dev.` completes a version of which
  no object was ever stored, on the size and type it reports itself
  (`documents.service.ts:2055`), and `auth.service.ts:44` and `:100-131` accept such
  tokens whatever the environment; of an object whose size or type storage does not
  know the client's word is taken too; completing a version of an archived or deleted document makes the
  document ready; completing without a hash erases the one recorded; the loser of
  two contents is answered as received; the version completed last becomes current;
  documents made from run artifacts stay as they are, since nothing processes them;
  `createPreview` of document generation inserts a row whose foreign key
  (000018:277-281) it cannot satisfy;
* builder: a cancelled intent comes back when a plan made before is stored; a
  conversion under way when a blueprint is rejected takes it out of the archive; two
  conversions at once make two drafts; the canvas draft is an artifact row only;
* AI gateway: the budget is asked before the key, so that repeating an answered
  message is refused once the budget is used up; a message without a session begins
  one each time it is sent, whatever its key; of a request that failed its key gives
  the error back as an ordinary answer; a failure after the draft was written marks
  the request as failed and leaves the draft; a message is answered
  `workflow_draft_ready` also where its draft is stored as `validation_failed`
  (`ai-gateway.service.ts:2155-2159`); a patch request that throws stays
  queued or completed without a final response; a message writes back the selection
  it read at the start, so that answers given in between are lost.

## Fairness

`FairSpec` asks for weak fairness of each publisher's tick and of each handler's
own next statement, and of nothing else; `ChatFairness` is the same for the chat. The
timer calls `tick` every four seconds for as long as the instance lives, `fetch`,
the AI provider and the database answer or fail, and a handler's `await`s come back;
a handler that waits for a row lock waits for another handler that is itself fair. No
caller is obliged to call. In `eventually` deliveries and callbacks run without
handlers that end early, because the code has no recovery from them, as said above.
The outbox runs with crashes and rejected statements: what can be said then is that
every event is settled or stranded, and that a stranded event holds nobody else up
(`EveryEventSettlesOrIsStranded`). An answer of the chat settles unless its request
died or the provider gave it no text (`AnswersSettle`): the first leaves it streaming
because nobody takes it up again, the second because the code throws past its own
catch. `DeliveriesSettle` and `CallbacksApplied` do not show what is lost when a
handler ends between two commits; that nothing untrue comes of it is shown by the
safety properties, whose runs or theorems have such handlers.

## Proofs

All theorems hold for every value of the constants that meets the modules'
assumptions; TLC checked the same formulas on the instances above first. The
assumptions say that bounds are numbers, that `None` and the like are no ids or
rows (`AiNullAssumption`, `BuilderAssumption`, `ChatAssumption`,
`DocumentAssumption`, `KeysAssumption`), that ids drawn in order are numbers, and
that the canvas may have a draft at all (`BoundsAssumption`).

The models have one statement per step, and a handler that has read something
goes on while others write. Each proof has therefore the same two parts: what a
handler may rely on at each of its statements, and why no step of another handler
takes that away. The properties themselves are never inductive.

**`LiveEventsProofs`.** `ExclusiveClaim`, `BoundedBroadcasts` and
`PublishedWasReceived` are not inductive: whether a claim is exclusive depends on
what the status of a claimed row can be, and the bound depends on how far the
publisher got with it. `OutboxInv` adds four parts: a publisher at rest holds
nothing and one with an answer holds its row (`InHand`); a row in hand is
`publishing`, or `published` while the publisher believes its update rejected
(`ClaimedIsPublishing`); a row claimed and not yet broadcast has an attempt to
spend (`AttemptInHand`); an accepted row was received (`AcceptedWasReceived`).
One lemma per action shows that it is preserved. Theorems: `OutboxTypeCorrect`,
`OutboxInvariant`, `ClaimsAreExclusive`, `BroadcastsAreBounded`,
`PublishedIsTrue`, and the last two together as `OutboxIsHonest`, the form the run
checks.

**`DeliveryProofs`.** Rows alone do not tell that nothing goes out unapproved:
handlers carry rows they read earlier. `DeliveryInv` has the types, what the rows
say (`RowsOK`: an approved guarded delivery has its approval recorded and was
endorsed; links point at existing rows; every attempt is of a cleared delivery)
and what each handler may rely on at each statement (`HandlerOK`: a sender past
its check has a cleared delivery, an approver an endorsed one, a settler an
attempt of its delivery). `Keeps` lists what no step takes away from another
handler (rows stay, `requires_approval` never changes, `approved_at` is never
cleared, tasks and attempts stay with their delivery); `OthersStayOK` concludes
that only the handler that moves needs an argument. Theorems: `DeliveryInvariant`,
`DeliveryTypeCorrect`, `NothingGoesOutUnapproved`, and `DeliveryImplementsGate`:
each step is an `Announce`, `Endorse` or `Start` of the gate or leaves what it
sees as it was.

`DeliveryInv` says that what a handler has in hand exists;
here it is shown to be its alone. `SendInv`: a sender's attempt is open and no other
sender has it, and was taken where the sender is about to record success; from this,
`EachSendSettlesItsAttempt`. `ClearInv`: an approver has the approval on the row
before it turns the run to delivering; with `SendInv`, `RowsStayTrue`. `GateInv`: a
gate's key is in no row and in no other gate's hands until its own delivery is
inserted, and its delivery has no task before its own. No unique index says so; the
receipts do, and so `GatesAreApart`. Each invariant has a predicate of quiet steps
(`SendQuiet`, `GateQuiet`), which covers the actions that have nothing to do with it.

**`RunCallbacksProofs`.** The types alone are not inductive: a handler reads the
payload of its callback, so that an invariant about receipts comes first
(`ReceiptInv`: a handler between receipt and commit has a callback that is received,
that was sent, and that no other handler has). It gives `TypesAreRight` and
`CallbacksAreAppliedOnce`. `SnapshotInv` adds that whatever is on a step, in the run's
copy, or in what a handler counted was said by the runtime or set by a retry, and
that all three are current while no step events and retries have overlapped:
`SnapshotsAreTrue`. A run that turns completed after a count has therefore every step
said to be completed, although the count may be of steps that have moved on:
`EndsHaveReasons`.

**`CanvasProofs`.** Three invariants for two modules. `CanvasInv`: wherever a text
is kept (drafts, snapshots, the locals of a restore) its operations are in the log,
none is there twice that no batch names twice, and the patch's first operation
follows the text the patch was made for; a request carries only such texts, and the
log never shrinks, so they stay so. It gives `OperationsApplyOnce`, `LogsMatchDrafts`
and `PatchesLandOnTheirBase`. `NothingIsTakenLate` needs the types,
and that a draft has one lock. `VersionsInv` relates the numbers and the
requests on their way to publish: `VersionsAreNumbered`, `ActiveHasPassed` and, because
the versions are a sequence only if a number is used once, `VersionsAreTyped`.
`KeysGood` follows a rollback's key from its look-up to the ledger: `KeysTakeEffectOnce`.
`NewOps`, what a batch adds to a draft, is a recursive function; what it returns is
shown by induction over sets of numbers, from the library's `WFMin`. `PatchOnlyOnItsBase`
asks that the patch's first operation has an id of its own (`FirstIsOwn`), which the
planner sees to and the instance meets.

`CanvasImplementsShared` maps every step to one of `SharedDraft`. Three facts carry it:
there is one draft at most, and opening it leaves its text (`OpenedText`); an operation
has a row in the log exactly when it was decided, so that `NewOps` is what is left of a
batch, all of it and in its order (`NewOpsEmbed`, `DecidedOps`); and a step adds at most
the draft's own text to what is kept, since one request moves at a time (`MoveKeeps`).

**`ServiceProofs`.** Documents: a version that a request has in hand exists and has
come as far as the request's check saw, because statuses only advance; one on its way
to be processed had its object found as announced, or vouched for; an id that was
drawn has one owner until it is inserted. Theorems `ReadyIsNeverTooEarly` and, as an
action property, `VersionsNeverGoBack`. Chat: a stream is in one request's hands;
after a statement of its settlement the row it wrote agrees with the outcome; a client
that read a settled job reads a stream nobody will touch again. Theorems
`OverMeansAllOfIt` and `DeletedForGood`. Sync: `SyncInv`: a binding, and the version a start has checked, is of
a version some sync pushed; the content a start found safe is what its run executes; the
flow exists where a request relies on it. The look-up of a run's key decides nothing:
the unique constraint on it does, in the insert. `OneRunPerKey`, `RunsAreSyncedAlways`.

**`DraftingProofs`.** Builder: an approved blueprint is sealed, and what is sealed stays
sealed whatever its status becomes, so that a conversion may go on after a rejection:
`OnlyApprovedIsMade`. AI gateway, three invariants over the same steps. `AnswersInv`: an
AI request has one holder, versions name requests that exist, and the answer a holder
is about to record is true of the version it wrote (`AnswersAreTrue`). `DraftsInv`: an
undisturbed draft has one writer at most, is as far written as that writer has come, and
agrees with its last version when there is none (`DraftsAreWhole`): its writer has the
questions, the verdict and the status that belong together from its start, and writes
the first two into the version and the last into the draft. `EntriesInv`: as long as requests follow each
other, what is charged stays below the budget until the request on its way in is charged,
and its key is not used yet (`ChecksAreEnough`). `AnswersStep` says once what a step must
leave alone for the locals of the others to stay true.

**`WorkflowGraphProofs`.** What the hand-written searches find, for graphs of any
size. The prover has no induction over data, so that everything said of a repeated
step rests on `RepeatInd`: what holds first and is kept by a step holds at the end,
from the least number at which it would not. The argument has four parts.

* *Rounds.* A growing set of blocks that still grows has more elements each round, so
  after as many rounds as there are blocks it is closed, and being only what it has to
  be it is the least closed set (`RepeatCloses`). So `ReachedFrom`, `Ancestors` and
  `Followers` are least closed sets, and the backward search of `hasApprovalBefore`
  agrees with the forward one (`AncestorsFollow`, `ReachedFollow`).
* *The search in depth.* Between two steps (`Searching`) each block of the path leads to
  the next, blocks done with lead only to such blocks and are on no cycle. `Effort`, twice
  the blocks done with and the length of the path, grows with every step that has
  something to do, so the bound is never too small: `HasCycleIsRight`.
* *The compiler's order.* `Compiling` relates queue, counts and places: a count is the
  number of connections still waited for, the queue has the blocks that wait for none,
  connections to placed blocks go forwards. Blocks left over at the end would each be led
  to by another of them, and among finitely many such blocks one is on a cycle
  (`LedToWithin`), which the check before publishing would have found (`InOrder`).
* *The operations.* `GraphInv` adds to the types that every connection has a block at
  its source: no patch changes that, although a patch can leave its target without one.
  `GraphTypeOK` and the three checks follow from it: `GraphTypes`, `GraphChecks`.

**`MCServicesProofs`.** The specification of `services` as a whole. `ServicesInv` is not
the conjunction of the invariants above: these speak of the requests too, and a request of
the chat means nothing to the documents. The service in focus has its whole invariant,
the others what it says of their tables, and `StepOfServices` shows that a step of the one
leaves the tables of the others. With it every property of the run is a theorem about the
specification the run checks: `ServicesTypes`, `GraphChecksRight`, `GraphsInOrder`,
`ServicesKeepPromises`, `DeletedBesideOthers`, `AdvancesBesideOthers`.

### What the attempts found

* An operation that a batch names twice, or that another draft of the automation has
  logged, is applied without a record of its own. `InsertRecords` did not say so, and
  the induction for `LogMatchesDraft` could not be completed; it now follows `on
  conflict do nothing`, the properties say `Repeated`, and the instance of
  `canvas_edit` has a batch that repeats an operation.
* The types of `RunCallbacks` and of `CanvasVersions` are not inductive: the first
  needs that payloads were sent, the second that numbers are in order and that the
  targets of rollbacks exist.
* `EntryChecksHold` rests on two facts that are not visible in its statement: the
  row of a request has the request's kind, and the ids drawn so far have a bound, without
  which there is no last request with a key.
* Overlapping guards of a `CASE` (`RunAfterStep`, `DecideRun`) are decided by order in the
  code and by `CHOOSE` in a proof. They are nested conditions now.
* The search in depth begins at blocks and goes wherever connections lead. That it finds
  no cycle beyond them needs a fact the types do not have: every connection has a block
  at its source, patched or not. Patches of a target are unchecked, so that the same is
  not true of targets.

### Only model-checked

Liveness, which this prover does not reach: `DeliveriesSettle`, `CallbacksApplied`,
`ArtifactsArrive`, `AnswersSettle`, `EveryEventSettlesOrIsStranded`. Every invariant and
action property of the passing runs is a theorem. What the five violations refute has
no theorem, of course; what remains true instead has one, as said with each.

## Plan

In this order:

1. An abstract run that `RunCallbacks` implements, as `CanvasDraft` does `SharedDraft`;
   `SnapshotInv` has most of what the proofs of the steps need.
2. A composition of `RunCallbacks` with `Delivery` in place of the environment actions:
   the two are about the same run's status.
3. `ensureTaskForGeneration` and document generation next to `Delivery`; the rest of
   `startRun` (inputs stored afterwards, simulation of the run).
4. The dashboard's cursor over live events, whose sequence numbers commit out of
   order (`live-events.service.ts:37`).

## Not modelled

Wording, hashing, recipients, templates, search, ranking and every other matter
of data; the translation of blocks into steps of a flow; the choice of AI providers
and routes; authorization (a handler starts with a caller who may call it); row-level
security policies; metrics and audit; the web client and the tooling. A large part
of the repository's lines is of these kinds: controllers, contracts, API clients
and React components carry requests and data, and keep no state that two actors
share. Each has its row in `PROJECT.json`.
