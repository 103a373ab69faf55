----------------------------- MODULE RunCallbacks -----------------------------
(***************************************************************************)
(* The callbacks of the workflow runtime and the run commands, for one     *)
(* run: its row in app.workflow_runs, its rows in app.workflow_run_steps,  *)
(* the receipts in app.activepieces_callback_receipts, and the handlers of *)
(* ActivepiecesService and RunCommandService that read and write them.     *)
(*                                                                         *)
(* Statements outside DatabaseService.transaction commit by themselves.    *)
(* Transactions run at READ COMMITTED: applyStepEvent locks its step's row *)
(* and reads the other rows as committed ("count"), and everything it      *)
(* writes appears later, at its commit ("commit").                         *)
(*                                                                         *)
(* Left out: rows only appended (step events, audit, live events), texts   *)
(* and errors, current_step, approval_state, and the status column of      *)
(* activepieces_run_bindings, which no handler here reads back.            *)
(***************************************************************************)
EXTENDS Naturals

CONSTANTS Handlers,   \* requests being served at the same time
          Steps,      \* step codes of the run
          Callbacks,  \* idempotency keys of step and run events
          Artifacts,  \* ids of artifacts the runtime hands in
          StepEvents, \* event types of step events the runtime sends
          RunEvents,  \* event types of run events the runtime sends
          None,       \* SQL null
          CanFail,    \* whether handlers may end between two statements
          Commands    \* whether users and the delivery modules act as well

EventTypes == {"queued", "running", "completed", "failed", "waiting_approval"}

ASSUME StepsAssumption == Steps # {} /\ None \notin Steps \cup Callbacks \cup Artifacts
ASSUME EventsAssumption == StepEvents \subseteq EventTypes /\ RunEvents \subseteq EventTypes
ASSUME SwitchesAssumption == CanFail \in BOOLEAN /\ Commands \in BOOLEAN

VARIABLES run,            \* status of the run, and whether finished_at is set
          step,           \* workflow_run_steps.status
          step_status,    \* the statuses as copied to workflow_runs.step_status
          receipt,        \* status of the callbacks' receipts
          payload,        \* what each callback says, once sent
          documents,      \* artifacts stored by the documents module
          artifact_refs,  \* workflow_runs.artifact_refs
          ingested,       \* artifacts with a receipt
          pc,             \* the next statement of each handler
          req,            \* the handler's local variables
          applied,        \* how often each callback changed the run (history)
          retried,        \* steps ever sent back by retryStep (history)
          overlap,        \* kinds of handlers that ever overlapped (history)
          delivered       \* whether a delivery completed the run (history)

rows == <<run, step, step_status, receipt, payload, documents, artifact_refs, ingested>>
history == <<applied, retried, overlap, delivered>>
vars == <<rows, pc, req, history>>

-----------------------------------------------------------------------------
RunStatus == EventTypes \cup {"waiting_delivery_approval", "delivering", "cancel_requested",
                              "cancelled", "retrying"}
StepStatus == EventTypes \cup {"pending"}
Payloads == [step : Steps, type : StepEvents] \cup [step : {None}, type : RunEvents]
PCs == {"idle", "count", "commit", "run event", "cancel request", "cancel finish",
        "retry run", "retry running", "read refs", "write refs", "artifact receipt"}
Locals == [callback : Callbacks \cup {None}, seen : [Steps -> StepStatus],
           artifact : Artifacts \cup {None}, refs : SUBSET Artifacts]

Unread == [s \in Steps |-> "queued"]
NoLocals == [callback |-> None, seen |-> Unread, artifact |-> None, refs |-> {}]

TypeOK ==
  /\ run \in [status : RunStatus, finished : BOOLEAN]
  /\ step \in [Steps -> StepStatus] /\ step_status \in [Steps -> StepStatus]
  /\ receipt \in [Callbacks -> {"absent", "received", "processed"}]
  /\ payload \in [Callbacks -> Payloads \cup {None}]
  /\ documents \subseteq Artifacts /\ artifact_refs \subseteq Artifacts
  /\ ingested \subseteq Artifacts
  /\ pc \in [Handlers -> PCs] /\ req \in [Handlers -> Locals]
  /\ applied \in [Callbacks -> Nat]
  /\ retried \subseteq Steps /\ overlap \subseteq {"steps", "artifacts"}
  /\ delivered \in BOOLEAN

Init ==
  /\ run = [status |-> "queued", finished |-> FALSE]
  /\ step = [s \in Steps |-> "queued"] /\ step_status = [s \in Steps |-> "queued"]
  /\ receipt = [c \in Callbacks |-> "absent"]
  /\ payload = [c \in Callbacks |-> None]
  /\ documents = {} /\ artifact_refs = {} /\ ingested = {}
  /\ pc = [h \in Handlers |-> "idle"] /\ req = [h \in Handlers |-> NoLocals]
  /\ applied = [c \in Callbacks |-> 0]
  /\ retried = {} /\ overlap = {} /\ delivered = FALSE

-----------------------------------------------------------------------------
Goto(h, next) == pc' = [pc EXCEPT ![h] = next]
Return(h) == Goto(h, "idle") /\ req' = [req EXCEPT ![h] = NoLocals]

(* h joins other handlers already between the steps of busy.               *)
Overlapping(h, busy) == \E g \in Handlers \ {h} : pc[g] \in busy
Note(h, kind, busy) == overlap' = IF Overlapping(h, busy) THEN overlap \cup {kind} ELSE overlap

SteppingPCs == {"commit", "retry run", "retry running"}
Locked(h, s) ==
  \E g \in Handlers \ {h} : pc[g] = "commit" /\ payload[req[g].callback].step = s

(* Faulty: the receipt key is not unique.                                   *)
ReceiveAgain(h, c, message) ==
  /\ pc[h] = "idle"
  /\ receipt' = [receipt EXCEPT ![c] = "received"]
  /\ payload' = [payload EXCEPT ![c] = message]
  /\ req' = [req EXCEPT ![h] = [NoLocals EXCEPT !.callback = c]]
  /\ Goto(h, IF message.step = None THEN "run event" ELSE "count")
  /\ UNCHANGED <<run, step, step_status, documents, artifact_refs, ingested, history>>

(***************************************************************************)
(* handleStepEvent and handleRunEvent: the receipt of an unseen key is a   *)
(* statement of its own (a key seen before ends the request with 409).     *)
(***************************************************************************)
Receive(h, c, message) ==
  /\ pc[h] = "idle"
  /\ receipt[c] = "absent"
  /\ receipt' = [receipt EXCEPT ![c] = "received"]
  /\ payload' = [payload EXCEPT ![c] = message]
  /\ req' = [req EXCEPT ![h] = [NoLocals EXCEPT !.callback = c]]
  /\ Goto(h, IF message.step = None THEN "run event" ELSE "count")
  /\ UNCHANGED <<run, step, step_status, documents, artifact_refs, ingested, history>>

(* Faulty: the steps are read before the step's own update.                 *)
CountStepsFirst(h) ==
  /\ pc[h] = "count"
  /\ ~Locked(h, payload[req[h].callback].step)
  /\ req' = [req EXCEPT ![h].seen = step]
  /\ Goto(h, "commit")
  /\ Note(h, "steps", SteppingPCs)
  /\ UNCHANGED <<rows, applied, retried, delivered>>

(* applyStepEvent up to its read of the run's steps.                       *)
CountSteps(h) ==
  /\ pc[h] = "count"
  /\ LET message == payload[req[h].callback]
     IN /\ ~Locked(h, message.step)
        /\ req' = [req EXCEPT ![h].seen = [step EXCEPT ![message.step] = message.type]]
  /\ Goto(h, "commit")
  /\ Note(h, "steps", SteppingPCs)
  /\ UNCHANGED <<rows, applied, retried, delivered>>

(* Faulty: one completed step is enough.                                    *)
SomeCompleted(statuses) == \E s \in Steps : statuses[s] = "completed"

AllCompleted(statuses) == \A s \in Steps : statuses[s] = "completed"

RunAfterStep(type, seen) ==
  [status |-> IF type \in {"waiting_approval", "failed"} THEN type
              ELSE IF AllCompleted(seen) THEN "completed"
              ELSE IF type \in {"running", "completed"} THEN "running" ELSE run.status,
   finished |-> run.finished \/ type = "failed" \/ AllCompleted(seen)]

(* Faulty: the receipt is not marked.                                       *)
ProcessedUnmarked(c) ==
  /\ UNCHANGED receipt
  /\ applied' = [applied EXCEPT ![c] = @ + 1]

Processed(c) ==
  /\ receipt' = [receipt EXCEPT ![c] = "processed"]
  /\ applied' = [applied EXCEPT ![c] = @ + 1]

CommitStep(h) ==
  /\ pc[h] = "commit"
  /\ LET message == payload[req[h].callback]
     IN /\ step' = [step EXCEPT ![message.step] = message.type]
        /\ step_status' = req[h].seen
        /\ run' = RunAfterStep(message.type, req[h].seen)
  /\ Processed(req[h].callback)
  /\ Return(h)
  /\ UNCHANGED <<payload, documents, artifact_refs, ingested, retried, overlap, delivered>>

(* applyRunEvent: one transaction that reads nothing.                      *)
ApplyRunEvent(h) ==
  /\ pc[h] = "run event"
  /\ LET type == payload[req[h].callback].type
     IN run' = [status |-> type, finished |-> run.finished \/ type \in {"completed", "failed"}]
  /\ Processed(req[h].callback)
  /\ Return(h)
  /\ UNCHANGED <<step, step_status, payload, documents, artifact_refs, ingested,
                 retried, overlap, delivered>>

(***************************************************************************)
(* ingestRuntimeArtifact: the document, then appendArtifactRef (read the   *)
(* list, write the list), then the receipt.                                *)
(***************************************************************************)
StoreArtifact(h, a) ==
  /\ pc[h] = "idle"
  /\ a \notin documents
  /\ documents' = documents \cup {a}
  /\ req' = [req EXCEPT ![h] = [NoLocals EXCEPT !.artifact = a]]
  /\ Goto(h, "read refs")
  /\ UNCHANGED <<run, step, step_status, receipt, payload, artifact_refs, ingested, history>>

ReadRefs(h) ==
  /\ pc[h] = "read refs"
  /\ req' = [req EXCEPT ![h].refs = artifact_refs]
  /\ Goto(h, "write refs")
  /\ Note(h, "artifacts", {"write refs"})
  /\ UNCHANGED <<rows, applied, retried, delivered>>

(* Faulty: the list is replaced.                                           *)
WriteRefsAlone(h) ==
  /\ pc[h] = "write refs"
  /\ artifact_refs' = {req[h].artifact}
  /\ Goto(h, "artifact receipt")
  /\ UNCHANGED <<run, step, step_status, receipt, payload, documents, ingested, req, history>>

WriteRefs(h) ==
  /\ pc[h] = "write refs"
  /\ artifact_refs' = req[h].refs \cup {req[h].artifact}
  /\ Goto(h, "artifact receipt")
  /\ UNCHANGED <<run, step, step_status, receipt, payload, documents, ingested, req, history>>

ArtifactReceipt(h) ==
  /\ pc[h] = "artifact receipt"
  /\ ingested' = ingested \cup {req[h].artifact}
  /\ Return(h)
  /\ UNCHANGED <<run, step, step_status, receipt, payload, documents, artifact_refs, history>>

(***************************************************************************)
(* RunCommandService.cancelRun: the allowed actions are computed from the  *)
(* run as read here; both updates that follow are unguarded.               *)
(***************************************************************************)
Cancellable == {"running", "waiting_approval", "waiting_delivery_approval", "delivering"}

SetRun(status) == run' = [run EXCEPT !.status = status]

CancelRun(h) ==
  /\ pc[h] = "idle"
  /\ run.status \in Cancellable
  /\ Goto(h, "cancel request")
  /\ UNCHANGED <<rows, req, history>>

CancelRequest(h) ==
  /\ pc[h] = "cancel request"
  /\ SetRun("cancel_requested")
  /\ Goto(h, "cancel finish")
  /\ UNCHANGED <<step, step_status, receipt, payload, documents, artifact_refs, ingested,
                 req, history>>

CancelFinish(h) ==
  /\ pc[h] = "cancel finish"
  /\ run' = [status |-> "cancelled", finished |-> TRUE]
  /\ Return(h)
  /\ UNCHANGED <<step, step_status, receipt, payload, documents, artifact_refs, ingested,
                 history>>

(* RunCommandService.retryStep: the step's row, then the run's row twice.  *)
RetryStep(h, s) ==
  /\ pc[h] = "idle"
  /\ ~Locked(h, s)
  /\ step' = [step EXCEPT ![s] = "pending"]
  /\ retried' = retried \cup {s}
  /\ Goto(h, "retry run")
  /\ Note(h, "steps", SteppingPCs)
  /\ UNCHANGED <<run, step_status, receipt, payload, documents, artifact_refs, ingested,
                 req, applied, delivered>>

RetryRun(h) ==
  /\ pc[h] = "retry run"
  /\ SetRun("retrying")
  /\ Goto(h, "retry running")
  /\ UNCHANGED <<step, step_status, receipt, payload, documents, artifact_refs, ingested,
                 req, history>>

(* Faulty: a status the table's check constraint does not list.             *)
RetryRunningMisspelt(h) ==
  /\ pc[h] = "retry running"
  /\ SetRun("resumed")
  /\ Return(h)
  /\ UNCHANGED <<step, step_status, receipt, payload, documents, artifact_refs, ingested,
                 history>>

RetryRunning(h) ==
  /\ pc[h] = "retry running"
  /\ SetRun("running")
  /\ Return(h)
  /\ UNCHANGED <<step, step_status, receipt, payload, documents, artifact_refs, ingested,
                 history>>

-----------------------------------------------------------------------------
(* What the approvals and delivery modules do to the run's row (they are   *)
(* modelled in Delivery.tla): gates and decisions move its status,         *)
DecideElsewhere(status) ==
  /\ SetRun(status)
  /\ UNCHANGED <<step, step_status, receipt, payload, documents, artifact_refs, ingested,
                 pc, req, history>>

(* a new delivery request also clears finished_at,                         *)
GateElsewhere(status) ==
  /\ run' = [status |-> status, finished |-> FALSE]
  /\ UNCHANGED <<step, step_status, receipt, payload, documents, artifact_refs, ingested,
                 pc, req, history>>

(* and a delivery that ends finishes a run in flight.                      *)
DeliveryEndsElsewhere(status) ==
  /\ run.status \in {"delivering", "waiting_delivery_approval", "running"}
  /\ run' = [status |-> status, finished |-> TRUE]
  /\ delivered' = (delivered \/ status = "completed")
  /\ UNCHANGED <<step, step_status, receipt, payload, documents, artifact_refs, ingested,
                 pc, req, applied, retried, overlap>>

(* The handler ends between two statements; an open transaction rolls back. *)
HandlerFails(h) ==
  /\ CanFail
  /\ pc[h] # "idle"
  /\ Return(h)
  /\ UNCHANGED <<rows, history>>

-----------------------------------------------------------------------------
Continue(h) ==
  \/ CountSteps(h) \/ CommitStep(h) \/ ApplyRunEvent(h)
  \/ ReadRefs(h) \/ WriteRefs(h) \/ ArtifactReceipt(h)
  \/ CancelRequest(h) \/ CancelFinish(h) \/ RetryRun(h) \/ RetryRunning(h)

RuntimeCalls(h) ==
  \/ \E c \in Callbacks, message \in Payloads : Receive(h, c, message)
  \/ \E a \in Artifacts : StoreArtifact(h, a)

UsersAct ==
  /\ Commands
  /\ \/ \E h \in Handlers : CancelRun(h) \/ \E s \in Steps : RetryStep(h, s)
     \/ \E status \in {"waiting_approval", "waiting_delivery_approval", "delivering",
                       "running", "failed"} : DecideElsewhere(status)
     \/ \E status \in {"waiting_delivery_approval", "delivering"} : GateElsewhere(status)
     \/ \E status \in {"completed", "failed"} : DeliveryEndsElsewhere(status)

Next ==
  \/ \E h \in Handlers : RuntimeCalls(h) \/ Continue(h) \/ HandlerFails(h)
  \/ UsersAct

Spec == Init /\ [][Next]_vars

(* Node runs every handler on; a handler waiting for a row lock gets it    *)
(* when its holder commits.  Nobody is obliged to call.                    *)
FairSpec == Spec /\ \A h \in Handlers : WF_vars(Continue(h))

-----------------------------------------------------------------------------
Said(c, s, type) == receipt[c] = "processed" /\ payload[c] = [step |-> s, type |-> type]

(* A callback changes the run exactly once, in the transaction that marks  *)
(* its receipt processed: neither deliveries of the same key that overlap  *)
(* nor handlers that die in between apply it twice or half.                *)
AppliedOnce ==
  \A c \in Callbacks : applied[c] = IF receipt[c] = "processed" THEN 1 ELSE 0

(* A run reads "completed" only if the runtime said so, or reported every  *)
(* step completed, or a delivery completed it; and every completed or      *)
(* cancelled run has its finished_at.                                      *)
EndIsBacked ==
  /\ run.status = "completed" =>
       \/ delivered
       \/ \E c \in Callbacks : Said(c, None, "completed")
       \/ \A s \in Steps : \E c \in Callbacks : Said(c, s, "completed")
  /\ run.status \in {"completed", "cancelled"} => run.finished

(* The copy of the steps on the run's row never shows what no committed    *)
(* event or retry said, whatever transactions were open when it was read.  *)
SnapshotWasSaid ==
  \A s \in Steps :
    \/ step_status[s] = "queued"
    \/ step_status[s] = "pending" /\ s \in retried
    \/ \E c \in Callbacks : Said(c, s, step_status[s])

(* As long as step events and retries never overlapped, the copy is exact  *)
(* for every step that was not retried.                                    *)
SnapshotCurrent ==
  "steps" \notin overlap => \A s \in Steps \ retried : step_status[s] = step[s]

(* Together: what clients read off the run's row is true of its steps.     *)
SnapshotIsTrue == SnapshotWasSaid /\ SnapshotCurrent

(* While no handler ends early, every received callback is applied, also   *)
(* when handlers wait for each other's row locks;                          *)
CallbacksApplied == \A c \in Callbacks : receipt[c] = "received" ~> receipt[c] = "processed"

(* and every stored artifact gets its receipt and comes to be in the run's *)
(* list for good, unless two uploads overlapped between reading the list   *)
(* and writing it.                                                         *)
ArtifactsIngested ==
  \A a \in Artifacts :
    a \in documents ~> [](a \in ingested /\ (a \in artifact_refs \/ "artifacts" \in overlap))

(* "Callbacks update the steps and the overall status": with no handler at *)
(* work, a run whose steps are all completed is completed.                 *)
StatusFollowsSteps ==
  (\A h \in Handlers : pc[h] = "idle") /\ AllCompleted(step) => run.status = "completed"
=============================================================================
