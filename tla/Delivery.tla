------------------------------- MODULE Delivery -------------------------------
(***************************************************************************)
(* External delivery of a run's result, with the approvals in front of it: *)
(* the rows of app.delivery_requests, app.delivery_attempts and            *)
(* app.approval_tasks that belong to one workflow run, the status of   *)
(* that run's row, and the request handlers of DeliveryService and         *)
(* ApprovalsService that read and write them.                              *)
(*                                                                         *)
(* A statement outside DatabaseService.transaction commits by itself, so a *)
(* handler is a sequence of steps, one per statement (or transaction), and *)
(* handlers interleave between them.  A handler may also end between any   *)
(* two statements: the process dies, or a statement throws.                *)
(*                                                                         *)
(* Left out, as no handler here reads it back: rows that are only appended *)
(* (events, decisions, audit, notifications, live events), texts, hashes   *)
(* and recipients, the attempt number, and the run's approval_state,       *)
(* error_code and finished_at columns.                                     *)
(***************************************************************************)
EXTENDS Naturals, FiniteSets

CONSTANTS Handlers,    \* requests being served at the same time
          Deliveries,  \* ids of delivery requests
          Tasks,       \* ids of approval tasks
          Attempts,    \* ids of delivery attempts
          Keys,        \* idempotency keys of gate callbacks
          None,        \* SQL null
          CanFail      \* whether handlers may end between two statements

ASSUME NoneAssumption == None \notin Deliveries \cup Tasks \cup Attempts \cup Keys
ASSUME CanFailAssumption == CanFail \in BOOLEAN

VARIABLES delivery,  \* app.delivery_requests
          task,      \* app.approval_tasks
          attempt,   \* app.delivery_attempts
          run,       \* workflow_runs.status of the run
          receipts,  \* receipt keys of app.activepieces_callback_receipts
          pc,        \* the next statement of each handler
          req,       \* the handler's local variables
          accepted,  \* attempts the receiving webhook took
          endorsed   \* deliveries some person asked to approve (history)

rows == <<delivery, task, attempt, run, receipts>>
vars == <<delivery, task, attempt, run, receipts, pc, req, accepted, endorsed>>

-----------------------------------------------------------------------------
DeliveryStatus == {"absent", "draft", "waiting_approval", "approved", "sending",
                   "sent", "failed_retryable", "cancelled"}
TaskStatus == {"absent", "pending", "approved", "rejected", "changes_requested"}
AttemptStatus == {"absent", "sending", "sent", "failed_retryable"}
RunStatus == {"running", "waiting_approval", "waiting_delivery_approval", "delivering",
              "completed", "failed", "cancelled"}
Decisions == {"approved", "rejected"}
Steps == {"idle", "approve task", "approve row", "approve run",
          "decide run", "decide row", "changes run", "changes row",
          "send attempt", "send dispatch", "send success", "send failure",
          "gate lookup", "gate row", "gate task", "gate run", "gate link"}

DeliveryRow == [status : DeliveryStatus, requires_approval : BOOLEAN,
                approval_task_id : Tasks \cup {None}, approved_at : BOOLEAN,
                sent_at : BOOLEAN, key : Keys \cup {None}]
TaskRow == [status : TaskStatus, delivery_request_id : Deliveries \cup {None}]
AttemptRow == [status : AttemptStatus, delivery_request_id : Deliveries \cup {None}]
Locals == [delivery : Deliveries \cup {None}, task : Tasks \cup {None},
           attempt : Attempts \cup {None}, key : Keys \cup {None},
           decision : Decisions, requires : BOOLEAN, forDelivery : BOOLEAN, nested : BOOLEAN]

NoLocals == [delivery |-> None, task |-> None, attempt |-> None, key |-> None,
             decision |-> "rejected", requires |-> FALSE, forDelivery |-> FALSE,
             nested |-> FALSE]

TypeOK ==
  /\ delivery \in [Deliveries -> DeliveryRow]
  /\ task \in [Tasks -> TaskRow]
  /\ attempt \in [Attempts -> AttemptRow]
  /\ run \in RunStatus
  /\ receipts \subseteq Keys
  /\ pc \in [Handlers -> Steps]
  /\ req \in [Handlers -> Locals]
  /\ accepted \subseteq Attempts
  /\ endorsed \subseteq Deliveries

Init ==
  /\ delivery = [d \in Deliveries |->
                   [status |-> "absent", requires_approval |-> FALSE,
                    approval_task_id |-> None, approved_at |-> FALSE,
                    sent_at |-> FALSE, key |-> None]]
  /\ task = [t \in Tasks |-> [status |-> "absent", delivery_request_id |-> None]]
  /\ attempt = [a \in Attempts |-> [status |-> "absent", delivery_request_id |-> None]]
  /\ run = "running"
  /\ receipts = {}
  /\ pc = [h \in Handlers |-> "idle"]
  /\ req = [h \in Handlers |-> NoLocals]
  /\ accepted = {}
  /\ endorsed = {}

-----------------------------------------------------------------------------
Goto(h, step) == pc' = [pc EXCEPT ![h] = step]
Return(h) == Goto(h, "idle") /\ req' = [req EXCEPT ![h] = NoLocals]

Exists(d) == delivery[d].status # "absent"

(***************************************************************************)
(* DeliveryService.approve: the row is read; a task still in front of it   *)
(* is approved first; then the row is approved whatever its status, and a  *)
(* run that waits for the delivery's approval moves on.                    *)
(***************************************************************************)
Approve(h, d) ==
  /\ pc[h] = "idle"
  /\ Exists(d)
  /\ endorsed' = endorsed \cup {d}
  /\ LET t == delivery[d].approval_task_id
         throughTask == t # None /\ delivery[d].status = "waiting_approval"
     IN /\ req' = [req EXCEPT ![h] = [NoLocals EXCEPT !.delivery = d, !.task = t]]
        /\ Goto(h, IF throughTask THEN "approve task" ELSE "approve row")
  /\ UNCHANGED <<rows, accepted>>

ApproveRow(h) ==
  /\ pc[h] = "approve row"
  /\ delivery' = [delivery EXCEPT ![req[h].delivery].status = "approved",
                                  ![req[h].delivery].approved_at = TRUE]
  /\ Goto(h, "approve run")
  /\ UNCHANGED <<task, attempt, run, receipts, req, accepted, endorsed>>

ApproveRun(h) ==
  /\ pc[h] = "approve run"
  /\ run' = IF run = "waiting_delivery_approval" THEN "delivering" ELSE run
  /\ Return(h)
  /\ UNCHANGED <<delivery, task, attempt, receipts, accepted, endorsed>>

(***************************************************************************)
(* ApprovalsService.decideTask, from its own route or inside approve: the  *)
(* task row, then the run row, then the delivery the task is about.        *)
(***************************************************************************)
SettleTask(h, t, decision, nested) ==
  /\ task' = [task EXCEPT ![t].status = decision]
  /\ req' = [req EXCEPT ![h] = [NoLocals EXCEPT !.delivery = task[t].delivery_request_id,
                                                !.task = t, !.decision = decision,
                                                !.nested = nested]]
  /\ Goto(h, "decide run")

DecideTask(h, t, decision) ==
  /\ pc[h] = "idle"
  /\ task[t].status # "absent"
  /\ SettleTask(h, t, decision, FALSE)
  /\ endorsed' = IF decision = "approved"
                   THEN endorsed \cup ({task[t].delivery_request_id} \ {None}) ELSE endorsed
  /\ UNCHANGED <<delivery, attempt, run, receipts, accepted>>

ApproveTask(h) ==
  /\ pc[h] = "approve task"
  /\ SettleTask(h, req[h].task, "approved", TRUE)
  /\ UNCHANGED <<delivery, attempt, run, receipts, accepted, endorsed>>

DecideRun(h) ==
  /\ pc[h] = "decide run"
  /\ run' = IF req[h].decision = "rejected" THEN "failed"
            ELSE IF req[h].delivery # None THEN "waiting_delivery_approval" ELSE "running"
  /\ IF req[h].delivery # None
       THEN Goto(h, "decide row") /\ UNCHANGED req
       ELSE Return(h)
  /\ UNCHANGED <<delivery, task, attempt, receipts, accepted, endorsed>>

DecideRow(h) ==
  /\ pc[h] = "decide row"
  /\ LET d == req[h].delivery
     IN delivery' = IF req[h].decision = "approved"
          THEN [delivery EXCEPT ![d].status = "approved", ![d].approved_at = TRUE]
          ELSE [delivery EXCEPT ![d].status = "cancelled"]
  /\ IF req[h].nested
       THEN Goto(h, "approve row") /\ UNCHANGED req
       ELSE Return(h)
  /\ UNCHANGED <<task, attempt, run, receipts, accepted, endorsed>>

(* ApprovalsService.requestChanges.                                        *)
RequestChanges(h, t) ==
  /\ pc[h] = "idle"
  /\ task[t].status # "absent"
  /\ task' = [task EXCEPT ![t].status = "changes_requested"]
  /\ req' = [req EXCEPT ![h] = [NoLocals EXCEPT !.delivery = task[t].delivery_request_id]]
  /\ Goto(h, "changes run")
  /\ UNCHANGED <<delivery, attempt, run, receipts, accepted, endorsed>>

ChangesRun(h) ==
  /\ pc[h] = "changes run"
  /\ run' = IF run = "waiting_delivery_approval" THEN run ELSE "waiting_approval"
  /\ IF req[h].delivery # None
       THEN Goto(h, "changes row") /\ UNCHANGED req
       ELSE Return(h)
  /\ UNCHANGED <<delivery, task, attempt, receipts, accepted, endorsed>>

ChangesRow(h) ==
  /\ pc[h] = "changes row"
  /\ delivery' = [delivery EXCEPT ![req[h].delivery].status = "draft"]
  /\ Return(h)
  /\ UNCHANGED <<task, attempt, run, receipts, accepted, endorsed>>

(* Faulty: the status check is dropped.                                     *)
MaySendUnchecked(d) == Exists(d)

(***************************************************************************)
(* DeliveryService.send: the status is checked on the row as read here ... *)
(***************************************************************************)
MaySend(d) == delivery[d].requires_approval => delivery[d].status = "approved"

Send(h, d) ==
  /\ pc[h] = "idle"
  /\ Exists(d)
  /\ MaySend(d)
  /\ req' = [req EXCEPT ![h] = [NoLocals EXCEPT !.delivery = d]]
  /\ Goto(h, "send attempt")
  /\ UNCHANGED <<rows, accepted, endorsed>>

(* Faulty: an attempt that exists already is opened again.                  *)
SendAttemptAgain(h, a) ==
  /\ pc[h] = "send attempt"
  /\ delivery' = [delivery EXCEPT ![req[h].delivery].status = "sending"]
  /\ attempt' = [attempt EXCEPT ![a] = [status |-> "sending",
                                        delivery_request_id |-> req[h].delivery]]
  /\ req' = [req EXCEPT ![h].attempt = a]
  /\ Goto(h, "send dispatch")
  /\ UNCHANGED <<task, run, receipts, accepted, endorsed>>

(* ... and not again in the transaction that opens the attempt.            *)
SendAttempt(h, a) ==
  /\ pc[h] = "send attempt"
  /\ attempt[a].status = "absent"
  /\ delivery' = [delivery EXCEPT ![req[h].delivery].status = "sending"]
  /\ attempt' = [attempt EXCEPT ![a] = [status |-> "sending",
                                        delivery_request_id |-> req[h].delivery]]
  /\ req' = [req EXCEPT ![h].attempt = a]
  /\ Goto(h, "send dispatch")
  /\ UNCHANGED <<task, run, receipts, accepted, endorsed>>

(* The webhook answers 2xx ...                                             *)
DispatchAccepted(h) ==
  /\ pc[h] = "send dispatch"
  /\ accepted' = accepted \cup {req[h].attempt}
  /\ Goto(h, "send success")
  /\ UNCHANGED <<rows, req, endorsed>>

(* Faulty: an answer that is not ok counts as success.                      *)
DispatchFailedUnnoticed(h) ==
  /\ pc[h] = "send dispatch"
  /\ \E taken \in SUBSET {req[h].attempt} : accepted' = accepted \cup taken
  /\ Goto(h, "send success")
  /\ UNCHANGED <<rows, req, endorsed>>

(* ... or refuses, or cannot be reached, or the time limit passes, before  *)
(* or after it took the message.                                           *)
DispatchFailed(h) ==
  /\ pc[h] = "send dispatch"
  /\ \E taken \in SUBSET {req[h].attempt} : accepted' = accepted \cup taken
  /\ Goto(h, "send failure")
  /\ UNCHANGED <<rows, req, endorsed>>

InFlight == {"delivering", "waiting_delivery_approval", "running"}

FinishRun(status) == run' = IF run \in InFlight THEN status ELSE run

SendSuccess(h) ==
  /\ pc[h] = "send success"
  /\ attempt' = [attempt EXCEPT ![req[h].attempt].status = "sent"]
  /\ delivery' = [delivery EXCEPT ![req[h].delivery].status = "sent",
                                  ![req[h].delivery].sent_at = TRUE]
  /\ FinishRun("completed")
  /\ Return(h)
  /\ UNCHANGED <<task, receipts, accepted, endorsed>>

(* Faulty: failDeliveryAttempt leaves the attempt as it was.                *)
SendFailureKeepsAttempt(h) ==
  /\ pc[h] = "send failure"
  /\ delivery' = [delivery EXCEPT ![req[h].delivery].status = "failed_retryable"]
  /\ FinishRun("failed")
  /\ Return(h)
  /\ UNCHANGED <<task, attempt, receipts, accepted, endorsed>>

(* failDeliveryAttempt.  Every error the dispatch can raise is classified  *)
(* as retryable: plain errors are, and so are the 502 and 503 it throws.   *)
SendFailure(h) ==
  /\ pc[h] = "send failure"
  /\ attempt' = [attempt EXCEPT ![req[h].attempt].status = "failed_retryable"]
  /\ delivery' = [delivery EXCEPT ![req[h].delivery].status = "failed_retryable"]
  /\ FinishRun("failed")
  /\ Return(h)
  /\ UNCHANGED <<task, receipts, accepted, endorsed>>

(* Faulty: a status the table's check constraint does not list.             *)
CancelMisspelt(d) ==
  /\ Exists(d)
  /\ delivery' = [delivery EXCEPT ![d].status = "canceled"]
  /\ UNCHANGED <<task, attempt, run, receipts, pc, req, accepted, endorsed>>

(* DeliveryService.cancel: one statement, whatever the status was.         *)
Cancel(d) ==
  /\ Exists(d)
  /\ delivery' = [delivery EXCEPT ![d].status = "cancelled"]
  /\ UNCHANGED <<task, attempt, run, receipts, pc, req, accepted, endorsed>>

(* Faulty: a retry that takes the earlier approval for granted.             *)
RetryApproved(d) ==
  /\ Exists(d)
  /\ delivery' = [delivery EXCEPT ![d].status = "approved"]
  /\ UNCHANGED <<task, attempt, run, receipts, pc, req, accepted, endorsed>>

(* DeliveryService.retry reads requires_approval, which never changes, so  *)
(* its read and its statement make one step.                               *)
Retry(d) ==
  /\ Exists(d)
  /\ delivery' = [delivery EXCEPT ![d].status =
                    IF delivery[d].requires_approval THEN "waiting_approval" ELSE "approved"]
  /\ UNCHANGED <<task, attempt, run, receipts, pc, req, accepted, endorsed>>

(* Faulty: the receipt key is not unique.                                   *)
ReceiveAgain(h, k, step, requires, forDelivery) ==
  /\ pc[h] = "idle"
  /\ receipts' = receipts \cup {k}
  /\ req' = [req EXCEPT ![h] = [NoLocals EXCEPT !.key = k, !.requires = requires,
                                                !.forDelivery = forDelivery]]
  /\ Goto(h, step)
  /\ UNCHANGED <<delivery, task, attempt, run, accepted, endorsed>>

(***************************************************************************)
(* ActivepiecesService.handleDeliveryGate and handleApprovalGate: the      *)
(* receipt first (a key seen before ends the request with 409), then       *)
(* DeliveryService.createRuntimeRequest or the task alone.                 *)
(***************************************************************************)
Receive(h, k, step, requires, forDelivery) ==
  /\ pc[h] = "idle"
  /\ k \notin receipts
  /\ receipts' = receipts \cup {k}
  /\ req' = [req EXCEPT ![h] = [NoLocals EXCEPT !.key = k, !.requires = requires,
                                                !.forDelivery = forDelivery]]
  /\ Goto(h, step)
  /\ UNCHANGED <<delivery, task, attempt, run, accepted, endorsed>>

DeliveryGate(h, k, requires) == Receive(h, k, "gate lookup", requires, TRUE)
ApprovalGate(h, k) == Receive(h, k, "gate task", TRUE, FALSE)

(* A request made for this key earlier is answered as it is.               *)
GateLookup(h) ==
  /\ pc[h] = "gate lookup"
  /\ IF \E d \in Deliveries : Exists(d) /\ delivery[d].key = req[h].key
       THEN Return(h)
       ELSE Goto(h, "gate row") /\ UNCHANGED req
  /\ UNCHANGED <<rows, accepted, endorsed>>

(* One transaction: the request's row and the run's status.                *)
GateRow(h, d) ==
  /\ pc[h] = "gate row"
  /\ delivery[d].status = "absent"
  /\ LET requires == req[h].requires
     IN /\ delivery' = [delivery EXCEPT ![d] =
                          [status |-> IF requires THEN "waiting_approval" ELSE "approved",
                           requires_approval |-> requires, approval_task_id |-> None,
                           approved_at |-> FALSE, sent_at |-> FALSE, key |-> req[h].key]]
        /\ run' = IF requires THEN "waiting_delivery_approval" ELSE "delivering"
        /\ IF requires
             THEN Goto(h, "gate task") /\ req' = [req EXCEPT ![h].delivery = d]
             ELSE Return(h)
  /\ UNCHANGED <<task, attempt, receipts, accepted, endorsed>>

(* ApprovalsService.createRuntimeTask: the task's row, then the run's.     *)
GateTask(h, t) ==
  /\ pc[h] = "gate task"
  /\ task[t].status = "absent"
  /\ task' = [task EXCEPT ![t] = [status |-> "pending",
                                  delivery_request_id |-> req[h].delivery]]
  /\ req' = [req EXCEPT ![h].task = t]
  /\ Goto(h, "gate run")
  /\ UNCHANGED <<delivery, attempt, run, receipts, accepted, endorsed>>

(* Faulty: the statement that links the delivery to its task is left out.   *)
GateRunWithoutLink(h) ==
  /\ pc[h] = "gate run"
  /\ run' = IF req[h].forDelivery THEN "waiting_delivery_approval" ELSE "waiting_approval"
  /\ Return(h)
  /\ UNCHANGED <<delivery, task, attempt, receipts, accepted, endorsed>>

GateRun(h) ==
  /\ pc[h] = "gate run"
  /\ run' = IF req[h].forDelivery THEN "waiting_delivery_approval" ELSE "waiting_approval"
  /\ IF req[h].forDelivery
       THEN Goto(h, "gate link") /\ UNCHANGED req
       ELSE Return(h)
  /\ UNCHANGED <<delivery, task, attempt, receipts, accepted, endorsed>>

(* Only now does the delivery know its task.                               *)
GateLink(h) ==
  /\ pc[h] = "gate link"
  /\ delivery' = [delivery EXCEPT ![req[h].delivery].approval_task_id = req[h].task]
  /\ Return(h)
  /\ UNCHANGED <<task, attempt, run, receipts, accepted, endorsed>>

-----------------------------------------------------------------------------
(* What the rest of the backend does to the run's row while deliveries are *)
(* open: applying a runtime event, or the run commands (RunCallbacks.tla   *)
(* has those in full).                                                     *)
RunUpdatedElsewhere(status) ==
  /\ run' = status
  /\ UNCHANGED <<delivery, task, attempt, receipts, pc, req, accepted, endorsed>>

(* The handler ends between two of its statements.                         *)
HandlerFails(h) ==
  /\ CanFail
  /\ pc[h] # "idle"
  /\ Return(h)
  /\ UNCHANGED <<rows, accepted, endorsed>>

-----------------------------------------------------------------------------
Continue(h) ==
  \/ ApproveTask(h) \/ ApproveRow(h) \/ ApproveRun(h)
  \/ DecideRun(h) \/ DecideRow(h)
  \/ ChangesRun(h) \/ ChangesRow(h)
  \/ \E a \in Attempts : SendAttempt(h, a)
  \/ DispatchAccepted(h) \/ DispatchFailed(h) \/ SendSuccess(h) \/ SendFailure(h)
  \/ GateLookup(h) \/ GateRun(h) \/ GateLink(h)
  \/ \E d \in Deliveries : GateRow(h, d)
  \/ \E t \in Tasks : GateTask(h, t)

Arrive(h) ==
  \/ \E d \in Deliveries : Approve(h, d) \/ Send(h, d)
  \/ \E t \in Tasks : RequestChanges(h, t) \/ \E v \in Decisions : DecideTask(h, t, v)
  \/ \E k \in Keys : ApprovalGate(h, k) \/ \E r \in BOOLEAN : DeliveryGate(h, k, r)

Elsewhere == \E s \in RunStatus \ {"waiting_delivery_approval", "delivering"} :
               RunUpdatedElsewhere(s)

Next ==
  \/ \E h \in Handlers : Arrive(h) \/ Continue(h) \/ HandlerFails(h)
  \/ \E d \in Deliveries : Cancel(d) \/ Retry(d)
  \/ Elsewhere

Spec == Init /\ [][Next]_vars

(* Node runs every handler on: each await comes back, the dispatch within  *)
(* its time limit.  Nothing obliges anybody to send a request.             *)
FairSpec == Spec /\ \A h \in Handlers : WF_vars(Continue(h))

-----------------------------------------------------------------------------
(* The deliveries as the approval gate sees them.                          *)
Requested(requires) == {d \in Deliveries : Exists(d) /\ delivery[d].requires_approval = requires}
Started == {d \in Deliveries : \E a \in Attempts : attempt[a].status # "absent"
                                  /\ attempt[a].delivery_request_id = d}

Gate == INSTANCE ApprovalGate WITH open <- Requested(FALSE), guarded <- Requested(TRUE),
                                   started <- Started

(* The handlers implement the approval gate: each of their steps is a step *)
(* of ApprovalGate or leaves what it sees unchanged.                       *)
ImplementsGate == Gate!GateSpec

(* A delivery that requires approval goes out only after a person asked    *)
(* for its approval and the approval was recorded on its row, although     *)
(* send checks a row it read earlier and every status write is unguarded.  *)
ApprovedBeforeDispatch ==
  \A a \in Attempts :
    LET d == attempt[a].delivery_request_id
    IN attempt[a].status # "absent" /\ delivery[d].requires_approval
         => delivery[d].approved_at /\ d \in endorsed

(* No row claims more than the receiver saw: a sent attempt was accepted   *)
(* by the webhook, a delivery with sent_at has a sent attempt, and one     *)
(* that reads "sent" has sent_at.                                          *)
SentIsBacked ==
  /\ \A a \in Attempts : attempt[a].status = "sent" => a \in accepted
  /\ \A d \in Deliveries :
       /\ delivery[d].status = "sent" => delivery[d].sent_at
       /\ delivery[d].sent_at =>
            \E a \in Attempts : attempt[a].status = "sent" /\ attempt[a].delivery_request_id = d

(* A delivery reads "sending" only while one of its attempts is open, also *)
(* when several sends of it overlap.                                       *)
SendingHasOpenAttempt ==
  \A d \in Deliveries : delivery[d].status = "sending" =>
    \E a \in Attempts : attempt[a].status = "sending" /\ attempt[a].delivery_request_id = d

(* Callbacks repeated with one key make one delivery request, although     *)
(* createRuntimeRequest looks for the key and inserts in separate steps.   *)
OneDeliveryPerKey ==
  \A d, e \in Deliveries :
    Exists(d) /\ Exists(e) /\ delivery[d].key = delivery[e].key => d = e

(* A delivery and its task name each other, and no delivery has two tasks, *)
(* so deciding a task never moves somebody else's delivery.                *)
TaskPointsBack ==
  /\ \A d \in Deliveries : delivery[d].approval_task_id # None
       => task[delivery[d].approval_task_id].delivery_request_id = d
  /\ \A t, u \in Tasks :
       task[t].delivery_request_id # None
         /\ task[t].delivery_request_id = task[u].delivery_request_id => t = u

(* A run reads "delivering" only if one of its deliveries was approved or  *)
(* never needed approval: the run's row is written after the delivery's.   *)
DeliveringIsCleared ==
  run = "delivering" =>
    \E d \in Deliveries : Exists(d) /\ (delivery[d].requires_approval => delivery[d].approved_at)

(* Together: what the rows say has happened, whatever handlers overlapped  *)
(* or died between their statements.                                       *)
RowsAreTrue == SentIsBacked /\ SendingHasOpenAttempt /\ DeliveringIsCleared

(* Together: two gates never share a delivery or a task.                   *)
GatesStayApart == OneDeliveryPerKey /\ TaskPointsBack

(* A settled attempt is never settled again, and no attempt changes hands: *)
(* each send closes exactly the attempt it opened.                         *)
AttemptsSettleOnce ==
  [][\A a \in Attempts :
       /\ attempt[a].status \in {"sent", "failed_retryable"} => attempt'[a] = attempt[a]
       /\ attempt[a].status = "sending" =>
            attempt'[a].delivery_request_id = attempt[a].delivery_request_id]_vars

(* While no handler ends early, every attempt is settled ...               *)
AttemptsSettle == \A a \in Attempts : attempt[a].status = "sending" ~> attempt[a].status # "sending"

(* ... and every delivery that requires approval gets its task.            *)
GatesGetTasks ==
  \A d \in Deliveries : delivery[d].requires_approval ~> delivery[d].approval_task_id # None

(* What send's 409 promises, "the request must be approved before it is    *)
(* sent": the attempt is opened on a row that is approved at that moment.  *)
ApprovedWhenDispatched ==
  [][\A a \in Attempts :
       attempt[a].status = "absent" /\ attempt'[a].status # "absent" =>
         LET d == attempt'[a].delivery_request_id
         IN delivery[d].requires_approval => delivery[d].status = "approved"]_vars
=============================================================================
