---------------------------- MODULE DeliveryProofs ----------------------------
(***************************************************************************)
(* External delivery, for any number of handlers, deliveries, tasks and    *)
(* attempts: a delivery that requires approval goes out only after one was *)
(* asked for and recorded, and the handlers implement ApprovalGate.        *)
(*                                                                         *)
(* The rows alone do not show it: send, approve and decideTask carry rows  *)
(* they read earlier from statement to statement.  HandlerOK says what     *)
(* each handler may rely on at each statement, and Keeps what no step of   *)
(* any other handler takes away from it.                                   *)
(***************************************************************************)
EXTENDS Delivery, TLAPS

Cleared(d) == delivery[d].requires_approval => delivery[d].approved_at /\ d \in endorsed

RowsOK ==
  /\ \A d \in Deliveries :
       /\ delivery[d].requires_approval =>
            /\ delivery[d].status = "approved" => delivery[d].approved_at
            /\ delivery[d].approved_at => d \in endorsed
       /\ delivery[d].approval_task_id # None =>
            /\ task[delivery[d].approval_task_id].delivery_request_id = d
            /\ task[delivery[d].approval_task_id].status # "absent"
  /\ \A t \in Tasks : task[t].delivery_request_id # None =>
       task[t].status # "absent" /\ Exists(task[t].delivery_request_id)
  /\ \A a \in Attempts : attempt[a].status # "absent" =>
       LET d == attempt[a].delivery_request_id
       IN d \in Deliveries /\ Exists(d) /\ Cleared(d)

(* The delivery in hand exists.                                            *)
HasDelivery(h) == req[h].delivery \in Deliveries /\ Exists(req[h].delivery)

(* The task in hand exists and is about the delivery in hand.              *)
HasTask(h) ==
  /\ req[h].task \in Tasks
  /\ task[req[h].task].status # "absent"
  /\ task[req[h].task].delivery_request_id = req[h].delivery

HandlerOK(h) ==
  /\ pc[h] \in {"approve task", "approve row"} => HasDelivery(h) /\ req[h].delivery \in endorsed
  /\ pc[h] \in {"approve task", "gate run", "gate link"} => HasTask(h)
  /\ pc[h] \in {"decide run", "decide row"} =>
       /\ req[h].delivery # None => HasDelivery(h)
       /\ req[h].decision = "approved" /\ req[h].delivery # None => req[h].delivery \in endorsed
       /\ req[h].nested => req[h].decision = "approved"
  /\ pc[h] \in {"decide row", "changes row", "send attempt", "gate link"} => HasDelivery(h)
  /\ pc[h] = "changes run" /\ req[h].delivery # None => HasDelivery(h)
  /\ pc[h] = "send attempt" => Cleared(req[h].delivery)
  /\ pc[h] \in {"send dispatch", "send success", "send failure"} =>
       /\ HasDelivery(h) /\ req[h].attempt \in Attempts
       /\ attempt[req[h].attempt].status # "absent"
       /\ attempt[req[h].attempt].delivery_request_id = req[h].delivery
  /\ pc[h] \in {"gate lookup", "gate row"} => req[h].forDelivery
  /\ pc[h] \in {"gate task", "gate run"} =>
       /\ req[h].forDelivery => HasDelivery(h)
       /\ ~req[h].forDelivery => req[h].delivery = None

DeliveryInv == TypeOK /\ RowsOK /\ \A h \in Handlers : HandlerOK(h)

(* What every step leaves to the others.                                   *)
Keeps ==
  /\ \A d \in Deliveries : Exists(d) =>
       /\ delivery'[d].status # "absent"
       /\ delivery'[d].requires_approval = delivery[d].requires_approval
       /\ delivery[d].approved_at => delivery'[d].approved_at
  /\ \A t \in Tasks : task[t].status # "absent" =>
       /\ task'[t].status # "absent"
       /\ task'[t].delivery_request_id = task[t].delivery_request_id
  /\ \A a \in Attempts : attempt[a].status # "absent" =>
       /\ attempt'[a].status # "absent"
       /\ attempt'[a].delivery_request_id = attempt[a].delivery_request_id
  /\ endorsed \subseteq endorsed'

(* A step may open attempts of d, if d is cleared, and settle others.      *)
AttemptsMove(d) ==
  \A a \in Attempts :
    IF attempt[a].status # "absent"
      THEN /\ attempt'[a].status # "absent"
           /\ attempt'[a].delivery_request_id = attempt[a].delivery_request_id
      ELSE attempt'[a].status # "absent" =>
             attempt'[a].delivery_request_id = d /\ Cleared(d)

-----------------------------------------------------------------------------
(* The tables start empty and no handler is in progress.                   *)
LEMMA InitDelivery == Init => DeliveryInv
BY NoneAssumption
   DEF Init, DeliveryInv, TypeOK, RowsOK, HandlerOK, Cleared, Exists, DeliveryRow, TaskRow,
       AttemptRow, Locals, NoLocals, DeliveryStatus, TaskStatus, AttemptStatus, RunStatus,
       Decisions, Steps

(* A handler that does not move relies only on what the others keep.       *)
LEMMA OthersStayOK ==
  ASSUME DeliveryInv, Keeps, NEW g \in Handlers, pc'[g] = pc[g], req'[g] = req[g]
  PROVE  HandlerOK(g)'
<1>1. HasDelivery(g) => HasDelivery(g)'
  BY DEF Keeps, HasDelivery, Exists
<1>2. HasTask(g) => HasTask(g)'
  BY DEF Keeps, HasTask
<1>3. \A d \in Deliveries : Exists(d) /\ Cleared(d) => Cleared(d)'
  BY DEF Keeps, Cleared, Exists
<1>4. endorsed \subseteq endorsed'
  BY DEF Keeps
<1>5. \A a \in Attempts : attempt[a].status # "absent" =>
        /\ attempt'[a].status # "absent"
        /\ attempt'[a].delivery_request_id = attempt[a].delivery_request_id
  BY DEF Keeps
<1> QED BY <1>1, <1>2, <1>3, <1>4, <1>5 DEF DeliveryInv, HandlerOK, HasDelivery

(* What a handler knows before its step.                                   *)
LEMMA HandlerFacts ==
  ASSUME DeliveryInv, NEW h \in Handlers
  PROVE  TypeOK /\ RowsOK /\ HandlerOK(h) /\ pc[h] \in Steps /\ req[h] \in Locals
BY DEF DeliveryInv, TypeOK

(* What an idle handler holds has the right shape.                         *)
LEMMA NoLocalsType == NoLocals \in Locals
BY DEF NoLocals, Locals, Decisions

(* One handler moves: what is left to show of its step.                    *)
LEMMA HandlerMoves ==
  ASSUME DeliveryInv, NEW h \in Handlers, NEW next \in Steps, NEW local \in Locals,
         pc' = [pc EXCEPT ![h] = next], req' = [req EXCEPT ![h] = local],
         delivery' \in [Deliveries -> DeliveryRow], task' \in [Tasks -> TaskRow],
         attempt' \in [Attempts -> AttemptRow], run' \in RunStatus, receipts' \subseteq Keys,
         accepted' \subseteq Attempts, endorsed' \subseteq Deliveries,
         Keeps, RowsOK', HandlerOK(h)'
  PROVE  DeliveryInv'
<1>1. pc \in [Handlers -> Steps] /\ req \in [Handlers -> Locals]
  BY DEF DeliveryInv, TypeOK
<1>2. TypeOK'
  BY <1>1 DEF TypeOK
<1>3. \A g \in Handlers \ {h} : pc'[g] = pc[g] /\ req'[g] = req[g]
  BY <1>1
<1> QED BY <1>2, <1>3, OthersStayOK DEF DeliveryInv

(* A handler that returns relies on nothing.                               *)
LEMMA HandlerReturns ==
  ASSUME DeliveryInv, NEW h \in Handlers, Return(h),
         delivery' \in [Deliveries -> DeliveryRow], task' \in [Tasks -> TaskRow],
         attempt' \in [Attempts -> AttemptRow], run' \in RunStatus, receipts' \subseteq Keys,
         accepted' \subseteq Attempts, endorsed' \subseteq Deliveries,
         Keeps, RowsOK'
  PROVE  DeliveryInv'
<1>1. pc' = [pc EXCEPT ![h] = "idle"] /\ req' = [req EXCEPT ![h] = NoLocals] /\ "idle" \in Steps
  BY DEF Return, Goto, Steps
<1>2. HandlerOK(h)'
  <2>1. pc'[h] = "idle"
    BY <1>1 DEF DeliveryInv, TypeOK
  <2> QED BY <2>1 DEF HandlerOK
<1> QED BY <1>1, <1>2, NoLocalsType, HandlerMoves

-----------------------------------------------------------------------------
(* The rows stay as they are; more deliveries may be endorsed.             *)
LEMMA RowsKept ==
  ASSUME RowsOK, UNCHANGED <<delivery, task, attempt>>, endorsed \subseteq endorsed'
  PROVE  Keeps /\ RowsOK'
BY DEF Keeps, RowsOK, Exists, Cleared

(* One delivery's row changes, and no attempt is opened on an uncleared one. *)
LEMMA DeliveryUpdated ==
  ASSUME TypeOK, RowsOK, NEW d \in Deliveries, NEW row \in DeliveryRow, Exists(d),
         delivery' = [delivery EXCEPT ![d] = row], row.status # "absent",
         row.requires_approval = delivery[d].requires_approval,
         row.approval_task_id = delivery[d].approval_task_id,
         delivery[d].approved_at => row.approved_at,
         row.requires_approval => /\ row.status = "approved" => row.approved_at
                                  /\ row.approved_at => d \in endorsed,
         UNCHANGED <<task, endorsed>>,
         AttemptsMove(d)
  PROVE  delivery' \in [Deliveries -> DeliveryRow] /\ Keeps /\ RowsOK'
<1>1. delivery \in [Deliveries -> DeliveryRow] /\ task \in [Tasks -> TaskRow]
  BY DEF TypeOK
<1>2. delivery' \in [Deliveries -> DeliveryRow]
  BY <1>1
<1>3. Keeps
  BY <1>1 DEF Keeps, Exists, AttemptsMove
<1>4. \A e \in Deliveries : /\ Exists(e) => Exists(e)'
                            /\ Exists(e) /\ Cleared(e) => Cleared(e)'
  BY <1>1 DEF Exists, Cleared
<1>5. \A t \in Tasks : task[t].delivery_request_id \in Deliveries \cup {None}
  BY <1>1 DEF TaskRow
<1>6. RowsOK'
  BY <1>1, <1>4, <1>5 DEF RowsOK, AttemptsMove
<1> QED BY <1>2, <1>3, <1>6

(* A task that exists gets another status.                                 *)
LEMMA TaskUpdated ==
  ASSUME TypeOK, RowsOK, NEW t \in Tasks, task[t].status # "absent",
         NEW s \in TaskStatus \ {"absent"}, task' = [task EXCEPT ![t].status = s],
         UNCHANGED <<delivery, attempt>>, endorsed \subseteq endorsed'
  PROVE  task' \in [Tasks -> TaskRow] /\ Keeps /\ RowsOK'
<1>1. task \in [Tasks -> TaskRow] /\ delivery \in [Deliveries -> DeliveryRow]
  BY DEF TypeOK
<1>2. /\ task' \in [Tasks -> TaskRow]
      /\ \A u \in Tasks :
           /\ task'[u].delivery_request_id = task[u].delivery_request_id
           /\ task[u].status # "absent" => task'[u].status # "absent"
  BY <1>1 DEF TaskRow
<1>3. \A d \in Deliveries : delivery[d].approval_task_id \in Tasks \cup {None}
  BY <1>1 DEF DeliveryRow
<1>4. Keeps
  BY <1>2 DEF Keeps, Exists
<1>5. RowsOK'
  BY <1>2, <1>3 DEF RowsOK, Exists, Cleared
<1> QED BY <1>2, <1>4, <1>5

-----------------------------------------------------------------------------
(* approve: the endorsement is noted, the row and its task are read.       *)
LEMMA ApproveKeepsInv ==
  ASSUME DeliveryInv, NEW h \in Handlers, NEW d \in Deliveries, Approve(h, d) PROVE DeliveryInv'
<1> DEFINE t == delivery[d].approval_task_id
           next == IF t # None /\ delivery[d].status = "waiting_approval"
                     THEN "approve task" ELSE "approve row"
           local == [NoLocals EXCEPT !.delivery = d, !.task = t]
<1>1. TypeOK /\ RowsOK /\ Exists(d)
  BY HandlerFacts DEF Approve
<1>2. /\ pc' = [pc EXCEPT ![h] = next] /\ req' = [req EXCEPT ![h] = local]
      /\ endorsed' = endorsed \cup {d} /\ UNCHANGED <<rows, accepted>>
  BY DEF Approve, Goto
<1>3. t \in Tasks \cup {None}
  BY <1>1 DEF TypeOK, DeliveryRow
<1>4. next \in Steps /\ local \in Locals
  BY <1>3, NoLocalsType DEF Steps, Locals, NoLocals
<1>5. local.delivery = d /\ local.task = t
  BY DEF NoLocals
<1>6. t # None => task[t].status # "absent" /\ task[t].delivery_request_id = d
  BY <1>1 DEF RowsOK
<1>7. Keeps /\ RowsOK'
  BY <1>1, <1>2, RowsKept DEF rows
<1>8. /\ pc'[h] \in {"approve task", "approve row"} /\ req'[h] = local
      /\ pc'[h] = "approve task" => t # None
  BY <1>1, <1>2 DEF TypeOK
<1> HIDE DEF local, next
<1>9. HandlerOK(h)'
  <2>1. req'[h].delivery = d /\ req'[h].task = t /\ d \in endorsed'
    BY <1>2, <1>5, <1>8
  <2>2. HasDelivery(h)'
    BY <1>1, <1>2, <2>1 DEF HasDelivery, Exists, rows
  <2>3. pc'[h] = "approve task" => HasTask(h)'
    BY <1>2, <1>3, <1>6, <1>8, <2>1 DEF HasTask, rows
  <2> QED BY <1>8, <2>1, <2>2, <2>3 DEF HandlerOK
<1> QED BY <1>1, <1>2, <1>4, <1>7, <1>9, HandlerMoves DEF TypeOK, rows

(* approve: the update of the delivery's row.                              *)
LEMMA ApproveRowKeepsInv ==
  ASSUME DeliveryInv, NEW h \in Handlers, ApproveRow(h) PROVE DeliveryInv'
<1> DEFINE d == req[h].delivery
           row == [delivery[d] EXCEPT !.status = "approved", !.approved_at = TRUE]
<1>1. /\ TypeOK /\ RowsOK /\ d \in Deliveries /\ Exists(d) /\ d \in endorsed
      /\ req[h] \in Locals /\ delivery[d] \in DeliveryRow
  BY HandlerFacts DEF ApproveRow, HandlerOK, HasDelivery, TypeOK
<1>2. /\ pc' = [pc EXCEPT ![h] = "approve run"] /\ delivery' = [delivery EXCEPT ![d] = row]
      /\ UNCHANGED <<task, attempt, run, receipts, req, accepted, endorsed>>
  BY DEF ApproveRow, Goto
<1>3. /\ row \in DeliveryRow /\ row.status = "approved" /\ row.approved_at
      /\ row.requires_approval = delivery[d].requires_approval
      /\ row.approval_task_id = delivery[d].approval_task_id
  BY <1>1 DEF DeliveryRow, DeliveryStatus
<1> HIDE DEF row, d
<1>4. delivery' \in [Deliveries -> DeliveryRow] /\ Keeps /\ RowsOK'
  BY <1>1, <1>2, <1>3, DeliveryUpdated DEF AttemptsMove
<1>5. HandlerOK(h)'
  <2>1. pc'[h] = "approve run"
    BY <1>1, <1>2 DEF TypeOK
  <2> QED BY <2>1 DEF HandlerOK
<1>6. req' = [req EXCEPT ![h] = req[h]] /\ "approve run" \in Steps
  BY <1>1, <1>2 DEF TypeOK, Steps
<1> QED BY <1>1, <1>2, <1>4, <1>5, <1>6, HandlerMoves DEF TypeOK

(* approve: the update of the run.                                         *)
LEMMA ApproveRunKeepsInv ==
  ASSUME DeliveryInv, NEW h \in Handlers, ApproveRun(h) PROVE DeliveryInv'
<1>1. TypeOK /\ RowsOK
  BY HandlerFacts
<1>2. Keeps /\ RowsOK'
  BY <1>1, RowsKept DEF ApproveRun
<1>3. run' \in RunStatus
  BY <1>1 DEF ApproveRun, TypeOK, RunStatus
<1> QED BY <1>1, <1>2, <1>3, HandlerReturns DEF ApproveRun, TypeOK

(* A decision that reached a task of an endorsed delivery, or rejects it.   *)
LEMMA SettleTaskKeepsInv ==
  ASSUME DeliveryInv, NEW h \in Handlers, NEW t \in Tasks, NEW decision \in Decisions,
         NEW nested \in BOOLEAN, task[t].status # "absent", SettleTask(h, t, decision, nested),
         UNCHANGED <<delivery, attempt, run, receipts, accepted>>,
         endorsed \subseteq endorsed', endorsed' \subseteq Deliveries,
         decision = "approved" =>
           task[t].delivery_request_id \in endorsed' \/ task[t].delivery_request_id = None,
         nested => decision = "approved"
  PROVE  DeliveryInv'
<1> DEFINE d == task[t].delivery_request_id
           local == [NoLocals EXCEPT !.delivery = d, !.task = t, !.decision = decision,
                                     !.nested = nested]
<1>1. TypeOK /\ RowsOK
  BY HandlerFacts
<1>2. /\ pc' = [pc EXCEPT ![h] = "decide run"] /\ req' = [req EXCEPT ![h] = local]
      /\ task' = [task EXCEPT ![t].status = decision]
  BY DEF SettleTask, Goto
<1>3. d \in Deliveries \cup {None} /\ (d # None => Exists(d))
  BY <1>1 DEF TypeOK, TaskRow, RowsOK
<1>4. "decide run" \in Steps /\ local \in Locals
  BY <1>3, NoLocalsType DEF Steps, Locals, NoLocals
<1>5. /\ local.delivery = d /\ local.decision = decision /\ local.nested = nested
  BY DEF NoLocals
<1>6. task' \in [Tasks -> TaskRow] /\ Keeps /\ RowsOK'
  <2>1. decision \in TaskStatus \ {"absent"}
    BY DEF Decisions, TaskStatus
  <2> QED BY <1>1, <1>2, <2>1, TaskUpdated
<1>7. pc'[h] = "decide run" /\ req'[h] = local
  BY <1>1, <1>2 DEF TypeOK
<1> HIDE DEF local, d
<1>8. HandlerOK(h)'
  BY <1>3, <1>5, <1>7 DEF HandlerOK, HasDelivery, Exists, d
<1> QED BY <1>1, <1>2, <1>4, <1>6, <1>8, HandlerMoves DEF TypeOK

(* decideTask called by a person.                                          *)
LEMMA DecideTaskKeepsInv ==
  ASSUME DeliveryInv, NEW h \in Handlers, NEW t \in Tasks, NEW decision \in Decisions,
         DecideTask(h, t, decision)
  PROVE  DeliveryInv'
<1>1. endorsed \subseteq Deliveries /\ task[t].delivery_request_id \in Deliveries \cup {None}
  BY HandlerFacts DEF TypeOK, TaskRow
<1>2. /\ endorsed \subseteq endorsed' /\ endorsed' \subseteq Deliveries
      /\ decision = "approved" =>
           task[t].delivery_request_id \in endorsed' \/ task[t].delivery_request_id = None
  BY <1>1 DEF DecideTask
<1>3. FALSE \in BOOLEAN
  OBVIOUS
<1> QED BY <1>2, <1>3, SettleTaskKeepsInv DEF DecideTask

(* decideTask called by approve.                                           *)
LEMMA ApproveTaskKeepsInv ==
  ASSUME DeliveryInv, NEW h \in Handlers, ApproveTask(h) PROVE DeliveryInv'
<1>1. /\ req[h].task \in Tasks /\ task[req[h].task].status # "absent"
      /\ task[req[h].task].delivery_request_id \in endorsed /\ endorsed \subseteq Deliveries
  BY HandlerFacts DEF ApproveTask, HandlerOK, HasTask, TypeOK
<1>2. TRUE \in BOOLEAN /\ "approved" \in Decisions
  BY DEF Decisions
<1> QED BY <1>1, <1>2, SettleTaskKeepsInv DEF ApproveTask

(* decideTask: the update of the run.                                      *)
LEMMA DecideRunKeepsInv ==
  ASSUME DeliveryInv, NEW h \in Handlers, DecideRun(h) PROVE DeliveryInv'
<1>1. TypeOK /\ RowsOK /\ HandlerOK(h) /\ req[h] \in Locals
  BY HandlerFacts
<1>2. Keeps /\ RowsOK'
  BY <1>1, RowsKept DEF DecideRun
<1>3. run' \in RunStatus
  BY <1>1 DEF DecideRun, RunStatus
<1>4. CASE req[h].delivery # None
  <2>1. /\ pc' = [pc EXCEPT ![h] = "decide row"] /\ "decide row" \in Steps
        /\ req' = [req EXCEPT ![h] = req[h]]
    BY <1>1, <1>4 DEF DecideRun, Goto, Steps, TypeOK
  <2>2. pc'[h] = "decide row" /\ req'[h] = req[h]
    BY <1>1, <2>1 DEF TypeOK
  <2>3. HandlerOK(h)'
    BY <1>1, <1>4, <2>2 DEF DecideRun, HandlerOK, HasDelivery, Exists
  <2> QED BY <1>1, <1>2, <1>3, <2>1, <2>3, HandlerMoves DEF DecideRun, TypeOK
<1>5. CASE req[h].delivery = None
  BY <1>1, <1>2, <1>3, <1>5, HandlerReturns DEF DecideRun, TypeOK
<1> QED BY <1>4, <1>5

(* decideTask: the update of the delivery the task is about.               *)
LEMMA DecideRowKeepsInv ==
  ASSUME DeliveryInv, NEW h \in Handlers, DecideRow(h) PROVE DeliveryInv'
<1> DEFINE d == req[h].delivery
           row == IF req[h].decision = "approved"
                    THEN [delivery[d] EXCEPT !.status = "approved", !.approved_at = TRUE]
                    ELSE [delivery[d] EXCEPT !.status = "cancelled"]
<1>1. /\ TypeOK /\ RowsOK /\ HandlerOK(h) /\ req[h] \in Locals
      /\ d \in Deliveries /\ Exists(d) /\ delivery[d] \in DeliveryRow
      /\ req[h].decision = "approved" => d \in endorsed
      /\ req[h].nested => req[h].decision = "approved"
  BY HandlerFacts, NoneAssumption DEF DecideRow, HandlerOK, HasDelivery, TypeOK
<1>2. /\ delivery' = [delivery EXCEPT ![d] = row]
      /\ UNCHANGED <<task, attempt, run, receipts, accepted, endorsed>>
  BY DEF DecideRow
<1>3. /\ row \in DeliveryRow /\ row.status # "absent"
      /\ delivery[d].approved_at => row.approved_at
      /\ row.status = "approved" => row.approved_at
      /\ delivery[d].requires_approval /\ row.approved_at => d \in endorsed
      /\ row.requires_approval = delivery[d].requires_approval
      /\ row.approval_task_id = delivery[d].approval_task_id
  BY <1>1 DEF DeliveryRow, DeliveryStatus, RowsOK
<1> HIDE DEF row
<1>4. delivery' \in [Deliveries -> DeliveryRow] /\ Keeps /\ RowsOK'
  BY <1>1, <1>2, <1>3, DeliveryUpdated DEF AttemptsMove
<1>5. CASE req[h].nested
  <2>1. /\ pc' = [pc EXCEPT ![h] = "approve row"] /\ "approve row" \in Steps
        /\ req' = [req EXCEPT ![h] = req[h]]
    BY <1>1, <1>5 DEF DecideRow, Goto, Steps, TypeOK
  <2>2. pc'[h] = "approve row" /\ req'[h] = req[h]
    BY <1>1, <2>1 DEF TypeOK
  <2>3. delivery'[d].status # "absent"
    BY <1>1, <1>4 DEF Keeps
  <2>4. HandlerOK(h)'
    BY <1>1, <1>2, <1>5, <2>2, <2>3 DEF HandlerOK, HasDelivery, Exists
  <2> QED BY <1>1, <1>2, <1>4, <2>1, <2>4, HandlerMoves DEF TypeOK
<1>6. CASE ~req[h].nested
  BY <1>1, <1>2, <1>4, <1>6, HandlerReturns DEF DecideRow, TypeOK
<1> QED BY <1>5, <1>6

(* requestChanges: the task, and what it is about.                         *)
LEMMA RequestChangesKeepsInv ==
  ASSUME DeliveryInv, NEW h \in Handlers, NEW t \in Tasks, RequestChanges(h, t)
  PROVE  DeliveryInv'
<1> DEFINE d == task[t].delivery_request_id
           local == [NoLocals EXCEPT !.delivery = d]
<1>1. /\ TypeOK /\ RowsOK /\ d \in Deliveries \cup {None} /\ (d # None => Exists(d))
      /\ task[t].status # "absent"
  BY HandlerFacts DEF RequestChanges, TypeOK, TaskRow, RowsOK
<1>2. /\ pc' = [pc EXCEPT ![h] = "changes run"] /\ req' = [req EXCEPT ![h] = local]
      /\ task' = [task EXCEPT ![t].status = "changes_requested"]
      /\ UNCHANGED <<delivery, attempt, run, receipts, accepted, endorsed>>
  BY DEF RequestChanges, Goto
<1>3. "changes run" \in Steps /\ local \in Locals /\ local.delivery = d
  BY <1>1, NoLocalsType DEF Steps, Locals, NoLocals
<1>4. task' \in [Tasks -> TaskRow] /\ Keeps /\ RowsOK'
  <2>1. "changes_requested" \in TaskStatus \ {"absent"}
    BY DEF TaskStatus
  <2> QED BY <1>1, <1>2, <2>1, TaskUpdated
<1>5. pc'[h] = "changes run" /\ req'[h] = local
  BY <1>1, <1>2 DEF TypeOK
<1> HIDE DEF local
<1>6. HandlerOK(h)'
  BY <1>1, <1>2, <1>3, <1>5 DEF HandlerOK, HasDelivery, Exists
<1> QED BY <1>1, <1>2, <1>3, <1>4, <1>6, HandlerMoves DEF TypeOK

(* requestChanges: the update of the run.                                  *)
LEMMA ChangesRunKeepsInv ==
  ASSUME DeliveryInv, NEW h \in Handlers, ChangesRun(h) PROVE DeliveryInv'
<1>1. TypeOK /\ RowsOK /\ HandlerOK(h) /\ req[h] \in Locals
  BY HandlerFacts
<1>2. Keeps /\ RowsOK'
  BY <1>1, RowsKept DEF ChangesRun
<1>3. run' \in RunStatus
  BY <1>1 DEF ChangesRun, RunStatus, TypeOK
<1>4. CASE req[h].delivery # None
  <2>1. /\ pc' = [pc EXCEPT ![h] = "changes row"] /\ "changes row" \in Steps
        /\ req' = [req EXCEPT ![h] = req[h]]
    BY <1>1, <1>4 DEF ChangesRun, Goto, Steps, TypeOK
  <2>2. pc'[h] = "changes row" /\ req'[h] = req[h]
    BY <1>1, <2>1 DEF TypeOK
  <2>3. HandlerOK(h)'
    BY <1>1, <1>4, <2>2 DEF ChangesRun, HandlerOK, HasDelivery, Exists
  <2> QED BY <1>1, <1>2, <1>3, <2>1, <2>3, HandlerMoves DEF ChangesRun, TypeOK
<1>5. CASE req[h].delivery = None
  BY <1>1, <1>2, <1>3, <1>5, HandlerReturns DEF ChangesRun, TypeOK
<1> QED BY <1>4, <1>5

(* A status other than "approved" may be written on any existing row.      *)
LEMMA StatusUpdated ==
  ASSUME TypeOK, RowsOK, NEW d \in Deliveries, Exists(d),
         NEW s \in DeliveryStatus \ {"absent", "approved"},
         delivery' = [delivery EXCEPT ![d].status = s], UNCHANGED <<task, endorsed>>,
         AttemptsMove(d)
  PROVE  delivery' \in [Deliveries -> DeliveryRow] /\ Keeps /\ RowsOK'
<1> DEFINE row == [delivery[d] EXCEPT !.status = s]
<1>1. delivery[d] \in DeliveryRow /\ delivery' = [delivery EXCEPT ![d] = row]
  BY DEF TypeOK
<1>2. /\ row \in DeliveryRow /\ row.status = s /\ row.approved_at = delivery[d].approved_at
      /\ row.requires_approval = delivery[d].requires_approval
      /\ row.approval_task_id = delivery[d].approval_task_id
  BY <1>1 DEF DeliveryRow
<1>3. delivery[d].requires_approval /\ delivery[d].approved_at => d \in endorsed
  BY DEF RowsOK
<1> HIDE DEF row
<1> QED BY <1>1, <1>2, <1>3, DeliveryUpdated DEF AttemptsMove

(* requestChanges: the delivery goes back to a draft.                      *)
LEMMA ChangesRowKeepsInv ==
  ASSUME DeliveryInv, NEW h \in Handlers, ChangesRow(h) PROVE DeliveryInv'
<1>1. TypeOK /\ RowsOK /\ req[h].delivery \in Deliveries /\ Exists(req[h].delivery)
  BY HandlerFacts DEF ChangesRow, HandlerOK, HasDelivery
<1>2. "draft" \in DeliveryStatus \ {"absent", "approved"}
  BY DEF DeliveryStatus
<1>3. delivery' \in [Deliveries -> DeliveryRow] /\ Keeps /\ RowsOK'
  BY <1>1, <1>2, StatusUpdated DEF ChangesRow, AttemptsMove
<1> QED BY <1>1, <1>3, HandlerReturns DEF ChangesRow, TypeOK

(* send: the status check leaves the delivery in hand cleared.             *)
LEMMA SendKeepsInv ==
  ASSUME DeliveryInv, NEW h \in Handlers, NEW d \in Deliveries, Send(h, d) PROVE DeliveryInv'
<1> DEFINE local == [NoLocals EXCEPT !.delivery = d]
<1>1. TypeOK /\ RowsOK /\ Exists(d) /\ Cleared(d)
  BY HandlerFacts DEF Send, MaySend, RowsOK, Cleared
<1>2. /\ pc' = [pc EXCEPT ![h] = "send attempt"] /\ req' = [req EXCEPT ![h] = local]
      /\ UNCHANGED <<rows, accepted, endorsed>>
  BY DEF Send, Goto
<1>3. "send attempt" \in Steps /\ local \in Locals /\ local.delivery = d
  BY NoLocalsType DEF Steps, Locals, NoLocals
<1>4. Keeps /\ RowsOK'
  BY <1>1, <1>2, RowsKept DEF rows
<1>5. pc'[h] = "send attempt" /\ req'[h] = local
  BY <1>1, <1>2 DEF TypeOK
<1> HIDE DEF local
<1>6. HandlerOK(h)'
  <2>1. req'[h].delivery = d /\ delivery' = delivery /\ endorsed' = endorsed
    BY <1>2, <1>3, <1>5 DEF rows
  <2>2. HasDelivery(h)' /\ Cleared(req[h].delivery)'
    BY <1>1, <2>1 DEF HasDelivery, Exists, Cleared
  <2> QED BY <1>5, <2>2 DEF HandlerOK
<1> QED BY <1>1, <1>2, <1>3, <1>4, <1>6, HandlerMoves DEF TypeOK, rows

(* send: the attempt opened is one of a delivery that was cleared.         *)
LEMMA SendAttemptKeepsInv ==
  ASSUME DeliveryInv, NEW h \in Handlers, NEW a \in Attempts, SendAttempt(h, a)
  PROVE  DeliveryInv'
<1> DEFINE d == req[h].delivery
           local == [req[h] EXCEPT !.attempt = a]
<1>1. /\ TypeOK /\ RowsOK /\ d \in Deliveries /\ Exists(d) /\ Cleared(d) /\ req[h] \in Locals
      /\ attempt \in [Attempts -> AttemptRow] /\ attempt[a].status = "absent"
  BY HandlerFacts DEF SendAttempt, HandlerOK, HasDelivery, TypeOK
<1>2. /\ pc' = [pc EXCEPT ![h] = "send dispatch"] /\ req' = [req EXCEPT ![h] = local]
      /\ delivery' = [delivery EXCEPT ![d].status = "sending"]
      /\ attempt' = [attempt EXCEPT ![a] = [status |-> "sending", delivery_request_id |-> d]]
      /\ UNCHANGED <<task, run, receipts, accepted, endorsed>>
  BY <1>1 DEF SendAttempt, Goto, TypeOK
<1>3. /\ "send dispatch" \in Steps /\ local \in Locals /\ local.delivery = d
      /\ local.attempt = a
  BY <1>1 DEF Steps, Locals
<1>4. attempt' \in [Attempts -> AttemptRow]
  BY <1>1, <1>2 DEF AttemptRow, AttemptStatus
<1> HIDE DEF d, local
<1>5. delivery' \in [Deliveries -> DeliveryRow] /\ Keeps /\ RowsOK'
  <2>1. "sending" \in DeliveryStatus \ {"absent", "approved"}
    BY DEF DeliveryStatus
  <2>2. AttemptsMove(d)
    BY <1>1, <1>2 DEF AttemptsMove
  <2> QED BY <1>1, <1>2, <2>1, <2>2, StatusUpdated
<1>6. pc'[h] = "send dispatch" /\ req'[h] = local
  BY <1>1, <1>2 DEF TypeOK
<1>7. /\ delivery'[d].status # "absent" /\ attempt'[a].status # "absent"
      /\ attempt'[a].delivery_request_id = d
  BY <1>1, <1>2, <1>5 DEF Keeps
<1>8. HandlerOK(h)'
  BY <1>1, <1>3, <1>6, <1>7 DEF HandlerOK, HasDelivery, Exists
<1> QED BY <1>1, <1>2, <1>3, <1>4, <1>5, <1>8, HandlerMoves DEF TypeOK

(* send: the webhook changes no row.                                       *)
LEMMA DispatchKeepsInv ==
  ASSUME DeliveryInv, NEW h \in Handlers, DispatchAccepted(h) \/ DispatchFailed(h)
  PROVE  DeliveryInv'
<1> DEFINE next == pc'[h]
<1>1. TypeOK /\ RowsOK /\ HandlerOK(h) /\ req[h] \in Locals
  BY HandlerFacts
<1>2. /\ pc[h] = "send dispatch" /\ next \in {"send success", "send failure"}
      /\ pc' = [pc EXCEPT ![h] = next] /\ req' = [req EXCEPT ![h] = req[h]]
      /\ UNCHANGED <<rows, req, endorsed>>
  BY <1>1 DEF DispatchAccepted, DispatchFailed, Goto, TypeOK
<1>3. next \in Steps
  BY <1>2 DEF Steps
<1>4. accepted' \subseteq Attempts
  BY <1>1, <1>2 DEF DispatchAccepted, DispatchFailed, TypeOK, HandlerOK
<1>5. Keeps /\ RowsOK'
  BY <1>1, <1>2, RowsKept DEF rows
<1>6. HandlerOK(h)'
  BY <1>1, <1>2 DEF HandlerOK, HasDelivery, Exists, rows
<1> HIDE DEF next
<1> QED BY <1>1, <1>2, <1>3, <1>4, <1>5, <1>6, HandlerMoves DEF TypeOK, rows

(* send: both rows are settled as sent.                                    *)
LEMMA SendSuccessKeepsInv ==
  ASSUME DeliveryInv, NEW h \in Handlers, SendSuccess(h) PROVE DeliveryInv'
<1> DEFINE d == req[h].delivery
           row == [delivery[d] EXCEPT !.status = "sent", !.sent_at = TRUE]
<1>1. /\ TypeOK /\ RowsOK /\ d \in Deliveries /\ Exists(d) /\ delivery[d] \in DeliveryRow
      /\ attempt \in [Attempts -> AttemptRow] /\ req[h].attempt \in Attempts
      /\ attempt[req[h].attempt].status # "absent"
      /\ delivery[d].requires_approval /\ delivery[d].approved_at => d \in endorsed
  BY HandlerFacts DEF SendSuccess, HandlerOK, HasDelivery, TypeOK, RowsOK
<1>2. /\ delivery' = [delivery EXCEPT ![d] = row]
      /\ attempt' = [attempt EXCEPT ![req[h].attempt].status = "sent"]
      /\ UNCHANGED <<task, receipts, accepted, endorsed>>
  BY DEF SendSuccess
<1>3. /\ row \in DeliveryRow /\ row.status = "sent" /\ row.approved_at = delivery[d].approved_at
      /\ row.requires_approval = delivery[d].requires_approval
      /\ row.approval_task_id = delivery[d].approval_task_id
  BY <1>1 DEF DeliveryRow, DeliveryStatus
<1>4. attempt' \in [Attempts -> AttemptRow]
  BY <1>1, <1>2 DEF AttemptRow, AttemptStatus
<1> HIDE DEF row, d
<1>5. delivery' \in [Deliveries -> DeliveryRow] /\ Keeps /\ RowsOK'
  <2>1. AttemptsMove(d)
    BY <1>1, <1>2 DEF AttemptRow, AttemptsMove
  <2> QED BY <1>1, <1>2, <1>3, <2>1, DeliveryUpdated
<1>6. run' \in RunStatus
  BY <1>1 DEF SendSuccess, FinishRun, RunStatus, TypeOK
<1> QED BY <1>1, <1>2, <1>4, <1>5, <1>6, HandlerReturns DEF SendSuccess, TypeOK

(* failDeliveryAttempt: both rows are settled as failed.                   *)
LEMMA SendFailureKeepsInv ==
  ASSUME DeliveryInv, NEW h \in Handlers, SendFailure(h) PROVE DeliveryInv'
<1> DEFINE d == req[h].delivery
<1>1. /\ TypeOK /\ RowsOK /\ d \in Deliveries /\ Exists(d)
      /\ attempt \in [Attempts -> AttemptRow] /\ req[h].attempt \in Attempts
      /\ attempt[req[h].attempt].status # "absent"
  BY HandlerFacts DEF SendFailure, HandlerOK, HasDelivery, TypeOK
<1>2. /\ delivery' = [delivery EXCEPT ![d].status = "failed_retryable"]
      /\ attempt' = [attempt EXCEPT ![req[h].attempt].status = "failed_retryable"]
      /\ UNCHANGED <<task, receipts, accepted, endorsed>>
  BY DEF SendFailure
<1>3. "failed_retryable" \in DeliveryStatus \ {"absent", "approved"}
  BY DEF DeliveryStatus
<1>4. attempt' \in [Attempts -> AttemptRow]
  BY <1>1, <1>2 DEF AttemptRow, AttemptStatus
<1> HIDE DEF d
<1>5. delivery' \in [Deliveries -> DeliveryRow] /\ Keeps /\ RowsOK'
  <2>1. AttemptsMove(d)
    BY <1>1, <1>2 DEF AttemptRow, AttemptsMove
  <2> QED BY <1>1, <1>2, <1>3, <2>1, StatusUpdated
<1>6. run' \in RunStatus
  BY <1>1 DEF SendFailure, FinishRun, RunStatus, TypeOK
<1> QED BY <1>1, <1>2, <1>4, <1>5, <1>6, HandlerReturns DEF SendFailure, TypeOK

(* cancel and retry are no handlers' steps: every handler stays as it is.  *)
LEMMA CancelRetryKeepInv ==
  ASSUME DeliveryInv, NEW d \in Deliveries, Cancel(d) \/ Retry(d) PROVE DeliveryInv'
<1>1. TypeOK /\ RowsOK /\ Exists(d) /\ UNCHANGED <<task, attempt, run, receipts, pc, req, accepted, endorsed>>
  BY DEF DeliveryInv, Cancel, Retry
<1>2. delivery' \in [Deliveries -> DeliveryRow] /\ Keeps /\ RowsOK'
  <2>1. CASE \E s \in {"cancelled", "waiting_approval"} :
               delivery' = [delivery EXCEPT ![d].status = s]
    <3>1. {"cancelled", "waiting_approval"} \subseteq DeliveryStatus \ {"absent", "approved"}
      BY DEF DeliveryStatus
    <3> QED BY <1>1, <2>1, <3>1, StatusUpdated DEF AttemptsMove
  <2>2. CASE ~delivery[d].requires_approval /\ delivery' = [delivery EXCEPT ![d].status = "approved"]
    <3> DEFINE row == [delivery[d] EXCEPT !.status = "approved"]
    <3>1. delivery[d] \in DeliveryRow /\ delivery' = [delivery EXCEPT ![d] = row]
      BY <1>1, <2>2 DEF TypeOK
    <3>2. /\ row \in DeliveryRow /\ row.status = "approved"
          /\ row.approved_at = delivery[d].approved_at /\ ~row.requires_approval
          /\ row.requires_approval = delivery[d].requires_approval
          /\ row.approval_task_id = delivery[d].approval_task_id
      BY <2>2, <3>1 DEF DeliveryRow, DeliveryStatus
    <3> HIDE DEF row
    <3> QED BY <1>1, <3>1, <3>2, DeliveryUpdated DEF AttemptsMove
  <2> QED BY <2>1, <2>2 DEF Cancel, Retry
<1>3. TypeOK'
  BY <1>1, <1>2 DEF TypeOK
<1> QED BY <1>1, <1>2, <1>3, OthersStayOK DEF DeliveryInv

(* A gate's callback is received.                                          *)
LEMMA ReceiveKeepsInv ==
  ASSUME DeliveryInv, NEW h \in Handlers, NEW k \in Keys, NEW requires \in BOOLEAN,
         NEW forDelivery \in BOOLEAN,
         NEW step \in {"gate lookup", "gate task"}, forDelivery <=> step = "gate lookup",
         Receive(h, k, step, requires, forDelivery)
  PROVE  DeliveryInv'
<1> DEFINE local == [NoLocals EXCEPT !.key = k, !.requires = requires,
                                     !.forDelivery = forDelivery]
<1>1. TypeOK /\ RowsOK
  BY HandlerFacts
<1>2. /\ pc' = [pc EXCEPT ![h] = step] /\ req' = [req EXCEPT ![h] = local]
      /\ receipts' \subseteq Keys
      /\ UNCHANGED <<delivery, task, attempt, run, accepted, endorsed>>
  BY <1>1 DEF Receive, Goto, TypeOK
<1>3. /\ step \in Steps /\ local \in Locals /\ local.forDelivery = forDelivery
      /\ local.delivery = None
  BY NoLocalsType DEF Steps, Locals, NoLocals
<1>4. Keeps /\ RowsOK'
  BY <1>1, <1>2, RowsKept
<1>5. pc'[h] = step /\ req'[h] = local
  BY <1>1, <1>2 DEF TypeOK
<1> HIDE DEF local
<1>6. HandlerOK(h)'
  BY <1>3, <1>5 DEF HandlerOK
<1> QED BY <1>1, <1>2, <1>3, <1>4, <1>6, HandlerMoves DEF TypeOK

(* createRuntimeRequest: the lookup by idempotency key.                    *)
LEMMA GateLookupKeepsInv ==
  ASSUME DeliveryInv, NEW h \in Handlers, GateLookup(h) PROVE DeliveryInv'
<1>1. TypeOK /\ RowsOK /\ req[h] \in Locals
  BY HandlerFacts
<1>2. Keeps /\ RowsOK'
  BY <1>1, RowsKept DEF GateLookup, rows
<1>3. CASE Return(h)
  BY <1>1, <1>2, <1>3, HandlerReturns DEF GateLookup, TypeOK, rows
<1>4. CASE Goto(h, "gate row") /\ UNCHANGED req
  <2>1. /\ pc' = [pc EXCEPT ![h] = "gate row"] /\ "gate row" \in Steps
        /\ req' = [req EXCEPT ![h] = req[h]]
    BY <1>1, <1>4 DEF Goto, Steps, TypeOK
  <2>2. pc'[h] = "gate row"
    BY <1>1, <2>1 DEF TypeOK
  <2>3. HandlerOK(h)'
    BY <1>1, <1>4, <2>2, HandlerFacts DEF GateLookup, HandlerOK
  <2> QED BY <1>1, <1>2, <2>1, <2>3, HandlerMoves DEF GateLookup, TypeOK, rows
<1> QED BY <1>3, <1>4 DEF GateLookup

(* A new delivery's row: nothing could refer to it before.                 *)
LEMMA GateRowKeepsInv ==
  ASSUME DeliveryInv, NEW h \in Handlers, NEW d \in Deliveries, GateRow(h, d) PROVE DeliveryInv'
<1> DEFINE requires == req[h].requires
           row == [status |-> IF requires THEN "waiting_approval" ELSE "approved",
                   requires_approval |-> requires, approval_task_id |-> None,
                   approved_at |-> FALSE, sent_at |-> FALSE, key |-> req[h].key]
           local == [req[h] EXCEPT !.delivery = d]
<1>1. /\ TypeOK /\ RowsOK /\ HandlerOK(h) /\ req[h] \in Locals
      /\ delivery \in [Deliveries -> DeliveryRow] /\ ~Exists(d)
  BY HandlerFacts DEF GateRow, TypeOK, Exists
<1>2. /\ delivery' = [delivery EXCEPT ![d] = row]
      /\ UNCHANGED <<task, attempt, receipts, accepted, endorsed>>
      /\ run' \in RunStatus
  BY DEF GateRow, RunStatus
<1>3. /\ row \in DeliveryRow /\ row.status # "absent" /\ row.approval_task_id = None
      /\ ~row.approved_at /\ (row.requires_approval => row.status # "approved")
  BY <1>1 DEF DeliveryRow, DeliveryStatus, Locals
<1> HIDE DEF row
<1>4. delivery' \in [Deliveries -> DeliveryRow]
  BY <1>1, <1>2, <1>3
<1>5. Keeps
  BY <1>1, <1>2 DEF Keeps, Exists
<1>6. RowsOK'
  BY <1>1, <1>2, <1>3 DEF RowsOK, Exists, Cleared
<1>7. CASE requires
  <2>1. /\ pc' = [pc EXCEPT ![h] = "gate task"] /\ "gate task" \in Steps
        /\ req' = [req EXCEPT ![h] = local]
    BY <1>1, <1>7 DEF GateRow, Goto, Steps, TypeOK
  <2>2. local \in Locals /\ local.delivery = d /\ local.forDelivery = req[h].forDelivery
    BY <1>1 DEF Locals
  <2>3. pc'[h] = "gate task" /\ req'[h] = local
    BY <1>1, <2>1 DEF TypeOK
  <2> HIDE DEF local
  <2>4. delivery'[d].status # "absent"
    BY <1>1, <1>2, <1>3
  <2>5. req[h].forDelivery
    BY <1>1 DEF GateRow, HandlerOK
  <2>6. HandlerOK(h)'
    BY <2>2, <2>3, <2>4, <2>5 DEF HandlerOK, HasDelivery, Exists
  <2> QED BY <1>1, <1>2, <1>4, <1>5, <1>6, <2>1, <2>2, <2>6, HandlerMoves DEF TypeOK
<1>8. CASE ~requires
  BY <1>1, <1>2, <1>4, <1>5, <1>6, <1>8, HandlerReturns DEF GateRow, TypeOK
<1> QED BY <1>7, <1>8

(* createRuntimeTask: a new task about the delivery in hand.               *)
LEMMA GateTaskKeepsInv ==
  ASSUME DeliveryInv, NEW h \in Handlers, NEW t \in Tasks, GateTask(h, t) PROVE DeliveryInv'
<1> DEFINE d == req[h].delivery
           local == [req[h] EXCEPT !.task = t]
<1>1. /\ TypeOK /\ RowsOK /\ HandlerOK(h) /\ req[h] \in Locals /\ task[t].status = "absent"
      /\ task \in [Tasks -> TaskRow] /\ delivery \in [Deliveries -> DeliveryRow]
  BY HandlerFacts DEF GateTask, TypeOK
<1>2. /\ task' = [task EXCEPT ![t] = [status |-> "pending", delivery_request_id |-> d]]
      /\ pc' = [pc EXCEPT ![h] = "gate run"] /\ req' = [req EXCEPT ![h] = local]
      /\ UNCHANGED <<delivery, attempt, run, receipts, accepted, endorsed>>
  BY <1>1 DEF GateTask, Goto, TypeOK
<1>3. /\ d # None => d \in Deliveries /\ Exists(d)
      /\ d \in Deliveries \cup {None}
  BY <1>1 DEF GateTask, HandlerOK, HasDelivery, Locals
<1>4. /\ "gate run" \in Steps /\ local \in Locals /\ local.task = t /\ local.delivery = d
      /\ local.forDelivery = req[h].forDelivery
  BY <1>1 DEF Steps, Locals
<1> HIDE DEF local, d
<1>5. task' \in [Tasks -> TaskRow]
  BY <1>1, <1>2, <1>3 DEF TaskRow, TaskStatus
<1>6. Keeps
  BY <1>1, <1>2 DEF Keeps, Exists
<1>7. RowsOK'
  BY <1>1, <1>2, <1>3 DEF RowsOK, Exists, Cleared, DeliveryRow
<1>8. pc'[h] = "gate run" /\ req'[h] = local
  BY <1>1, <1>2 DEF TypeOK
<1>9. HandlerOK(h)'
  <2>1. HasTask(h)'
    BY <1>1, <1>2, <1>4, <1>8 DEF HasTask
  <2>2. /\ req[h].forDelivery => HasDelivery(h)'
        /\ ~req[h].forDelivery => req'[h].delivery = None
    BY <1>1, <1>2, <1>4, <1>8 DEF GateTask, HandlerOK, HasDelivery, Exists, d
  <2> QED BY <1>4, <1>8, <2>1, <2>2 DEF HandlerOK
<1> QED BY <1>1, <1>2, <1>4, <1>5, <1>6, <1>7, <1>9, HandlerMoves DEF TypeOK

(* createRuntimeTask: the update of the run.                               *)
LEMMA GateRunKeepsInv ==
  ASSUME DeliveryInv, NEW h \in Handlers, GateRun(h) PROVE DeliveryInv'
<1>1. TypeOK /\ RowsOK /\ HandlerOK(h) /\ req[h] \in Locals
  BY HandlerFacts
<1>2. Keeps /\ RowsOK'
  BY <1>1, RowsKept DEF GateRun
<1>3. run' \in RunStatus
  BY DEF GateRun, RunStatus
<1>4. CASE req[h].forDelivery
  <2>1. /\ pc' = [pc EXCEPT ![h] = "gate link"] /\ "gate link" \in Steps
        /\ req' = [req EXCEPT ![h] = req[h]]
    BY <1>1, <1>4 DEF GateRun, Goto, Steps, TypeOK
  <2>2. pc'[h] = "gate link" /\ req'[h] = req[h]
    BY <1>1, <2>1 DEF TypeOK
  <2>3. HandlerOK(h)'
    BY <1>1, <1>4, <2>2 DEF GateRun, HandlerOK, HasDelivery, HasTask, Exists
  <2> QED BY <1>1, <1>2, <1>3, <2>1, <2>3, HandlerMoves DEF GateRun, TypeOK
<1>5. CASE ~req[h].forDelivery
  BY <1>1, <1>2, <1>3, <1>5, HandlerReturns DEF GateRun, TypeOK
<1> QED BY <1>4, <1>5

(* createRuntimeRequest: the delivery is linked to a task about it.        *)
LEMMA GateLinkKeepsInv ==
  ASSUME DeliveryInv, NEW h \in Handlers, GateLink(h) PROVE DeliveryInv'
<1> DEFINE d == req[h].delivery
           t == req[h].task
<1>1. TypeOK /\ RowsOK /\ delivery \in [Deliveries -> DeliveryRow]
  BY HandlerFacts DEF TypeOK
<1>2. /\ d \in Deliveries /\ Exists(d) /\ t \in Tasks /\ task[t].status # "absent"
      /\ task[t].delivery_request_id = d
  BY HandlerFacts DEF GateLink, HandlerOK, HasDelivery, HasTask
<1>3. /\ delivery' = [delivery EXCEPT ![d].approval_task_id = t]
      /\ UNCHANGED <<task, attempt, run, receipts, accepted, endorsed>>
  BY DEF GateLink
<1> HIDE DEF d, t
<1>4. delivery' \in [Deliveries -> DeliveryRow]
  BY <1>1, <1>2, <1>3 DEF DeliveryRow
<1>5. Keeps
  BY <1>1, <1>2, <1>3 DEF Keeps, Exists, DeliveryRow
<1>6. RowsOK'
  BY <1>1, <1>2, <1>3, NoneAssumption DEF RowsOK, Exists, Cleared, DeliveryRow
<1> QED BY <1>1, <1>3, <1>4, <1>5, <1>6, HandlerReturns DEF GateLink, TypeOK

(* A request that ends early leaves the rows as they are.                  *)
LEMMA HandlerFailsKeepsInv ==
  ASSUME DeliveryInv, NEW h \in Handlers, HandlerFails(h) PROVE DeliveryInv'
<1>1. TypeOK /\ RowsOK
  BY HandlerFacts
<1>2. Keeps /\ RowsOK'
  BY <1>1, RowsKept DEF HandlerFails, rows
<1> QED BY <1>1, <1>2, HandlerReturns DEF HandlerFails, TypeOK, rows

(* The rest of the backend writes the run alone.                           *)
LEMMA ElsewhereKeepsInv ==
  ASSUME DeliveryInv, Elsewhere PROVE DeliveryInv'
<1>1. /\ TypeOK /\ RowsOK /\ run' \in RunStatus
      /\ UNCHANGED <<delivery, task, attempt, receipts, pc, req, accepted, endorsed>>
  BY DEF DeliveryInv, Elsewhere, RunUpdatedElsewhere
<1>2. Keeps /\ RowsOK'
  BY <1>1, RowsKept
<1>3. TypeOK'
  BY <1>1 DEF TypeOK
<1> QED BY <1>1, <1>2, <1>3, OthersStayOK DEF DeliveryInv

-----------------------------------------------------------------------------
(* Every step of the deliveries preserves the invariant.                   *)
LEMMA StepDelivery == DeliveryInv /\ [Next]_vars => DeliveryInv'
<1> SUFFICES ASSUME DeliveryInv, [Next]_vars PROVE DeliveryInv'
  OBVIOUS
<1>1. CASE UNCHANGED vars
  <2>1. TypeOK' /\ RowsOK'
    BY <1>1 DEF vars, rows, DeliveryInv, TypeOK, RowsOK, Exists, Cleared
  <2>2. Keeps
    BY <1>1 DEF vars, rows, Keeps, Exists
  <2> QED BY <1>1, <2>1, <2>2, OthersStayOK DEF vars, DeliveryInv
<1>2. ASSUME NEW h \in Handlers, Arrive(h) PROVE DeliveryInv'
  <2>1. ASSUME NEW d \in Deliveries, Approve(h, d) \/ Send(h, d) PROVE DeliveryInv'
    BY <2>1, ApproveKeepsInv, SendKeepsInv
  <2>2. ASSUME NEW t \in Tasks, RequestChanges(h, t) \/ \E v \in Decisions : DecideTask(h, t, v)
        PROVE DeliveryInv'
    BY <2>2, RequestChangesKeepsInv, DecideTaskKeepsInv
  <2>3. ASSUME NEW k \in Keys, ApprovalGate(h, k) PROVE DeliveryInv'
    BY <2>3, ReceiveKeepsInv DEF ApprovalGate
  <2>4. ASSUME NEW k \in Keys, NEW r \in BOOLEAN, DeliveryGate(h, k, r) PROVE DeliveryInv'
    BY <2>4, ReceiveKeepsInv DEF DeliveryGate
  <2> QED BY <1>2, <2>1, <2>2, <2>3, <2>4 DEF Arrive
<1>3. ASSUME NEW h \in Handlers, Continue(h) PROVE DeliveryInv'
  <2>1. CASE ApproveTask(h) \/ ApproveRow(h) \/ ApproveRun(h) \/ DecideRun(h) \/ DecideRow(h)
    BY <2>1, ApproveTaskKeepsInv, ApproveRowKeepsInv, ApproveRunKeepsInv, DecideRunKeepsInv,
       DecideRowKeepsInv
  <2>2. CASE ChangesRun(h) \/ ChangesRow(h) \/ DispatchAccepted(h) \/ DispatchFailed(h)
             \/ SendSuccess(h) \/ SendFailure(h)
    BY <2>2, ChangesRunKeepsInv, ChangesRowKeepsInv, DispatchKeepsInv, SendSuccessKeepsInv,
       SendFailureKeepsInv
  <2>3. CASE GateLookup(h) \/ GateRun(h) \/ GateLink(h)
    BY <2>3, GateLookupKeepsInv, GateRunKeepsInv, GateLinkKeepsInv
  <2>4. CASE \E a \in Attempts : SendAttempt(h, a)
    BY <2>4, SendAttemptKeepsInv
  <2>5. CASE \E d \in Deliveries : GateRow(h, d)
    BY <2>5, GateRowKeepsInv
  <2>6. CASE \E t \in Tasks : GateTask(h, t)
    BY <2>6, GateTaskKeepsInv
  <2> QED BY <1>3, <2>1, <2>2, <2>3, <2>4, <2>5, <2>6 DEF Continue
<1>4. ASSUME NEW h \in Handlers, HandlerFails(h) PROVE DeliveryInv'
  BY <1>4, HandlerFailsKeepsInv
<1>5. ASSUME NEW d \in Deliveries, Cancel(d) \/ Retry(d) PROVE DeliveryInv'
  BY <1>5, CancelRetryKeepInv
<1>6. CASE Elsewhere
  BY <1>6, ElsewhereKeepsInv
<1> QED BY <1>1, <1>2, <1>3, <1>4, <1>5, <1>6 DEF Next

(* The strengthened invariant holds in every reachable state.              *)
THEOREM DeliveryInvariant == Spec => []DeliveryInv
BY InitDelivery, StepDelivery, PTL DEF Spec

(* Rows and handlers always have the shape the tables and the code give.   *)
THEOREM DeliveryTypeCorrect == Spec => []TypeOK
BY DeliveryInvariant, PTL DEF DeliveryInv

(* send never opens an attempt of a delivery that requires approval unless *)
(* a person asked for the approval and it was recorded on the row, however *)
(* approve, decideTask, requestChanges, cancel, retry and send interleave  *)
(* and wherever they end.                                                  *)
THEOREM NothingGoesOutUnapproved == Spec => []ApprovedBeforeDispatch
<1>1. DeliveryInv => ApprovedBeforeDispatch
  BY DEF DeliveryInv, RowsOK, Cleared, ApprovedBeforeDispatch
<1> QED BY <1>1, DeliveryInvariant, PTL

-----------------------------------------------------------------------------
(* What the approval gate sees of a step that adds no delivery.            *)
SameDeliveries ==
  \A d \in Deliveries :
    /\ delivery'[d].status # "absent" <=> delivery[d].status # "absent"
    /\ delivery'[d].requires_approval = delivery[d].requires_approval

SameAttempts ==
  \A a \in Attempts :
    /\ attempt'[a].status # "absent" <=> attempt[a].status # "absent"
    /\ attempt[a].status # "absent" =>
         attempt'[a].delivery_request_id = attempt[a].delivery_request_id

(* What the gate sees depends on no more than that.                        *)
LEMMA SameView ==
  /\ SameDeliveries => Requested(TRUE)' = Requested(TRUE) /\ Requested(FALSE)' = Requested(FALSE)
  /\ SameAttempts => Started' = Started
BY DEF SameDeliveries, SameAttempts, Requested, Started, Exists

(* A delivery that exists is one the gate has announced.                   *)
LEMMA DeliveryIsOpenOrGuarded ==
  ASSUME TypeOK, NEW d \in Deliveries, Exists(d)
  PROVE  d \in Requested(IF delivery[d].requires_approval THEN TRUE ELSE FALSE)
BY DEF TypeOK, DeliveryRow, Requested

(* A delivery's row may change in all but what the gate sees of it.        *)
LEMMA RowChangeUnseen ==
  ASSUME TypeOK, NEW d \in Deliveries, Exists(d), NEW row,
         row.status # "absent", row.requires_approval = delivery[d].requires_approval,
         delivery' = [delivery EXCEPT ![d] = row]
  PROVE  SameDeliveries
<1>1. delivery \in [Deliveries -> DeliveryRow]
  BY DEF TypeOK
<1> QED BY <1>1 DEF SameDeliveries, Exists

(* The statements that write a delivery's row.                             *)
LEMMA RowStatementsKeepDeliveries ==
  ASSUME DeliveryInv, NEW h \in Handlers,
         \/ ApproveRow(h) \/ DecideRow(h) \/ ChangesRow(h) \/ SendSuccess(h) \/ SendFailure(h)
         \/ GateLink(h) \/ \E a \in Attempts : SendAttempt(h, a)
  PROVE  SameDeliveries
<1> DEFINE d == req[h].delivery
           t == req[h].task
           settled(s) == [delivery[d] EXCEPT !.status = s]
           sent == [delivery[d] EXCEPT !.status = "sent", !.sent_at = TRUE]
           approved == [delivery[d] EXCEPT !.status = "approved", !.approved_at = TRUE]
           linked == [delivery[d] EXCEPT !.approval_task_id = t]
           To(row) == delivery' = [delivery EXCEPT ![d] = row]
<1>1. TypeOK /\ d \in Deliveries /\ Exists(d) /\ delivery[d] \in DeliveryRow
  BY HandlerFacts DEF HandlerOK, HasDelivery, Exists, ApproveRow, DecideRow, ChangesRow,
                      SendSuccess, SendFailure, GateLink, SendAttempt, TypeOK
<1>2. CASE ApproveRow(h)
  <2>1. To(approved)
    BY <1>2 DEF ApproveRow
  <2>2. approved.status # "absent" /\ approved.requires_approval = delivery[d].requires_approval
    BY <1>1 DEF DeliveryRow
  <2> QED BY <1>1, <2>1, <2>2, RowChangeUnseen
<1>3. CASE DecideRow(h)
  <2>1. To(approved) \/ To(settled("cancelled"))
    BY <1>3 DEF DecideRow
  <2>2. /\ approved.status # "absent" /\ approved.requires_approval = delivery[d].requires_approval
        /\ settled("cancelled").status # "absent"
        /\ settled("cancelled").requires_approval = delivery[d].requires_approval
    BY <1>1 DEF DeliveryRow
  <2> QED BY <1>1, <2>1, <2>2, RowChangeUnseen
<1>4. CASE SendSuccess(h)
  <2>1. To(sent)
    BY <1>4 DEF SendSuccess
  <2>2. sent.status # "absent" /\ sent.requires_approval = delivery[d].requires_approval
    BY <1>1 DEF DeliveryRow
  <2> QED BY <1>1, <2>1, <2>2, RowChangeUnseen
<1>5. CASE GateLink(h)
  <2>1. To(linked)
    BY <1>5 DEF GateLink
  <2>2. linked.status # "absent" /\ linked.requires_approval = delivery[d].requires_approval
    BY <1>1 DEF DeliveryRow, Exists
  <2> QED BY <1>1, <2>1, <2>2, RowChangeUnseen
<1>6. CASE ChangesRow(h) \/ SendFailure(h) \/ \E a \in Attempts : SendAttempt(h, a)
  <2>1. \E s \in {"draft", "failed_retryable", "sending"} : To(settled(s))
    BY <1>6 DEF ChangesRow, SendFailure, SendAttempt
  <2>2. \A s \in {"draft", "failed_retryable", "sending"} :
          settled(s).status # "absent"
          /\ settled(s).requires_approval = delivery[d].requires_approval
    BY <1>1 DEF DeliveryRow
  <2> QED BY <1>1, <2>1, <2>2, RowChangeUnseen
<1> QED BY <1>2, <1>3, <1>4, <1>5, <1>6

(* Settling an attempt changes nothing the gate sees of attempts.          *)
LEMMA SettlingKeepsAttempts ==
  ASSUME DeliveryInv, NEW h \in Handlers, SendSuccess(h) \/ SendFailure(h)
  PROVE  SameAttempts
<1> DEFINE a == req[h].attempt
<1>1. /\ attempt \in [Attempts -> AttemptRow] /\ a \in Attempts
      /\ attempt[a].status # "absent"
  BY HandlerFacts DEF HandlerOK, SendSuccess, SendFailure, TypeOK
<1>2. \E s \in {"sent", "failed_retryable"} : attempt' = [attempt EXCEPT ![a].status = s]
  BY DEF SendSuccess, SendFailure
<1> HIDE DEF a
<1> QED BY <1>1, <1>2 DEF SameAttempts, AttemptRow

(* The four kinds of steps of the gate.                                    *)
LEMMA EndorseStep ==
  ASSUME DeliveryInv, NEW d \in Deliveries, Exists(d), UNCHANGED rows,
         endorsed' = endorsed \cup {d}
  PROVE  Gate!GateNext
<1>1. SameDeliveries /\ SameAttempts
  BY DEF rows, SameDeliveries, SameAttempts
<1>2. d \in Requested(FALSE) \cup Requested(TRUE)
  BY DeliveryIsOpenOrGuarded DEF DeliveryInv
<1>3. Gate!Endorse(d)
  BY <1>1, <1>2, SameView DEF Gate!Endorse
<1> QED BY <1>3 DEF Gate!GateNext

(* send starts a cleared delivery.                                         *)
LEMMA StartStep ==
  ASSUME DeliveryInv, NEW h \in Handlers, NEW a \in Attempts, SendAttempt(h, a)
  PROVE  Gate!GateNext
<1> DEFINE d == req[h].delivery
<1>1. /\ TypeOK /\ d \in Deliveries /\ Exists(d) /\ Cleared(d)
      /\ attempt \in [Attempts -> AttemptRow]
  BY HandlerFacts DEF HandlerOK, HasDelivery, SendAttempt, TypeOK
<1>2. SameDeliveries
  BY RowStatementsKeepDeliveries
<1>3. d \in Requested(FALSE) \/ (d \in Requested(TRUE) /\ d \in endorsed)
  BY <1>1, DeliveryIsOpenOrGuarded DEF Cleared
<1>4. attempt' = [attempt EXCEPT ![a] = [status |-> "sending", delivery_request_id |-> d]]
      /\ attempt[a].status = "absent" /\ endorsed' = endorsed
  BY DEF SendAttempt
<1> HIDE DEF d
<1>5. Started' = Started \cup {d}
  BY <1>1, <1>4 DEF Started
<1>6. Gate!Start(d)
  BY <1>2, <1>3, <1>4, <1>5, SameView DEF Gate!Start
<1> QED BY <1>1, <1>6 DEF Gate!GateNext

(* createRuntimeRequest announces a delivery.                              *)
LEMMA AnnounceStep ==
  ASSUME DeliveryInv, NEW h \in Handlers, NEW d \in Deliveries, GateRow(h, d)
  PROVE  Gate!GateNext
<1> DEFINE r == req[h].requires
<1>1. delivery \in [Deliveries -> DeliveryRow] /\ r \in BOOLEAN
  BY HandlerFacts DEF TypeOK, Locals
<1>2. /\ delivery[d].status = "absent" /\ delivery'[d].status # "absent"
      /\ delivery'[d].requires_approval = r
      /\ \A e \in Deliveries \ {d} : delivery'[e] = delivery[e]
      /\ endorsed' = endorsed /\ attempt' = attempt
  BY <1>1 DEF GateRow
<1> HIDE DEF r
<1>3. d \notin Requested(FALSE) \cup Requested(TRUE)
  BY <1>2 DEF Requested, Exists
<1>4. /\ Requested(FALSE)' = IF r THEN Requested(FALSE) ELSE Requested(FALSE) \cup {d}
      /\ Requested(TRUE)' = IF r THEN Requested(TRUE) \cup {d} ELSE Requested(TRUE)
  BY <1>1, <1>2 DEF Requested, Exists
<1>5. Started' = Started
  BY <1>2 DEF Started
<1>6. Gate!Announce(d, r)
  BY <1>2, <1>3, <1>4, <1>5 DEF Gate!Announce
<1> QED BY <1>1, <1>6 DEF Gate!GateNext

(* A step that keeps what the gate sees is none of the gate's.             *)
LEMMA StutterStep ==
  ASSUME SameDeliveries, SameAttempts, endorsed' = endorsed
  PROVE  UNCHANGED Gate!gateVars
BY SameView DEF Gate!gateVars

(* Every step of the handlers is a step of the gate, or none.              *)
LEMMA StepImplementsGate ==
  DeliveryInv /\ [Next]_vars => [Gate!GateNext]_(Gate!gateVars)
<1> SUFFICES ASSUME DeliveryInv, [Next]_vars PROVE Gate!GateNext \/ UNCHANGED Gate!gateVars
  OBVIOUS
<1>0. ASSUME UNCHANGED <<delivery, attempt, endorsed>> PROVE UNCHANGED Gate!gateVars
  BY <1>0, StutterStep DEF SameDeliveries, SameAttempts
<1>1. CASE UNCHANGED vars
  BY <1>0, <1>1 DEF vars, rows
<1>2. ASSUME NEW h \in Handlers, Arrive(h) PROVE Gate!GateNext \/ UNCHANGED Gate!gateVars
  <2>1. ASSUME NEW d \in Deliveries, Approve(h, d) PROVE Gate!GateNext
    BY <2>1, EndorseStep DEF Approve
  <2>2. ASSUME NEW t \in Tasks, NEW v \in Decisions, DecideTask(h, t, v)
        PROVE  Gate!GateNext \/ UNCHANGED Gate!gateVars
    <3> DEFINE d == task[t].delivery_request_id
    <3>1. d \in Deliveries \cup {None} /\ (d # None => Exists(d))
      BY HandlerFacts DEF TypeOK, TaskRow, RowsOK
    <3>2. CASE v = "approved" /\ d # None
      <4>1. UNCHANGED <<delivery, attempt>> /\ endorsed' = endorsed \cup {d} /\ d \in Deliveries
        BY <2>2, <3>1, <3>2 DEF DecideTask
      <4>2. SameDeliveries /\ SameAttempts
        BY <4>1 DEF SameDeliveries, SameAttempts
      <4>3. \A e \in Deliveries : Exists(e) => e \in Requested(FALSE) \cup Requested(TRUE)
        BY DeliveryIsOpenOrGuarded DEF DeliveryInv
      <4>4. Gate!Endorse(d)
        BY <3>1, <3>2, <4>1, <4>2, <4>3, SameView DEF Gate!Endorse
      <4> QED BY <4>1, <4>4 DEF Gate!GateNext
    <3>3. CASE ~(v = "approved" /\ d # None)
      BY <1>0, <2>2, <3>3 DEF DecideTask
    <3> QED BY <3>2, <3>3
  <2>3. CASE \/ \E d \in Deliveries : Send(h, d)
             \/ \E t \in Tasks : RequestChanges(h, t)
             \/ \E k \in Keys : ApprovalGate(h, k) \/ \E r \in BOOLEAN : DeliveryGate(h, k, r)
    BY <1>0, <2>3 DEF Send, RequestChanges, ApprovalGate, DeliveryGate, Receive, rows
  <2> QED BY <1>2, <2>1, <2>2, <2>3 DEF Arrive
<1>3. ASSUME NEW h \in Handlers, Continue(h) PROVE Gate!GateNext \/ UNCHANGED Gate!gateVars
  <2>1. CASE ApproveTask(h) \/ ApproveRun(h) \/ DecideRun(h) \/ ChangesRun(h)
             \/ DispatchAccepted(h) \/ DispatchFailed(h) \/ GateLookup(h) \/ GateRun(h)
             \/ \E t \in Tasks : GateTask(h, t)
    BY <1>0, <2>1 DEF ApproveTask, ApproveRun, DecideRun, ChangesRun, DispatchAccepted,
                      DispatchFailed, GateLookup, GateRun, GateTask, rows
  <2>2. CASE ApproveRow(h) \/ DecideRow(h) \/ ChangesRow(h) \/ GateLink(h)
    <3>1. SameDeliveries
      BY <2>2, RowStatementsKeepDeliveries
    <3>2. SameAttempts /\ endorsed' = endorsed
      BY <2>2 DEF ApproveRow, DecideRow, ChangesRow, GateLink, SameAttempts
    <3> QED BY <3>1, <3>2, StutterStep
  <2>3. CASE SendSuccess(h) \/ SendFailure(h)
    <3>1. SameDeliveries /\ SameAttempts /\ endorsed' = endorsed
      BY <2>3, RowStatementsKeepDeliveries, SettlingKeepsAttempts DEF SendSuccess, SendFailure
    <3> QED BY <3>1, StutterStep
  <2>4. CASE \E a \in Attempts : SendAttempt(h, a)
    BY <2>4, StartStep
  <2>5. CASE \E d \in Deliveries : GateRow(h, d)
    BY <2>5, AnnounceStep
  <2> QED BY <1>3, <2>1, <2>2, <2>3, <2>4, <2>5 DEF Continue
<1>4. ASSUME NEW h \in Handlers, HandlerFails(h) PROVE UNCHANGED Gate!gateVars
  BY <1>0, <1>4 DEF HandlerFails, rows
<1>5. ASSUME NEW d \in Deliveries, Cancel(d) \/ Retry(d) PROVE UNCHANGED Gate!gateVars
  <2>1. delivery \in [Deliveries -> DeliveryRow] /\ delivery[d].status # "absent"
    BY <1>5 DEF DeliveryInv, TypeOK, Cancel, Retry, Exists
  <2>2. SameDeliveries /\ SameAttempts /\ endorsed' = endorsed
    BY <1>5, <2>1 DEF Cancel, Retry, SameDeliveries, SameAttempts, DeliveryRow
  <2> QED BY <2>2, StutterStep
<1>6. CASE Elsewhere
  BY <1>0, <1>6 DEF Elsewhere, RunUpdatedElsewhere
<1> QED BY <1>1, <1>2, <1>3, <1>4, <1>5, <1>6 DEF Next

(* At first nothing was announced, endorsed or started.                    *)
LEMMA InitImplementsGate == Init => Gate!GateInit
BY DEF Init, Gate!GateInit, Requested, Started, Exists

(* The handlers of DeliveryService and ApprovalsService implement the      *)
(* approval gate for any number of them: each step announces, endorses or  *)
(* starts one delivery as the gate allows, or changes nothing it sees.     *)
THEOREM DeliveryImplementsGate == Spec => ImplementsGate
<1>1. Init => Gate!GateInit
  BY InitImplementsGate
<1>2. DeliveryInv /\ [Next]_vars => [Gate!GateNext]_(Gate!gateVars)
  BY StepImplementsGate
<1> QED BY <1>1, <1>2, DeliveryInvariant, PTL DEF Spec, ImplementsGate, Gate!GateSpec

-----------------------------------------------------------------------------
(***************************************************************************)
(* More about external delivery, for any number of handlers, deliveries,   *)
(* tasks, attempts and keys: each send settles the attempt it opened and   *)
(* no other, what the rows say was sent was sent, and gates never share a  *)
(* delivery or a task.  DeliveryInv says that what a handler has in hand   *)
(* exists; the three invariants here say what it has for itself.           *)
(***************************************************************************)
AtSend(h) == pc[h] \in {"send dispatch", "send success", "send failure"}

(* The attempt in a sender's hand is open, and was taken if it believes so. *)
SendersOK ==
  \A h \in Handlers : AtSend(h) =>
    /\ attempt[req[h].attempt].status = "sending"
    /\ pc[h] = "send success" => req[h].attempt \in accepted

SendersApart ==
  \A g, h \in Handlers : g # h /\ AtSend(g) /\ AtSend(h) => req[g].attempt # req[h].attempt

SendInv == SentIsBacked /\ SendingHasOpenAttempt /\ SendersOK /\ SendersApart

(* A step that opens, settles and dispatches nothing.                      *)
SendQuiet ==
  /\ UNCHANGED <<attempt, accepted>>
  /\ \A d \in Deliveries :
       \/ delivery'[d].status = delivery[d].status /\ delivery'[d].sent_at = delivery[d].sent_at
       \/ /\ delivery'[d].status \notin {"sending", "sent"}
          /\ delivery'[d].sent_at => delivery[d].sent_at
  /\ \A h \in Handlers : AtSend(h)' => pc'[h] = pc[h] /\ req'[h].attempt = req[h].attempt

-----------------------------------------------------------------------------
(* One handler moves and the others stay where they are.                   *)
LEMMA OneMoves ==
  ASSUME TypeOK, NEW h \in Handlers, NEW next, NEW local,
         pc' = [pc EXCEPT ![h] = next], req' = [req EXCEPT ![h] = local]
  PROVE  /\ pc'[h] = next /\ req'[h] = local
         /\ \A g \in Handlers \ {h} : pc'[g] = pc[g] /\ req'[g] = req[g]
BY DEF TypeOK

(* A handler that does not move, or moves without touching its locals.     *)
LEMMA OneGoes ==
  ASSUME TypeOK, NEW h \in Handlers, NEW next, Goto(h, next)
  PROVE  pc'[h] = next /\ \A g \in Handlers \ {h} : pc'[g] = pc[g]
BY DEF TypeOK, Goto

(* Steps that touch neither attempts nor senders keep the invariant of sends. *)
LEMMA SendQuietKeeps == TypeOK /\ SendInv /\ SendQuiet => SendInv'
<1> SUFFICES ASSUME TypeOK, SendInv, SendQuiet PROVE SendInv'
  OBVIOUS
<1>1. SentIsBacked'
  BY DEF SendInv, SendQuiet, SentIsBacked
<1>2. SendingHasOpenAttempt'
  BY DEF SendInv, SendQuiet, SendingHasOpenAttempt
<1>3. \A h \in Handlers : AtSend(h)' =>
        AtSend(h) /\ pc'[h] = pc[h] /\ req'[h].attempt = req[h].attempt
  BY DEF SendQuiet, AtSend
<1>4. SendersOK'
  BY <1>3 DEF SendInv, SendQuiet, SendersOK
<1>5. SendersApart'
  BY <1>3 DEF SendInv, SendersApart
<1> QED BY <1>1, <1>2, <1>4, <1>5 DEF SendInv

(* Requests that arrive and steps that write no delivery's row.            *)
LEMMA QuietHandlers ==
  ASSUME DeliveryInv, NEW h \in Handlers,
         \/ Arrive(h) \/ HandlerFails(h)
         \/ ApproveTask(h) \/ ApproveRun(h) \/ DecideRun(h) \/ ChangesRun(h)
         \/ GateLookup(h) \/ GateRun(h) \/ \E t \in Tasks : GateTask(h, t)
  PROVE  SendQuiet
<1> DEFINE quiet == Steps \ {"send dispatch", "send success", "send failure"}
<1>1. TypeOK /\ UNCHANGED <<delivery, attempt, accepted>>
  BY DEF DeliveryInv, Arrive, HandlerFails, Approve, Send, DecideTask, RequestChanges,
         ApprovalGate, DeliveryGate, Receive, ApproveTask, ApproveRun, DecideRun, ChangesRun,
         GateLookup, GateRun, GateTask, rows
<1>2. \E next \in quiet : Goto(h, next)
  BY DEF Arrive, HandlerFails, Approve, Send, DecideTask, RequestChanges, SettleTask,
         ApprovalGate, DeliveryGate, Receive, ApproveTask, ApproveRun, DecideRun, ChangesRun,
         GateLookup, GateRun, GateTask, Return, Steps
<1>3. ~AtSend(h)' /\ \A g \in Handlers \ {h} : pc'[g] = pc[g]
  BY <1>1, <1>2, OneGoes DEF AtSend
<1>4. \A g \in Handlers \ {h} : req'[g] = req[g]
  BY <1>1 DEF Arrive, HandlerFails, Approve, Send, DecideTask, RequestChanges, SettleTask,
         ApprovalGate, DeliveryGate, Receive, ApproveTask, ApproveRun, DecideRun, ChangesRun,
         GateLookup, GateRun, GateTask, Return, TypeOK
<1> QED BY <1>1, <1>3, <1>4 DEF SendQuiet, AtSend

(* Steps that write a delivery's row and have nothing to do with sending.  *)
LEMMA QuietRows ==
  ASSUME DeliveryInv,
         \/ \E h \in Handlers : \/ ApproveRow(h) \/ DecideRow(h) \/ ChangesRow(h) \/ GateLink(h)
                                \/ \E d \in Deliveries : GateRow(h, d)
         \/ \E d \in Deliveries : Cancel(d) \/ Retry(d)
         \/ Elsewhere
  PROVE  SendQuiet
<1>1. TypeOK /\ UNCHANGED <<attempt, accepted>>
  BY DEF DeliveryInv, ApproveRow, DecideRow, ChangesRow, GateLink, GateRow, Cancel, Retry,
         Elsewhere, RunUpdatedElsewhere
<1>2. \A d \in Deliveries :
        \/ delivery'[d].status = delivery[d].status /\ delivery'[d].sent_at = delivery[d].sent_at
        \/ /\ delivery'[d].status \notin {"sending", "sent"}
           /\ delivery'[d].sent_at => delivery[d].sent_at
  <2>1. delivery \in [Deliveries -> DeliveryRow]
    BY <1>1 DEF TypeOK
  <2>2. CASE \E h \in Handlers : ApproveRow(h) \/ DecideRow(h) \/ ChangesRow(h)
    <3>1. \E d : \/ \E s \in {"approved", "cancelled", "draft"} :
                      delivery' = [delivery EXCEPT ![d].status = s]
                 \/ delivery' = [delivery EXCEPT ![d].status = "approved", ![d].approved_at = TRUE]
      BY <2>2 DEF ApproveRow, DecideRow, ChangesRow
    <3> QED BY <2>1, <3>1 DEF DeliveryRow
  <2>3. CASE \E h \in Handlers : GateLink(h)
    <3>1. PICK d, t : delivery' = [delivery EXCEPT ![d].approval_task_id = t]
      BY <2>3 DEF GateLink
    <3>2. \A e \in Deliveries : /\ delivery'[e].status = delivery[e].status
                              /\ delivery'[e].sent_at = delivery[e].sent_at
      BY <2>1, <3>1 DEF DeliveryRow
    <3> QED BY <3>2
  <2>5. CASE \E h \in Handlers, d \in Deliveries : GateRow(h, d)
    <3>1. PICK h \in Handlers, d \in Deliveries : GateRow(h, d)
      BY <2>5
    <3>2. /\ delivery'[d].status \in {"waiting_approval", "approved"} /\ ~delivery'[d].sent_at
          /\ \A e \in Deliveries \ {d} : delivery'[e] = delivery[e]
      BY <2>1, <3>1 DEF GateRow
    <3> QED BY <3>2
  <2>4. CASE Elsewhere \/ \E d \in Deliveries : Cancel(d) \/ Retry(d)
    BY <2>1, <2>4 DEF Cancel, Retry, Elsewhere, RunUpdatedElsewhere, DeliveryRow
  <2> QED BY <2>2, <2>3, <2>4, <2>5
<1>3. \A g \in Handlers : AtSend(g)' => pc'[g] = pc[g] /\ req'[g] = req[g]
  <2>1. ASSUME NEW h \in Handlers,
               \/ ApproveRow(h) \/ DecideRow(h) \/ ChangesRow(h) \/ GateLink(h)
               \/ \E d \in Deliveries : GateRow(h, d)
        PROVE  \A g \in Handlers : AtSend(g)' => pc'[g] = pc[g] /\ req'[g] = req[g]
    <3>1. \E next \in {"idle", "approve run", "approve row", "gate task"} : Goto(h, next)
      BY <2>1 DEF ApproveRow, DecideRow, ChangesRow, GateLink, GateRow, Return
    <3>2. ~AtSend(h)' /\ \A g \in Handlers \ {h} : pc'[g] = pc[g]
      BY <1>1, <3>1, OneGoes DEF AtSend
    <3>3. \A g \in Handlers \ {h} : req'[g] = req[g]
      BY <1>1, <2>1 DEF ApproveRow, DecideRow, ChangesRow, GateLink, GateRow, Return, TypeOK
    <3> QED BY <3>2, <3>3
  <2> QED BY <2>1 DEF Cancel, Retry, Elsewhere, RunUpdatedElsewhere
<1> QED BY <1>1, <1>2, <1>3 DEF SendQuiet

-----------------------------------------------------------------------------
(* send opens an attempt that nobody else has in hand.                     *)
LEMMA SendAttemptIsOwn ==
  ASSUME DeliveryInv, SendInv, NEW h \in Handlers, NEW a \in Attempts, SendAttempt(h, a)
  PROVE  SendInv'
<1> DEFINE d == req[h].delivery
           local == [req[h] EXCEPT !.attempt = a]
<1>1. /\ TypeOK /\ delivery \in [Deliveries -> DeliveryRow] /\ attempt[a].status = "absent"
      /\ attempt \in [Attempts -> AttemptRow] /\ d \in Deliveries /\ req[h] \in Locals
  BY HandlerFacts DEF SendAttempt, HandlerOK, HasDelivery, TypeOK
<1>2. /\ pc' = [pc EXCEPT ![h] = "send dispatch"] /\ req' = [req EXCEPT ![h] = local]
      /\ delivery' = [delivery EXCEPT ![d].status = "sending"] /\ accepted' = accepted
      /\ attempt' = [attempt EXCEPT ![a] = [status |-> "sending", delivery_request_id |-> d]]
  BY <1>1 DEF SendAttempt, Goto, TypeOK
<1>3. local.attempt = a
  BY <1>1 DEF Locals
<1> HIDE DEF local, d
<1>4. /\ pc'[h] = "send dispatch" /\ req'[h].attempt = a
      /\ \A g \in Handlers \ {h} : pc'[g] = pc[g] /\ req'[g] = req[g]
  BY <1>1, <1>2, <1>3 DEF TypeOK
<1>5. /\ \A b \in Attempts \ {a} : attempt'[b] = attempt[b]
      /\ attempt'[a].status = "sending" /\ attempt'[a].delivery_request_id = d
      /\ \A e \in Deliveries \ {d} : delivery'[e] = delivery[e]
      /\ delivery'[d].status = "sending" /\ delivery'[d].sent_at = delivery[d].sent_at
  BY <1>1, <1>2 DEF DeliveryRow
<1>6. \A g \in Handlers : AtSend(g) => req[g].attempt # a /\ req[g].attempt \in Attempts
  BY <1>1 DEF SendInv, SendersOK, DeliveryInv, HandlerOK, AtSend
<1>7. SentIsBacked'
  BY <1>1, <1>2, <1>5 DEF SendInv, SentIsBacked
<1>8. SendingHasOpenAttempt'
  BY <1>1, <1>5 DEF SendInv, SendingHasOpenAttempt
<1>9. SendersOK' /\ SendersApart'
  <2>1. \A g \in Handlers \ {h} : AtSend(g)' => AtSend(g)
    BY <1>4 DEF AtSend
  <2>2. SendersOK'
    <3>1. ASSUME NEW g \in Handlers \ {h}, AtSend(g)'
          PROVE  /\ attempt'[req'[g].attempt].status = "sending"
                 /\ pc'[g] = "send success" => req'[g].attempt \in accepted'
      <4>1. pc'[g] = pc[g] /\ req'[g] = req[g] /\ AtSend(g) /\ req[g].attempt \in Attempts \ {a}
        BY <1>4, <1>6, <3>1 DEF AtSend
      <4>2. attempt'[req[g].attempt] = attempt[req[g].attempt] /\ accepted' = accepted
        BY <1>2, <1>5, <4>1
      <4> QED BY <4>1, <4>2 DEF SendInv, SendersOK
    <3> QED BY <1>4, <1>5, <3>1 DEF SendersOK
  <2>3. SendersApart'
    BY <1>4, <1>6, <2>1 DEF SendInv, SendersApart
  <2> QED BY <2>2, <2>3
<1> QED BY <1>7, <1>8, <1>9 DEF SendInv

(* The webhook answers: only an answer that is ok counts as taken.         *)
LEMMA DispatchKeepsSendInv ==
  ASSUME DeliveryInv, SendInv, NEW h \in Handlers, DispatchAccepted(h) \/ DispatchFailed(h)
  PROVE  SendInv'
<1>1. TypeOK /\ AtSend(h) /\ UNCHANGED <<delivery, attempt, req>> /\ accepted \subseteq accepted'
  BY DEF DeliveryInv, AtSend, DispatchAccepted, DispatchFailed, rows
<1>2. /\ pc'[h] \in {"send success", "send failure"}
      /\ pc'[h] = "send success" => req[h].attempt \in accepted'
      /\ \A g \in Handlers \ {h} : pc'[g] = pc[g]
  BY <1>1 DEF DispatchAccepted, DispatchFailed, Goto, TypeOK
<1>3. \A g \in Handlers : AtSend(g)' => AtSend(g)
  BY <1>1, <1>2 DEF AtSend
<1>4. SentIsBacked' /\ SendingHasOpenAttempt'
  BY <1>1 DEF SendInv, SentIsBacked, SendingHasOpenAttempt
<1>5. SendersOK'
  BY <1>1, <1>2, <1>3 DEF SendInv, SendersOK
<1>6. SendersApart'
  BY <1>1, <1>3 DEF SendInv, SendersApart
<1> QED BY <1>4, <1>5, <1>6 DEF SendInv

(* What a sender settles is the attempt it opened, and only that.          *)
LEMMA SettlesOwn ==
  ASSUME DeliveryInv, SendInv, NEW h \in Handlers, SendSuccess(h) \/ SendFailure(h)
  PROVE  LET a == req[h].attempt
             d == req[h].delivery
         IN /\ a \in Attempts /\ d \in Deliveries
            /\ attempt[a].status = "sending" /\ attempt[a].delivery_request_id = d
            /\ attempt'[a].delivery_request_id = d
            /\ \A b \in Attempts \ {a} : attempt'[b] = attempt[b]
            /\ \A e \in Deliveries \ {d} : delivery'[e] = delivery[e]
            /\ \/ /\ attempt'[a].status = "sent" /\ a \in accepted
                  /\ delivery'[d].status = "sent" /\ delivery'[d].sent_at
               \/ /\ attempt'[a].status = "failed_retryable"
                  /\ delivery'[d].status = "failed_retryable"
                  /\ delivery'[d].sent_at = delivery[d].sent_at
<1> DEFINE a == req[h].attempt
           d == req[h].delivery
<1>1. /\ TypeOK /\ AtSend(h) /\ a \in Attempts /\ d \in Deliveries
      /\ attempt[a].delivery_request_id = d
  BY HandlerFacts DEF SendSuccess, SendFailure, HandlerOK, HasDelivery, AtSend
<1>2. attempt[a].status = "sending" /\ (SendSuccess(h) => a \in accepted)
  BY <1>1 DEF SendInv, SendersOK, SendSuccess
<1>3. delivery \in [Deliveries -> DeliveryRow] /\ attempt \in [Attempts -> AttemptRow]
  BY <1>1 DEF TypeOK
<1>4. CASE SendSuccess(h)
  BY <1>1, <1>2, <1>3, <1>4 DEF SendSuccess, DeliveryRow, AttemptRow
<1>5. CASE SendFailure(h)
  BY <1>1, <1>2, <1>3, <1>5 DEF SendFailure, DeliveryRow, AttemptRow
<1> QED BY <1>4, <1>5

(* A sender settles an open attempt that is its alone. *)
LEMMA SettlingKeepsSendInv ==
  ASSUME DeliveryInv, SendInv, NEW h \in Handlers, SendSuccess(h) \/ SendFailure(h)
  PROVE  SendInv'
<1> DEFINE a == req[h].attempt
           d == req[h].delivery
<1>1. /\ a \in Attempts /\ d \in Deliveries
      /\ attempt[a].status = "sending" /\ attempt[a].delivery_request_id = d
      /\ attempt'[a].delivery_request_id = d
      /\ \A b \in Attempts \ {a} : attempt'[b] = attempt[b]
      /\ \A e \in Deliveries \ {d} : delivery'[e] = delivery[e]
      /\ \/ /\ attempt'[a].status = "sent" /\ a \in accepted
            /\ delivery'[d].status = "sent" /\ delivery'[d].sent_at
         \/ /\ attempt'[a].status = "failed_retryable"
            /\ delivery'[d].status = "failed_retryable"
            /\ delivery'[d].sent_at = delivery[d].sent_at
  BY SettlesOwn
<1>2. TypeOK /\ accepted' = accepted /\ AtSend(h) /\ Return(h)
  BY DEF DeliveryInv, SendSuccess, SendFailure, AtSend
<1>3. pc'[h] = "idle" /\ \A g \in Handlers \ {h} : pc'[g] = pc[g] /\ req'[g] = req[g]
  BY <1>2, OneMoves DEF Return, Goto
<1>4. \A g \in Handlers : AtSend(g)' => g # h /\ AtSend(g) /\ req[g].attempt # a
  BY <1>2, <1>3 DEF AtSend, SendInv, SendersApart
<1>5. \A g \in Handlers : AtSend(g) => req[g].attempt \in Attempts
  BY DEF DeliveryInv, HandlerOK, AtSend
<1> HIDE DEF a, d
<1>6. SentIsBacked'
  BY <1>1, <1>2 DEF SendInv, SentIsBacked
<1>7. SendingHasOpenAttempt'
  BY <1>1 DEF SendInv, SendingHasOpenAttempt
<1>8. SendersOK'
  <2>1. ASSUME NEW g \in Handlers, AtSend(g)'
        PROVE  /\ attempt'[req'[g].attempt].status = "sending"
               /\ pc'[g] = "send success" => req'[g].attempt \in accepted'
    <3>1. pc'[g] = pc[g] /\ req'[g] = req[g] /\ AtSend(g) /\ req[g].attempt \in Attempts \ {a}
      BY <1>3, <1>4, <1>5, <2>1 DEF AtSend
    <3>2. attempt'[req[g].attempt] = attempt[req[g].attempt] /\ accepted' = accepted
      BY <1>1, <1>2, <3>1
    <3> QED BY <3>1, <3>2 DEF SendInv, SendersOK
  <2> QED BY <2>1 DEF SendersOK
<1>9. SendersApart'
  BY <1>3, <1>4 DEF SendInv, SendersApart
<1> QED BY <1>6, <1>7, <1>8, <1>9 DEF SendInv

(* Every step is quiet or one of the five of a send.                       *)
LEMMA QuietOrSend ==
  ASSUME DeliveryInv, Next
  PROVE  \/ SendQuiet
         \/ \E h \in Handlers : \/ DispatchAccepted(h) \/ DispatchFailed(h)
                                \/ SendSuccess(h) \/ SendFailure(h)
                                \/ \E a \in Attempts : SendAttempt(h, a)
<1>1. CASE \E d \in Deliveries : Cancel(d) \/ Retry(d)
  BY <1>1, QuietRows
<1>2. CASE Elsewhere
  BY <1>2, QuietRows
<1>3. ASSUME NEW h \in Handlers, Arrive(h) \/ HandlerFails(h) PROVE SendQuiet
  BY <1>3, QuietHandlers
<1>4. ASSUME NEW h \in Handlers, Continue(h)
      PROVE  \/ SendQuiet
             \/ DispatchAccepted(h) \/ DispatchFailed(h) \/ SendSuccess(h) \/ SendFailure(h)
             \/ \E a \in Attempts : SendAttempt(h, a)
  <2>1. CASE \/ ApproveTask(h) \/ ApproveRun(h) \/ DecideRun(h) \/ ChangesRun(h)
             \/ GateLookup(h) \/ GateRun(h) \/ \E t \in Tasks : GateTask(h, t)
    BY <2>1, QuietHandlers
  <2>2. CASE \/ ApproveRow(h) \/ DecideRow(h) \/ ChangesRow(h) \/ GateLink(h)
             \/ \E d \in Deliveries : GateRow(h, d)
    BY <2>2, QuietRows
  <2> QED BY <1>4, <2>1, <2>2 DEF Continue
<1> QED BY <1>1, <1>2, <1>3, <1>4 DEF Next

(* Every step keeps the invariant of sends. *)
LEMMA StepSend == DeliveryInv /\ SendInv /\ [Next]_vars => SendInv'
<1> SUFFICES ASSUME DeliveryInv, SendInv, [Next]_vars PROVE SendInv'
  OBVIOUS
<1>1. CASE UNCHANGED vars
  <2>1. SendQuiet
    BY <1>1 DEF SendQuiet, vars
  <2> QED BY <2>1, SendQuietKeeps DEF DeliveryInv
<1>2. CASE Next
  BY <1>2, QuietOrSend, SendQuietKeeps, SendAttemptIsOwn, DispatchKeepsSendInv,
     SettlingKeepsSendInv DEF DeliveryInv
<1> QED BY <1>1, <1>2

(* Nothing is being sent at first. *)
LEMMA InitSend == Init => SendInv
BY DEF Init, SendInv, SentIsBacked, SendingHasOpenAttempt, SendersOK, SendersApart, AtSend

(* Senders never share an attempt, and each has the one it opened.         *)
THEOREM SendInvariant == Spec => []SendInv
BY InitSend, StepSend, DeliveryInvariant, PTL DEF Spec

(* A step closes at most the attempt the sender has in hand, which is open. *)
LEMMA StepSettlesOnce ==
  ASSUME DeliveryInv, SendInv, [Next]_vars
  PROVE  \A a \in Attempts :
           /\ attempt[a].status \in {"sent", "failed_retryable"} => attempt'[a] = attempt[a]
           /\ attempt[a].status = "sending" =>
                attempt'[a].delivery_request_id = attempt[a].delivery_request_id
<1>1. CASE UNCHANGED attempt
  BY <1>1
<1>2. ASSUME NEW h \in Handlers, NEW b \in Attempts, SendAttempt(h, b)
      PROVE  attempt[b].status = "absent" /\ \A a \in Attempts \ {b} : attempt'[a] = attempt[a]
  BY <1>2 DEF SendAttempt, DeliveryInv, TypeOK
<1>3. ASSUME NEW h \in Handlers, SendSuccess(h) \/ SendFailure(h)
      PROVE  \A a \in Attempts :
               /\ attempt[a].status \in {"sent", "failed_retryable"} => attempt'[a] = attempt[a]
               /\ attempt'[a].delivery_request_id = attempt[a].delivery_request_id
  BY <1>3, SettlesOwn
<1>4. CASE Next
  <2>1. SendQuiet => UNCHANGED attempt
    BY DEF SendQuiet
  <2>2. \A h \in Handlers : DispatchAccepted(h) \/ DispatchFailed(h) => UNCHANGED attempt
    BY DEF DispatchAccepted, DispatchFailed, rows
  <2> QED BY <1>1, <1>2, <1>3, <1>4, <2>1, <2>2, QuietOrSend
<1> QED BY <1>1, <1>4 DEF vars

(* send: a settled attempt is never settled again and no attempt passes to *)
(* another delivery, however many sends of one delivery overlap.           *)
THEOREM EachSendSettlesItsAttempt == Spec => AttemptsSettleOnce
<1>1. DeliveryInv /\ SendInv /\ [Next]_vars =>
        [\A a \in Attempts :
           /\ attempt[a].status \in {"sent", "failed_retryable"} => attempt'[a] = attempt[a]
           /\ attempt[a].status = "sending" =>
                attempt'[a].delivery_request_id = attempt[a].delivery_request_id]_vars
  BY StepSettlesOnce
<1> QED BY <1>1, DeliveryInvariant, SendInvariant, PTL DEF Spec, AttemptsSettleOnce

-----------------------------------------------------------------------------
(* What an approver has recorded before it touches the run.                *)
ApproversDone ==
  \A h \in Handlers : pc[h] = "approve run" =>
    HasDelivery(h) /\ delivery[req[h].delivery].approved_at

ClearInv == DeliveringIsCleared /\ ApproversDone

(* No step removes a delivery, takes its approval back or changes its key. *)
ApprovalsKept ==
  \A d \in Deliveries : Exists(d) =>
    /\ delivery'[d].status # "absent"
    /\ delivery'[d].requires_approval = delivery[d].requires_approval
    /\ delivery'[d].key = delivery[d].key
    /\ delivery[d].approved_at => delivery'[d].approved_at

(* What an approval was given for stays approved. *)
LEMMA StepKeepsApprovals == ASSUME DeliveryInv, [Next]_vars PROVE ApprovalsKept
<1>1. delivery \in [Deliveries -> DeliveryRow]
  BY DEF DeliveryInv, TypeOK
<1>2. CASE UNCHANGED delivery
  BY <1>2 DEF ApprovalsKept, Exists
<1>3. ASSUME NEW d, NEW s, delivery' = [delivery EXCEPT ![d].status = s], s # "absent"
      PROVE  ApprovalsKept
  BY <1>1, <1>3 DEF ApprovalsKept, Exists, DeliveryRow
<1>4. CASE \E d : delivery' = [delivery EXCEPT ![d].status = "approved", ![d].approved_at = TRUE]
  BY <1>1, <1>4 DEF ApprovalsKept, Exists, DeliveryRow
<1>5. CASE \E d : delivery' = [delivery EXCEPT ![d].status = "sent", ![d].sent_at = TRUE]
  BY <1>1, <1>5 DEF ApprovalsKept, Exists, DeliveryRow
<1>6. CASE \E d, t : delivery' = [delivery EXCEPT ![d].approval_task_id = t]
  BY <1>1, <1>6 DEF ApprovalsKept, Exists, DeliveryRow
<1>7. ASSUME NEW h \in Handlers, NEW d \in Deliveries, GateRow(h, d) PROVE ApprovalsKept
  <2>1. ~Exists(d) /\ \A e \in Deliveries \ {d} : delivery'[e] = delivery[e]
    BY <1>1, <1>7 DEF GateRow, Exists
  <2> QED BY <2>1 DEF ApprovalsKept, Exists
<1>8. ASSUME NEW h \in Handlers, Continue(h) PROVE ApprovalsKept
  <2>1. CASE \/ ApproveTask(h) \/ ApproveRun(h) \/ DecideRun(h) \/ ChangesRun(h)
             \/ DispatchAccepted(h) \/ DispatchFailed(h) \/ GateLookup(h) \/ GateRun(h)
             \/ \E t \in Tasks : GateTask(h, t)
    BY <1>2, <2>1 DEF ApproveTask, ApproveRun, DecideRun, ChangesRun, DispatchAccepted,
                      DispatchFailed, GateLookup, GateRun, GateTask, rows
  <2>2. CASE ApproveRow(h) \/ DecideRow(h)
    <3> DEFINE d == req[h].delivery
    <3>1. CASE delivery' = [delivery EXCEPT ![d].status = "approved", ![d].approved_at = TRUE]
      BY <1>4, <3>1
    <3>2. CASE delivery' = [delivery EXCEPT ![d].status = "cancelled"]
      BY <1>3, <3>2
    <3> QED BY <2>2, <3>1, <3>2 DEF ApproveRow, DecideRow
  <2>3. CASE ChangesRow(h) \/ SendFailure(h) \/ \E a \in Attempts : SendAttempt(h, a)
    <3>1. CASE \E s \in {"draft", "failed_retryable", "sending"} :
                 delivery' = [delivery EXCEPT ![req[h].delivery].status = s]
      BY <1>3, <3>1
    <3> QED BY <2>3, <3>1 DEF ChangesRow, SendFailure, SendAttempt
  <2>4. CASE SendSuccess(h) \/ GateLink(h)
    BY <1>5, <1>6, <2>4 DEF SendSuccess, GateLink
  <2> QED BY <1>7, <1>8, <2>1, <2>2, <2>3, <2>4 DEF Continue
<1>9. ASSUME NEW h \in Handlers, Arrive(h) \/ HandlerFails(h) PROVE UNCHANGED delivery
  BY <1>9 DEF Arrive, HandlerFails, Approve, Send, DecideTask, RequestChanges, ApprovalGate,
              DeliveryGate, Receive, rows
<1>10. ASSUME NEW d \in Deliveries, Cancel(d) \/ Retry(d) PROVE ApprovalsKept
  BY <1>3, <1>10 DEF Cancel, Retry
<1> QED BY <1>2, <1>8, <1>9, <1>10 DEF Next, Elsewhere, RunUpdatedElsewhere, vars

(* A handler is about to update the run only after its own ApproveRow.     *)
LEMMA WhoApproves ==
  ASSUME DeliveryInv, [Next]_vars, NEW g \in Handlers, pc'[g] = "approve run"
  PROVE  (pc[g] = "approve run" /\ req'[g] = req[g]) \/ ApproveRow(g)
<1> DEFINE Goal == (pc[g] = "approve run" /\ req'[g] = req[g]) \/ ApproveRow(g)
<1>1. pc \in [Handlers -> Steps] /\ req \in [Handlers -> Locals]
  BY DEF DeliveryInv, TypeOK
<1>2. CASE UNCHANGED <<pc, req>>
  BY <1>2
<1>3. ASSUME NEW h \in Handlers, Arrive(h) \/ Continue(h) \/ HandlerFails(h) PROVE Goal
  <2>1. CASE ApproveRow(h)
    <3>1. req' = req /\ \A f \in Handlers \ {h} : pc'[f] = pc[f]
      BY <1>1, <2>1 DEF ApproveRow, Goto
    <3> QED BY <2>1, <3>1
  <2>2. CASE ~ApproveRow(h)
    <3>1. \E next \in Steps \ {"approve run"} : Goto(h, next)
      BY <1>3, <2>2 DEF Arrive, Continue, HandlerFails, Approve, Send, DecideTask,
         RequestChanges, ApprovalGate, DeliveryGate, Receive, SettleTask, Return, ApproveTask,
         ApproveRun, DecideRun, DecideRow, ChangesRun, ChangesRow, SendAttempt,
         DispatchAccepted, DispatchFailed, SendSuccess, SendFailure, GateLookup, GateRow,
         GateTask, GateRun, GateLink, Steps
    <3>2. pc'[h] # "approve run" /\ \A f \in Handlers \ {h} : pc'[f] = pc[f]
      BY <1>1, <3>1 DEF Goto
    <3>3. \A f \in Handlers \ {h} : req'[f] = req[f]
      BY <1>1, <1>3 DEF Arrive, Continue, HandlerFails, Approve, Send, DecideTask,
         RequestChanges, ApprovalGate, DeliveryGate, Receive, SettleTask, Return, ApproveTask,
         ApproveRow, ApproveRun, DecideRun, DecideRow, ChangesRun, ChangesRow, SendAttempt,
         DispatchAccepted, DispatchFailed, SendSuccess, SendFailure, GateLookup, GateRow,
         GateTask, GateRun, GateLink
    <3> QED BY <3>2, <3>3
  <2> QED BY <2>1, <2>2
<1> QED BY <1>2, <1>3 DEF Next, Cancel, Retry, Elsewhere, RunUpdatedElsewhere, vars

(* The run becomes "delivering" by an approver or by an open delivery.     *)
LEMMA WhoDelivers ==
  ASSUME [Next]_vars, run' = "delivering"
  PROVE  \/ run = "delivering"
         \/ \E h \in Handlers : ApproveRun(h)
         \/ \E h \in Handlers, d \in Deliveries : GateRow(h, d) /\ ~req[h].requires
<1>1. ASSUME NEW h \in Handlers, Continue(h) PROVE run = "delivering" \/ ApproveRun(h)
          \/ \E d \in Deliveries : GateRow(h, d) /\ ~req[h].requires
  BY <1>1 DEF Continue, ApproveTask, ApproveRow, DecideRun, DecideRow, ChangesRun, ChangesRow,
         SendAttempt, DispatchAccepted, DispatchFailed, SendSuccess, SendFailure, FinishRun,
         GateLookup, GateRow, GateTask, GateRun, GateLink, rows
<1>2. ASSUME NEW h \in Handlers, Arrive(h) \/ HandlerFails(h) PROVE run' = run
  BY <1>2 DEF Arrive, HandlerFails, Approve, Send, DecideTask, RequestChanges, ApprovalGate,
              DeliveryGate, Receive, rows
<1>3. (\E d \in Deliveries : Cancel(d) \/ Retry(d)) \/ Elsewhere => run' = run \/ run' # "delivering"
  BY DEF Cancel, Retry, Elsewhere, RunUpdatedElsewhere
<1> QED BY <1>1, <1>2, <1>3 DEF Next, vars

(* Every step keeps what the rows say true. *)
LEMMA StepClear == DeliveryInv /\ ClearInv /\ [Next]_vars => ClearInv'
<1> SUFFICES ASSUME DeliveryInv, ClearInv, [Next]_vars PROVE ClearInv'
  OBVIOUS
<1>1. ApprovalsKept /\ delivery \in [Deliveries -> DeliveryRow]
  BY StepKeepsApprovals DEF DeliveryInv, TypeOK
<1>2. ApproversDone'
  <2>1. ASSUME NEW h \in Handlers, pc'[h] = "approve run"
        PROVE  (HasDelivery(h) /\ delivery[req[h].delivery].approved_at)'
    <3>1. CASE pc[h] = "approve run" /\ req'[h] = req[h]
      BY <1>1, <3>1 DEF ClearInv, ApproversDone, HasDelivery, ApprovalsKept, Exists
    <3>2. CASE ApproveRow(h)
      <4>1. req' = req /\ HasDelivery(h)
        BY <3>2, HandlerFacts DEF ApproveRow, HandlerOK
      <4>2. delivery'[req[h].delivery].approved_at /\ delivery'[req[h].delivery].status = "approved"
        BY <1>1, <3>2, <4>1 DEF ApproveRow, HasDelivery, DeliveryRow
      <4> QED BY <4>1, <4>2 DEF HasDelivery, Exists
    <3> QED BY <2>1, <3>1, <3>2, WhoApproves
  <2> QED BY <2>1 DEF ApproversDone
<1>3. DeliveringIsCleared'
  <2>1. CASE run = "delivering"
    BY <1>1, <2>1 DEF ClearInv, DeliveringIsCleared, ApprovalsKept, Exists
  <2>2. ASSUME NEW h \in Handlers, ApproveRun(h) PROVE DeliveringIsCleared'
    BY <2>2 DEF ClearInv, ApproversDone, ApproveRun, HasDelivery, Exists, DeliveringIsCleared
  <2>3. ASSUME NEW h \in Handlers, NEW d \in Deliveries, GateRow(h, d), ~req[h].requires
        PROVE  DeliveringIsCleared'
    <3>1. ~delivery'[d].requires_approval /\ delivery'[d].status = "approved"
      BY <1>1, <2>3 DEF GateRow
    <3> QED BY <3>1 DEF DeliveringIsCleared, Exists
  <2> QED BY <2>1, <2>2, <2>3, WhoDelivers DEF DeliveringIsCleared
<1> QED BY <1>2, <1>3 DEF ClearInv

(* An approver updates the run only after the delivery's approval is on    *)
(* its row, and no delivery's approval is ever taken back.                 *)
THEOREM ClearInvariant == Spec => []ClearInv
<1>1. Init => ClearInv
  BY DEF Init, ClearInv, DeliveringIsCleared, ApproversDone
<1> QED BY <1>1, StepClear, DeliveryInvariant, PTL DEF Spec

(* What the rows say of sends and of the run is so: sent attempts and sent *)
(* deliveries were taken by the receiver, a delivery that is sending has   *)
(* an attempt under way, and a run that is delivering has a delivery that  *)
(* may go out.                                                             *)
THEOREM RowsStayTrue == Spec => []RowsAreTrue
<1>1. SendInv /\ ClearInv => RowsAreTrue
  BY DEF SendInv, ClearInv, RowsAreTrue
<1> QED BY <1>1, SendInvariant, ClearInvariant, PTL
-----------------------------------------------------------------------------
(* A gate callback between its receipt and its delivery's row, and one     *)
(* that has a delivery and no task yet.                                    *)
AtGate(h) == pc[h] \in {"gate lookup", "gate row"}
AtTask(h) == pc[h] = "gate task" /\ req[h].delivery # None

(* A key belongs to one callback, which makes at most one delivery of it.  *)
KeysOK ==
  /\ \A d \in Deliveries : Exists(d) => delivery[d].key \in receipts
  /\ \A h \in Handlers : AtGate(h) =>
       /\ req[h].key \in receipts
       /\ \A d \in Deliveries : Exists(d) => delivery[d].key # req[h].key
  /\ \A g, h \in Handlers : g # h /\ AtGate(g) /\ AtGate(h) => req[g].key # req[h].key

(* The delivery in hand has no task, and is in no other callback's hand.   *)
TasksOK ==
  /\ \A h \in Handlers : AtTask(h) =>
       \A t \in Tasks : task[t].delivery_request_id # req[h].delivery
  /\ \A g, h \in Handlers : g # h /\ AtTask(g) /\ AtTask(h) => req[g].delivery # req[h].delivery
  /\ \A t, u \in Tasks :
       task[t].delivery_request_id # None
         /\ task[t].delivery_request_id = task[u].delivery_request_id => t = u

GateInv == OneDeliveryPerKey /\ KeysOK /\ TasksOK

(* A step that takes no key and makes no delivery and no task.             *)
GateQuiet ==
  /\ receipts' = receipts
  /\ \A d \in Deliveries : Exists(d)' => Exists(d) /\ delivery'[d].key = delivery[d].key
  /\ \A t \in Tasks : task'[t].delivery_request_id = task[t].delivery_request_id
  /\ \A h \in Handlers :
       /\ AtGate(h)' => AtGate(h) /\ req'[h].key = req[h].key
       /\ AtTask(h)' => AtTask(h) /\ req'[h].delivery = req[h].delivery

(* A step that takes no key and makes no delivery or task keeps the gates apart. *)
LEMMA GateQuietKeeps == GateInv /\ GateQuiet => GateInv'
<1> SUFFICES ASSUME GateInv, GateQuiet PROVE GateInv'
  OBVIOUS
<1>1. OneDeliveryPerKey'
  BY DEF GateInv, GateQuiet, OneDeliveryPerKey
<1>2. KeysOK'
  BY DEF GateInv, GateQuiet, KeysOK
<1>3. TasksOK'
  BY DEF GateInv, GateQuiet, TasksOK
<1> QED BY <1>1, <1>2, <1>3 DEF GateInv

(* Only GateRow adds a delivery.                                           *)
LEMMA NoNewDelivery ==
  ASSUME DeliveryInv, Next, ~\E h \in Handlers, d \in Deliveries : GateRow(h, d)
  PROVE  \A d \in Deliveries : Exists(d)' => Exists(d)
<1>1. delivery \in [Deliveries -> DeliveryRow]
  BY DEF DeliveryInv, TypeOK
<1>2. ASSUME NEW h \in Handlers, Continue(h) PROVE UNCHANGED delivery \/ SameDeliveries
  <2>1. CASE \/ ApproveRow(h) \/ DecideRow(h) \/ ChangesRow(h) \/ SendSuccess(h) \/ SendFailure(h)
             \/ GateLink(h) \/ \E a \in Attempts : SendAttempt(h, a)
    BY <2>1, RowStatementsKeepDeliveries
  <2>2. CASE \/ ApproveTask(h) \/ ApproveRun(h) \/ DecideRun(h) \/ ChangesRun(h)
             \/ DispatchAccepted(h) \/ DispatchFailed(h) \/ GateLookup(h) \/ GateRun(h)
             \/ \E t \in Tasks : GateTask(h, t)
    BY <2>2 DEF ApproveTask, ApproveRun, DecideRun, ChangesRun, DispatchAccepted,
                DispatchFailed, GateLookup, GateRun, GateTask, rows
  <2> QED BY <1>2, <2>1, <2>2 DEF Continue
<1>3. ASSUME NEW h \in Handlers, Arrive(h) \/ HandlerFails(h) PROVE UNCHANGED delivery
  BY <1>3 DEF Arrive, HandlerFails, Approve, Send, DecideTask, RequestChanges, ApprovalGate,
              DeliveryGate, Receive, rows
<1>4. ASSUME NEW e \in Deliveries, Cancel(e) \/ Retry(e)
      PROVE  Exists(e) /\ \A d \in Deliveries \ {e} : delivery'[d] = delivery[d]
  BY <1>1, <1>4 DEF Cancel, Retry
<1>5. CASE SameDeliveries \/ UNCHANGED delivery
  BY <1>5 DEF SameDeliveries, Exists
<1>6. CASE \E e \in Deliveries : Cancel(e) \/ Retry(e)
  BY <1>4, <1>6 DEF Exists
<1> QED BY <1>2, <1>3, <1>5, <1>6 DEF Next, Elsewhere, RunUpdatedElsewhere

(* Only GateTask says which delivery a task is about.                      *)
LEMMA TasksKeepDelivery ==
  ASSUME DeliveryInv, Next, ~\E h \in Handlers, t \in Tasks : GateTask(h, t)
  PROVE  \A t \in Tasks : task'[t].delivery_request_id = task[t].delivery_request_id
<1>1. task \in [Tasks -> TaskRow]
  BY DEF DeliveryInv, TypeOK
<1>2. ASSUME NEW u, NEW s, task' = [task EXCEPT ![u].status = s]
      PROVE  \A t \in Tasks : task'[t].delivery_request_id = task[t].delivery_request_id
  BY <1>1, <1>2 DEF TaskRow
<1>3. UNCHANGED task \/ \E u, s : task' = [task EXCEPT ![u].status = s]
  <2>1. ASSUME NEW h \in Handlers, Arrive(h)
        PROVE  UNCHANGED task \/ \E u, s : task' = [task EXCEPT ![u].status = s]
    BY <2>1 DEF Arrive, Approve, Send, DecideTask, SettleTask, RequestChanges, ApprovalGate,
                DeliveryGate, Receive, rows
  <2>2. ASSUME NEW h \in Handlers, Continue(h), ~ApproveTask(h) PROVE UNCHANGED task
    BY <2>2 DEF Continue, ApproveRow, ApproveRun, DecideRun, DecideRow, ChangesRun, ChangesRow,
         SendAttempt, DispatchAccepted, DispatchFailed, SendSuccess, SendFailure, GateLookup,
         GateRow, GateRun, GateLink, rows
  <2>3. ASSUME NEW h \in Handlers, ApproveTask(h)
        PROVE  task' = [task EXCEPT ![req[h].task].status = "approved"]
    BY <2>3 DEF ApproveTask, SettleTask
  <2> QED BY <2>1, <2>2, <2>3 DEF Next, HandlerFails, Cancel, Retry, Elsewhere,
                                 RunUpdatedElsewhere, rows
<1> QED BY <1>2, <1>3

(* Only receipts, and the row of a guarded delivery, start a gate's next part. *)
LEMMA HandlersKeepGate ==
  ASSUME DeliveryInv, Next,
         ~\E h \in Handlers, k \in Keys : ApprovalGate(h, k) \/ \E r \in BOOLEAN : DeliveryGate(h, k, r),
         ~\E h \in Handlers, d \in Deliveries : GateRow(h, d)
  PROVE  \A h \in Handlers : /\ AtGate(h)' => AtGate(h) /\ req'[h] = req[h]
                             /\ AtTask(h)' => AtTask(h) /\ req'[h] = req[h]
<1> DEFINE Kept(g) == /\ AtGate(g)' => AtGate(g) /\ req'[g] = req[g]
                      /\ AtTask(g)' => AtTask(g) /\ req'[g] = req[g]
           left == Steps \ {"gate lookup", "gate row", "gate task"}
<1>1. pc \in [Handlers -> Steps] /\ req \in [Handlers -> Locals]
  BY DEF DeliveryInv, TypeOK
<1>2. ASSUME UNCHANGED <<pc, req>> PROVE \A g \in Handlers : Kept(g)
  BY <1>2 DEF AtGate, AtTask
<1>3. ASSUME NEW h \in Handlers, Arrive(h) \/ Continue(h) \/ HandlerFails(h)
      PROVE  \A g \in Handlers : Kept(g)
  <2>1. CASE GateLookup(h) /\ UNCHANGED req
    <3>1. pc[h] = "gate lookup" /\ \E next \in {"idle", "gate row"} : Goto(h, next)
      BY <2>1 DEF GateLookup, Return
    <3>2. pc'[h] \in {"idle", "gate row"} /\ \A g \in Handlers \ {h} : pc'[g] = pc[g]
      BY <1>1, <3>1 DEF Goto
    <3> QED BY <2>1, <3>1, <3>2 DEF AtGate, AtTask
  <2>2. CASE ~(GateLookup(h) /\ UNCHANGED req)
    <3>1. \E next \in left : Goto(h, next)
      BY <1>3, <2>2 DEF Arrive, Continue, HandlerFails, Approve, Send, DecideTask,
         RequestChanges, SettleTask, Return, ApproveTask, ApproveRow,
         ApproveRun, DecideRun, DecideRow, ChangesRun, ChangesRow, SendAttempt,
         DispatchAccepted, DispatchFailed, SendSuccess, SendFailure, GateLookup,
         GateTask, GateRun, GateLink, Steps
    <3>2. pc'[h] \in left /\ \A f \in Handlers \ {h} : pc'[f] = pc[f]
      BY <1>1, <3>1 DEF Goto
    <3>3. \A f \in Handlers \ {h} : req'[f] = req[f]
      BY <1>1, <1>3 DEF Arrive, Continue, HandlerFails, Approve, Send, DecideTask,
         RequestChanges, ApprovalGate, DeliveryGate, Receive, SettleTask, Return, ApproveTask,
         ApproveRow, ApproveRun, DecideRun, DecideRow, ChangesRun, ChangesRow, SendAttempt,
         DispatchAccepted, DispatchFailed, SendSuccess, SendFailure, GateLookup, GateRow,
         GateTask, GateRun, GateLink
    <3> QED BY <3>2, <3>3 DEF AtGate, AtTask
  <2> QED BY <2>1, <2>2
<1> QED BY <1>2, <1>3 DEF Next, Cancel, Retry, Elsewhere, RunUpdatedElsewhere

(* A callback takes a key that no delivery and no other callback has.      *)
LEMMA ReceiveKeepsGateInv ==
  ASSUME DeliveryInv, GateInv, NEW h \in Handlers, NEW k \in Keys,
         ApprovalGate(h, k) \/ \E r \in BOOLEAN : DeliveryGate(h, k, r)
  PROVE  GateInv'
<1>1. PICK step \in {"gate lookup", "gate task"}, requires \in BOOLEAN, forDelivery \in BOOLEAN :
        Receive(h, k, step, requires, forDelivery)
  BY DEF ApprovalGate, DeliveryGate
<1> DEFINE local == [NoLocals EXCEPT !.key = k, !.requires = requires, !.forDelivery = forDelivery]
<1>2. TypeOK /\ UNCHANGED <<delivery, task>> /\ receipts' = receipts \cup {k} /\ k \notin receipts
  BY <1>1 DEF DeliveryInv, Receive
<1>3. pc' = [pc EXCEPT ![h] = step] /\ req' = [req EXCEPT ![h] = local]
  BY <1>1 DEF Receive, Goto
<1>4. local.key = k /\ local.delivery = None
  BY DEF NoLocals
<1> HIDE DEF local
<1>5. /\ pc'[h] = step /\ req'[h] = local
      /\ \A g \in Handlers \ {h} : pc'[g] = pc[g] /\ req'[g] = req[g]
  BY <1>2, <1>3 DEF TypeOK
<1>6. OneDeliveryPerKey'
  BY <1>2 DEF GateInv, OneDeliveryPerKey, Exists
<1>7. /\ \A g \in Handlers : AtGate(g)' =>
           (g = h /\ req'[g].key = k) \/ (g # h /\ AtGate(g) /\ req'[g] = req[g])
      /\ \A g \in Handlers : AtTask(g)' => AtTask(g) /\ req'[g] = req[g] /\ g # h
  BY <1>4, <1>5 DEF AtGate, AtTask
<1>8. KeysOK'
  <2>1. /\ \A d \in Deliveries : Exists(d)' => delivery'[d].key \in receipts
        /\ \A g \in Handlers : AtGate(g) => req[g].key \in receipts
                                /\ \A d \in Deliveries : Exists(d)' => delivery'[d].key # req[g].key
        /\ receipts \subseteq receipts' /\ k \in receipts' /\ k \notin receipts
    BY <1>2 DEF GateInv, KeysOK, Exists
  <2>2. \A f, g \in Handlers : f # g /\ AtGate(f)' /\ AtGate(g)' => req'[f].key # req'[g].key
    <3>1. \A f, g \in Handlers : f # g /\ AtGate(f) /\ AtGate(g) => req[f].key # req[g].key
      BY DEF GateInv, KeysOK
    <3> QED BY <1>7, <2>1, <3>1
  <2>3. \A g \in Handlers : AtGate(g)' =>
          /\ req'[g].key \in receipts'
          /\ \A d \in Deliveries : Exists(d)' => delivery'[d].key # req'[g].key
    BY <1>7, <2>1
  <2> QED BY <2>1, <2>2, <2>3 DEF KeysOK
<1>9. TasksOK'
  BY <1>2, <1>7 DEF GateInv, TasksOK
<1> QED BY <1>6, <1>8, <1>9 DEF GateInv

(* The new delivery has its callback's key, and nothing names it yet.      *)
LEMMA GateRowKeepsGateInv ==
  ASSUME DeliveryInv, GateInv, NEW h \in Handlers, NEW d \in Deliveries, GateRow(h, d)
  PROVE  GateInv'
<1>1. /\ TypeOK /\ AtGate(h) /\ ~Exists(d) /\ UNCHANGED <<task, receipts>>
      /\ delivery \in [Deliveries -> DeliveryRow]
  BY DEF DeliveryInv, TypeOK, GateRow, AtGate, Exists
<1>2. /\ delivery'[d].key = req[h].key
      /\ \A e \in Deliveries \ {d} : delivery'[e] = delivery[e]
  BY <1>1 DEF GateRow
<1>3. /\ pc'[h] = "idle" \/ (pc'[h] = "gate task" /\ req'[h].delivery = d)
      /\ \A g \in Handlers \ {h} : pc'[g] = pc[g] /\ req'[g] = req[g]
  BY <1>1 DEF GateRow, Return, Goto, TypeOK, Locals
<1>4. \A t \in Tasks : task[t].delivery_request_id # d
  BY <1>1, NoneAssumption DEF DeliveryInv, RowsOK
<1>5. \A g \in Handlers : AtTask(g) => req[g].delivery # d
  BY <1>1 DEF DeliveryInv, HandlerOK, HasDelivery, AtTask
<1>6. OneDeliveryPerKey'
  BY <1>1, <1>2 DEF GateInv, OneDeliveryPerKey, KeysOK, Exists
<1>7. KeysOK'
  <2>1. \A g \in Handlers : AtGate(g)' => g # h /\ AtGate(g) /\ req'[g] = req[g]
    BY <1>3 DEF AtGate
  <2>2. \A e \in Deliveries : Exists(e)' => e = d \/ (Exists(e) /\ delivery'[e] = delivery[e])
    BY <1>2 DEF Exists
  <2> QED BY <1>1, <1>2, <2>1, <2>2 DEF GateInv, KeysOK
<1>8. TasksOK'
  <2>1. \A g \in Handlers : AtTask(g)' =>
          \/ g = h /\ req'[g].delivery = d
          \/ g # h /\ AtTask(g) /\ req'[g] = req[g]
    BY <1>3 DEF AtTask
  <2> QED BY <1>1, <1>4, <1>5, <2>1 DEF GateInv, TasksOK
<1> QED BY <1>6, <1>7, <1>8 DEF GateInv

(* The new task is about the delivery in hand, which had none.             *)
LEMMA GateTaskKeepsGateInv ==
  ASSUME DeliveryInv, GateInv, NEW h \in Handlers, NEW t \in Tasks, GateTask(h, t)
  PROVE  GateInv'
<1> DEFINE d == req[h].delivery
           local == [req[h] EXCEPT !.task = t]
<1>1. /\ TypeOK /\ UNCHANGED <<delivery, receipts>> /\ pc[h] = "gate task"
      /\ task \in [Tasks -> TaskRow]
  BY DEF DeliveryInv, TypeOK, GateTask
<1>2. /\ task'[t].delivery_request_id = d
      /\ \A u \in Tasks \ {t} : task'[u] = task[u]
  BY <1>1 DEF GateTask
<1>3. pc' = [pc EXCEPT ![h] = "gate run"] /\ req' = [req EXCEPT ![h] = local]
  BY <1>1 DEF GateTask, Goto, TypeOK
<1> HIDE DEF local, d
<1>4. /\ pc'[h] = "gate run"
      /\ \A g \in Handlers \ {h} : pc'[g] = pc[g] /\ req'[g] = req[g]
  BY <1>1, <1>3, OneMoves
<1>5. /\ \A g \in Handlers : AtGate(g)' => AtGate(g) /\ req'[g] = req[g]
      /\ \A g \in Handlers : AtTask(g)' => g # h /\ AtTask(g) /\ req'[g] = req[g]
  BY <1>4 DEF AtGate, AtTask
<1>6. OneDeliveryPerKey' /\ KeysOK'
  BY <1>1, <1>5 DEF GateInv, OneDeliveryPerKey, KeysOK, Exists
<1>7. d # None =>
        /\ \A u \in Tasks : task[u].delivery_request_id # d
        /\ \A g \in Handlers \ {h} : AtTask(g) => req[g].delivery # d
  BY <1>1 DEF GateInv, TasksOK, AtTask, d
<1>8. TasksOK'
  <2>1. \A g \in Handlers : AtTask(g)' =>
          \A u \in Tasks : task'[u].delivery_request_id # req'[g].delivery
    <3>1. \A g \in Handlers : AtTask(g)' => req[g].delivery # d
      BY <1>5, <1>7 DEF AtTask
    <3> QED BY <1>2, <1>5, <3>1 DEF GateInv, TasksOK
  <2>2. \A g, f \in Handlers : g # f /\ AtTask(g)' /\ AtTask(f)' =>
          req'[g].delivery # req'[f].delivery
    BY <1>5 DEF GateInv, TasksOK
  <2>3. \A u, v \in Tasks :
          task'[u].delivery_request_id # None
            /\ task'[u].delivery_request_id = task'[v].delivery_request_id => u = v
    BY <1>2, <1>7 DEF GateInv, TasksOK
  <2> QED BY <2>1, <2>2, <2>3 DEF TasksOK
<1> QED BY <1>6, <1>8 DEF GateInv

(* Every step keeps the gates apart. *)
LEMMA StepGate == DeliveryInv /\ GateInv /\ [Next]_vars => GateInv'
<1> SUFFICES ASSUME DeliveryInv, GateInv, [Next]_vars PROVE GateInv'
  OBVIOUS
<1>1. CASE UNCHANGED vars
  BY <1>1, GateQuietKeeps DEF GateQuiet, vars, Exists, AtGate, AtTask
<1>2. CASE \E h \in Handlers, k \in Keys :
             ApprovalGate(h, k) \/ \E r \in BOOLEAN : DeliveryGate(h, k, r)
  BY <1>2, ReceiveKeepsGateInv
<1>3. CASE \E h \in Handlers, d \in Deliveries : GateRow(h, d)
  BY <1>3, GateRowKeepsGateInv
<1>4. CASE \E h \in Handlers, t \in Tasks : GateTask(h, t)
  BY <1>4, GateTaskKeepsGateInv
<1>5. ASSUME Next,
             ~\E h \in Handlers, k \in Keys :
                ApprovalGate(h, k) \/ \E r \in BOOLEAN : DeliveryGate(h, k, r),
             ~\E h \in Handlers, d \in Deliveries : GateRow(h, d),
             ~\E h \in Handlers, t \in Tasks : GateTask(h, t)
      PROVE  GateInv'
  <2>1. receipts' = receipts
    BY <1>5 DEF Next, Arrive, Continue, HandlerFails, Approve, Send, DecideTask,
       RequestChanges, ApproveTask, SettleTask, ApproveRow, ApproveRun, DecideRun, DecideRow,
       ChangesRun, ChangesRow, SendAttempt, DispatchAccepted, DispatchFailed, SendSuccess,
       SendFailure, GateLookup, GateRun, GateLink, Cancel, Retry, Elsewhere,
       RunUpdatedElsewhere, rows
  <2>2. \A d \in Deliveries : Exists(d)' => Exists(d) /\ delivery'[d].key = delivery[d].key
    BY <1>5, NoNewDelivery, StepKeepsApprovals DEF ApprovalsKept
  <2>3. \A t \in Tasks : task'[t].delivery_request_id = task[t].delivery_request_id
    BY <1>5, TasksKeepDelivery
  <2>4. \A h \in Handlers : /\ AtGate(h)' => AtGate(h) /\ req'[h] = req[h]
                            /\ AtTask(h)' => AtTask(h) /\ req'[h] = req[h]
    BY <1>5, HandlersKeepGate
  <2>5. GateQuiet
    BY <2>1, <2>2, <2>3, <2>4 DEF GateQuiet
  <2> QED BY <2>5, GateQuietKeeps
<1> QED BY <1>1, <1>2, <1>3, <1>4, <1>5

(* A callback's key and delivery are its own until they are on the rows.   *)
THEOREM GateInvariant == Spec => []GateInv
<1>1. Init => GateInv
  BY DEF Init, GateInv, OneDeliveryPerKey, KeysOK, TasksOK, Exists, AtGate, AtTask
<1> QED BY <1>1, StepGate, DeliveryInvariant, PTL DEF Spec

(* Two gate callbacks never share a delivery or a task, although the key   *)
(* is looked up, the delivery inserted, the task created and the two       *)
(* linked in four statements.                                              *)
THEOREM GatesAreApart == Spec => []GatesStayApart
<1>1. DeliveryInv /\ GateInv => GatesStayApart
  BY DEF DeliveryInv, RowsOK, GateInv, TasksOK, GatesStayApart, TaskPointsBack
<1> QED BY <1>1, GateInvariant, DeliveryInvariant, PTL
=============================================================================
