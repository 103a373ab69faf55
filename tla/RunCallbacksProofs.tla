------------------------- MODULE RunCallbacksProofs -------------------------
(***************************************************************************)
(* Proofs about RunCallbacks for any number of handlers, steps, callbacks  *)
(* and artifacts: every callback is applied once, what the run's row says  *)
(* of its steps was said by the runtime or by a retry, and an end of the   *)
(* run has a reason.                                                       *)
(*                                                                         *)
(* The invariant says what a handler that received a callback may rely on  *)
(* until it commits: its receipt is received and nobody else's, what it    *)
(* read of the other steps was said, and is still so while step events and *)
(* retries have not overlapped.                                            *)
(***************************************************************************)
EXTENDS RunCallbacks, TLAPS

(* A handler that has received a callback and has not committed.           *)
Open(h) == pc[h] \in {"count", "commit", "run event"}

CallbackOK(h) ==
  Open(h) => /\ req[h].callback \in Callbacks
             /\ receipt[req[h].callback] = "received"
             /\ payload[req[h].callback].step = None <=> pc[h] = "run event"

(* A handler that has stored an artifact and has not written its receipt.  *)
ArtifactPCs == {"read refs", "write refs", "artifact receipt"}
ArtifactOK(h) == pc[h] \in ArtifactPCs => req[h].artifact \in Artifacts

OwnCallbacks ==
  \A g, h \in Handlers : Open(g) /\ Open(h) /\ req[g].callback = req[h].callback => g = h

Sent == \A c \in Callbacks : receipt[c] # "absent" => payload[c] \in Payloads

ReceiptInv == /\ TypeOK /\ Sent /\ OwnCallbacks /\ AppliedOnce
              /\ \A h \in Handlers : CallbackOK(h) /\ ArtifactOK(h)

(* Only h moves.                                                           *)
Frame(h) == /\ pc' \in [Handlers -> PCs] /\ req' \in [Handlers -> Locals]
            /\ \A g \in Handlers \ {h} : pc'[g] = pc[g] /\ req'[g] = req[g]

HandlerStep(h) == \/ RuntimeCalls(h) \/ Continue(h) \/ HandlerFails(h) \/ CancelRun(h)
                  \/ \E s \in Steps : RetryStep(h, s)

OutsideStep ==
  \/ \E status \in {"waiting_approval", "waiting_delivery_approval", "delivering",
                    "running", "failed"} : DecideElsewhere(status)
  \/ \E status \in {"waiting_delivery_approval", "delivering"} : GateElsewhere(status)
  \/ \E status \in {"completed", "failed"} : DeliveryEndsElsewhere(status)

(* A step is the environment's or that of one handler. *)
LEMMA StepKinds ==
  [Next]_vars => UNCHANGED vars \/ OutsideStep \/ \E h \in Handlers : HandlerStep(h)
<1>1. Next => OutsideStep \/ \E h \in Handlers : HandlerStep(h)
  BY DEF Next, UsersAct, OutsideStep, HandlerStep
<1> QED BY <1>1

-----------------------------------------------------------------------------
(* Types.                                                                  *)
LEMMA PayloadFacts ==
  ASSUME NEW m \in Payloads
  PROVE  /\ m.type \in EventTypes /\ m.type \in RunStatus /\ m.type \in StepStatus
         /\ m.step \in Steps \cup {None}
         /\ m.step # None => m = [step |-> m.step, type |-> m.type]
         /\ m.step = None => m = [step |-> None, type |-> m.type]
<1>1. CASE m \in [step : Steps, type : StepEvents]
  BY <1>1, StepsAssumption, EventsAssumption DEF RunStatus, StepStatus
<1>2. CASE m \in [step : {None}, type : RunEvents]
  BY <1>2, EventsAssumption DEF RunStatus, StepStatus
<1> QED BY <1>1, <1>2 DEF Payloads

(* A handler at rest has locals of the right type. *)
LEMMA NoLocalsType == NoLocals \in Locals
BY DEF NoLocals, Locals, Unread, StepStatus, EventTypes

(* A handler that moves leaves the others where they are. *)
LEMMA OneMoves ==
  ASSUME TypeOK, NEW h \in Handlers, NEW next \in PCs, NEW l \in Locals,
         pc' = [pc EXCEPT ![h] = next], req' = [req EXCEPT ![h] = l]
  PROVE  Frame(h) /\ pc'[h] = next /\ req'[h] = l
BY DEF TypeOK, Frame

(* A handler that returns is idle and leaves the others where they are. *)
LEMMA Returns ==
  ASSUME TypeOK, NEW h \in Handlers, Return(h)
  PROVE  Frame(h) /\ pc'[h] = "idle" /\ req'[h] = NoLocals
<1>1. "idle" \in PCs
  BY DEF PCs
<1> QED BY <1>1, NoLocalsType, OneMoves DEF Return, Goto

(* A handler that goes on and keeps its local variables.                   *)
LEMMA GoesOn ==
  ASSUME TypeOK, NEW h \in Handlers, NEW next \in PCs, Goto(h, next), UNCHANGED req
  PROVE  Frame(h) /\ pc'[h] = next /\ req'[h] = req[h]
BY DEF TypeOK, Frame, Goto

(* What a handler knows after it received a callback or an artifact, and   *)
(* after it read.                                                          *)
LEMMA Receives ==
  ASSUME TypeOK, NEW h \in Handlers, NEW c \in Callbacks, NEW message \in Payloads,
         Receive(h, c, message)
  PROVE  /\ Frame(h) /\ req'[h].callback = c
         /\ pc'[h] = IF message.step = None THEN "run event" ELSE "count"
<1> DEFINE l == [NoLocals EXCEPT !.callback = c]
<1>1. l \in Locals /\ l.callback = c
  BY NoLocalsType DEF Locals
<1>2. req' = [req EXCEPT ![h] = l]
  BY DEF Receive
<1> HIDE DEF l
<1>3. PICK next \in PCs : /\ pc' = [pc EXCEPT ![h] = next]
                          /\ next = IF message.step = None THEN "run event" ELSE "count"
  BY DEF Receive, Goto, PCs
<1> QED BY <1>1, <1>2, <1>3, OneMoves

(* CountSteps reads the steps as they are, with its own one updated. *)
LEMMA Counts ==
  ASSUME ReceiptInv, NEW h \in Handlers, CountSteps(h)
  PROVE  /\ Frame(h) /\ pc'[h] = "commit" /\ req'[h].callback = req[h].callback
         /\ payload[req[h].callback].step \in Steps /\ payload[req[h].callback] \in Payloads
         /\ req'[h].seen = [step EXCEPT ![payload[req[h].callback].step]
                                      = payload[req[h].callback].type]
<1> DEFINE c == req[h].callback
           m == payload[c]
           seen == [step EXCEPT ![m.step] = m.type]
           l == [req[h] EXCEPT !.seen = seen]
<1>0. TypeOK /\ req[h] \in Locals
  BY DEF ReceiptInv, TypeOK
<1>1. Open(h) /\ pc[h] = "count" /\ CallbackOK(h) /\ Sent
  BY DEF CountSteps, Open, ReceiptInv
<1>2. c \in Callbacks /\ m \in Payloads /\ m.step # None
  BY <1>1 DEF CallbackOK, Sent
<1>3. m.step \in Steps /\ m.type \in StepStatus
  BY <1>2, PayloadFacts
<1>4. seen \in [Steps -> StepStatus]
  BY <1>0, <1>3 DEF TypeOK
<1>5. req' = [req EXCEPT ![h] = [req[h] EXCEPT !.seen = seen]] /\ pc' = [pc EXCEPT ![h] = "commit"]
  BY DEF CountSteps, Goto
<1> HIDE DEF seen
<1>6. l \in Locals /\ l.seen = seen /\ l.callback = c
  BY <1>0, <1>4 DEF Locals
<1>7. "commit" \in PCs /\ req' = [req EXCEPT ![h] = l]
  BY <1>5 DEF PCs
<1> HIDE DEF l
<1>8. Frame(h) /\ pc'[h] = "commit" /\ req'[h] = l
  BY <1>0, <1>5, <1>6, <1>7, OneMoves
<1> QED BY <1>2, <1>3, <1>6, <1>8 DEF seen

(* A handler that commits a step event, and one that applies a run event.  *)
LEMMA Commits ==
  ASSUME ReceiptInv, NEW h \in Handlers, CommitStep(h) \/ ApplyRunEvent(h)
  PROVE  /\ Frame(h) /\ pc'[h] = "idle" /\ Open(h)
         /\ req[h].callback \in Callbacks /\ receipt[req[h].callback] = "received"
         /\ payload[req[h].callback] \in Payloads
         /\ CommitStep(h) => payload[req[h].callback].step \in Steps
         /\ ApplyRunEvent(h) => payload[req[h].callback].step = None
         /\ receipt' = [receipt EXCEPT ![req[h].callback] = "processed"]
         /\ applied' = [applied EXCEPT ![req[h].callback] = applied[req[h].callback] + 1]
         /\ payload' = payload
<1>1. Open(h) /\ CallbackOK(h) /\ Sent /\ TypeOK
  BY DEF CommitStep, ApplyRunEvent, Open, ReceiptInv
<1>2. /\ req[h].callback \in Callbacks /\ receipt[req[h].callback] = "received"
      /\ payload[req[h].callback] \in Payloads
  BY <1>1 DEF CallbackOK, Sent
<1>3. CommitStep(h) => payload[req[h].callback].step \in Steps
  BY <1>1, <1>2, PayloadFacts DEF CallbackOK, CommitStep
<1>4. ApplyRunEvent(h) => payload[req[h].callback].step = None
  BY <1>1 DEF CallbackOK, ApplyRunEvent
<1>5. Frame(h) /\ pc'[h] = "idle"
  BY <1>1, Returns DEF CommitStep, ApplyRunEvent
<1>6. /\ receipt' = [receipt EXCEPT ![req[h].callback] = "processed"]
      /\ applied' = [applied EXCEPT ![req[h].callback] = applied[req[h].callback] + 1]
      /\ payload' = payload
  BY DEF CommitStep, ApplyRunEvent, Processed
<1> QED BY <1>1, <1>2, <1>3, <1>4, <1>5, <1>6

(* Artifacts, commands and handlers that fail leave the callbacks alone.   *)
ArtifactStep(h) == \/ \E a \in Artifacts : StoreArtifact(h, a)
                   \/ ReadRefs(h) \/ WriteRefs(h) \/ ArtifactReceipt(h)
CommandStep(h) == \/ CancelRun(h) \/ CancelRequest(h) \/ CancelFinish(h)
                  \/ \E s \in Steps : RetryStep(h, s)
                  \/ RetryRun(h) \/ RetryRunning(h)
CallbackStep(h) == \/ \E c \in Callbacks, message \in Payloads : Receive(h, c, message)
                   \/ CountSteps(h) \/ CommitStep(h) \/ ApplyRunEvent(h)

(* A handler's step belongs to a callback, an artifact or a command, or ends
   it early. *)
LEMMA HandlerKinds ==
  ASSUME NEW h \in Handlers, HandlerStep(h)
  PROVE  CallbackStep(h) \/ ArtifactStep(h) \/ CommandStep(h) \/ HandlerFails(h)
BY DEF HandlerStep, RuntimeCalls, Continue, CallbackStep, ArtifactStep, CommandStep

(* Outside callbacks no receipt, payload or count of effects changes. *)
LEMMA ElsewhereMoves ==
  ASSUME ReceiptInv, NEW h \in Handlers, ArtifactStep(h) \/ CommandStep(h) \/ HandlerFails(h)
  PROVE  Frame(h) /\ ~Open(h)' /\ ArtifactOK(h)' /\ UNCHANGED <<receipt, payload, applied>>
<1> USE DEF Open, ArtifactOK, ArtifactPCs
<1>0. TypeOK /\ req[h] \in Locals /\ ArtifactOK(h)
  BY DEF TypeOK, ReceiptInv
<1>1. CASE ArtifactStep(h)
  <2>1. ASSUME NEW a \in Artifacts, StoreArtifact(h, a) PROVE Frame(h) /\ ~Open(h)' /\ ArtifactOK(h)'
    <3> DEFINE l == [NoLocals EXCEPT !.artifact = a]
    <3>1. l \in Locals /\ l.artifact = a
      BY NoLocalsType DEF Locals
    <3>2. pc' = [pc EXCEPT ![h] = "read refs"] /\ req' = [req EXCEPT ![h] = l]
      BY <2>1 DEF StoreArtifact, Goto
    <3> HIDE DEF l
    <3>3. "read refs" \in PCs
      BY DEF PCs
    <3> QED BY <1>0, <3>1, <3>2, <3>3, OneMoves
  <2>2. ASSUME ReadRefs(h) PROVE Frame(h) /\ ~Open(h)' /\ ArtifactOK(h)'
    <3> DEFINE l == [req[h] EXCEPT !.refs = artifact_refs]
    <3>1. l \in Locals /\ l.artifact = req[h].artifact /\ pc[h] = "read refs"
      BY <1>0, <2>2 DEF TypeOK, Locals, ReadRefs
    <3>2. pc' = [pc EXCEPT ![h] = "write refs"] /\ req' = [req EXCEPT ![h] = l]
      BY <2>2 DEF ReadRefs, Goto
    <3> HIDE DEF l
    <3>3. "write refs" \in PCs
      BY DEF PCs
    <3> QED BY <1>0, <3>1, <3>2, <3>3, OneMoves
  <2>3. ASSUME WriteRefs(h) PROVE Frame(h) /\ ~Open(h)' /\ ArtifactOK(h)'
    <3>1. /\ "artifact receipt" \in PCs /\ Goto(h, "artifact receipt") /\ UNCHANGED req
          /\ pc[h] = "write refs"
      BY <2>3 DEF WriteRefs, PCs
    <3> QED BY <1>0, <3>1, GoesOn
  <2>4. ASSUME ArtifactReceipt(h) PROVE Frame(h) /\ ~Open(h)' /\ ArtifactOK(h)'
    BY <1>0, <2>4, Returns DEF ArtifactReceipt
  <2>5. Frame(h) /\ ~Open(h)' /\ ArtifactOK(h)'
    BY <1>1, <2>1, <2>2, <2>3, <2>4 DEF ArtifactStep
  <2>6. UNCHANGED <<receipt, payload, applied>>
    BY <1>1 DEF ArtifactStep, StoreArtifact, ReadRefs, WriteRefs, ArtifactReceipt, rows, history
  <2> QED BY <2>5, <2>6
<1>2. CASE CommandStep(h)
  <2>1. ASSUME CancelFinish(h) \/ RetryRunning(h) PROVE Frame(h) /\ ~Open(h)' /\ ArtifactOK(h)'
    BY <1>0, <2>1, Returns DEF CancelFinish, RetryRunning
  <2>2. ASSUME CancelRun(h) \/ CancelRequest(h) \/ RetryRun(h) PROVE Frame(h) /\ ~Open(h)' /\ ArtifactOK(h)'
    <3>1. PICK next \in {"cancel request", "cancel finish", "retry running"} :
            Goto(h, next) /\ UNCHANGED req
      BY <2>2 DEF CancelRun, CancelRequest, RetryRun
    <3>2. next \in PCs
      BY DEF PCs
    <3> QED BY <1>0, <3>1, <3>2, GoesOn
  <2>3. ASSUME NEW s \in Steps, RetryStep(h, s) PROVE Frame(h) /\ ~Open(h)' /\ ArtifactOK(h)'
    <3>1. "retry run" \in PCs /\ Goto(h, "retry run") /\ UNCHANGED req
      BY <2>3 DEF RetryStep, PCs
    <3> QED BY <1>0, <3>1, GoesOn
  <2>4. Frame(h) /\ ~Open(h)' /\ ArtifactOK(h)'
    BY <1>2, <2>1, <2>2, <2>3 DEF CommandStep
  <2>5. UNCHANGED <<receipt, payload, applied>>
    BY <1>2 DEF CommandStep, CancelRun, CancelRequest, CancelFinish, RetryStep, RetryRun,
                RetryRunning, rows, history
  <2> QED BY <2>4, <2>5
<1>3. CASE HandlerFails(h)
  <2>1. UNCHANGED <<receipt, payload, applied>>
    BY <1>3 DEF HandlerFails, rows, history
  <2> QED BY <1>0, <1>3, <2>1, Returns DEF HandlerFails
<1> QED BY <1>1, <1>2, <1>3

(* The rows and the histories that no callback has to do with.             *)
RowTypes ==
  /\ run \in [status : RunStatus, finished : BOOLEAN]
  /\ step \in [Steps -> StepStatus] /\ step_status \in [Steps -> StepStatus]
  /\ documents \subseteq Artifacts /\ artifact_refs \subseteq Artifacts
  /\ ingested \subseteq Artifacts
  /\ retried \subseteq Steps /\ overlap \subseteq {"steps", "artifacts"}
  /\ delivered \in BOOLEAN
ReceiptTypes ==
  /\ receipt \in [Callbacks -> {"absent", "received", "processed"}]
  /\ payload \in [Callbacks -> Payloads \cup {None}]
  /\ applied \in [Callbacks -> Nat]

(* The types are those of the rows, the receipts and the handlers. *)
LEMMA TypesByPart ==
  TypeOK <=> RowTypes /\ ReceiptTypes /\ pc \in [Handlers -> PCs] /\ req \in [Handlers -> Locals]
BY DEF TypeOK, RowTypes, ReceiptTypes

(* Every step keeps the types of the rows. *)
LEMMA RowTypesKept ==
  ASSUME ReceiptInv, OutsideStep \/ \E h \in Handlers : HandlerStep(h) PROVE RowTypes'
<1>0. RowTypes /\ TypeOK
  BY TypesByPart DEF ReceiptInv
<1>1. CASE OutsideStep
  <2>1. ASSUME NEW status \in RunStatus,
               DecideElsewhere(status) \/ GateElsewhere(status) \/ DeliveryEndsElsewhere(status)
        PROVE  RowTypes'
    <3>1. /\ run' \in [status : RunStatus, finished : BOOLEAN]
          /\ UNCHANGED <<step, step_status, documents, artifact_refs, ingested, retried, overlap>>
      <4>1. \/ run' = [run EXCEPT !.status = status]
            \/ \E finished \in BOOLEAN : run' = [status |-> status, finished |-> finished]
        BY <2>1 DEF DecideElsewhere, GateElsewhere, DeliveryEndsElsewhere, SetRun
      <4>2. run' \in [status : RunStatus, finished : BOOLEAN]
        BY <1>0, <4>1 DEF RowTypes
      <4> QED BY <2>1, <4>2 DEF DecideElsewhere, GateElsewhere, DeliveryEndsElsewhere, history
    <3>2. delivered' \in BOOLEAN
      <4>1. CASE UNCHANGED delivered
        BY <1>0, <4>1 DEF RowTypes
      <4>2. CASE delivered' = (delivered \/ status = "completed")
        BY <4>2
      <4> QED BY <2>1, <4>1, <4>2 DEF DecideElsewhere, GateElsewhere, DeliveryEndsElsewhere, history
    <3> QED BY <1>0, <3>1, <3>2 DEF RowTypes
  <2>2. {"waiting_approval", "waiting_delivery_approval", "delivering", "running", "failed",
         "completed"} \subseteq RunStatus
    BY DEF RunStatus, EventTypes
  <2> QED BY <1>1, <2>1, <2>2 DEF OutsideStep
<1>2. ASSUME NEW h \in Handlers, CommandStep(h) PROVE RowTypes'
  <2>1. CASE \E s \in Steps : RetryStep(h, s)
    <3>1. PICK s \in Steps : RetryStep(h, s)
      BY <2>1
    <3>2. "pending" \in StepStatus
      BY DEF StepStatus
    <3>3. overlap' \subseteq {"steps", "artifacts"}
      BY <1>0, <3>1 DEF RetryStep, Note, RowTypes
    <3> QED BY <1>0, <3>1, <3>2, <3>3 DEF RetryStep, RowTypes
  <2>2. CASE CancelRun(h) \/ CancelRequest(h) \/ CancelFinish(h) \/ RetryRun(h) \/ RetryRunning(h)
    <3>1. /\ run' \in [status : RunStatus, finished : BOOLEAN]
          /\ UNCHANGED <<step, step_status, documents, artifact_refs, ingested, retried, overlap,
                         delivered>>
      <4>1. {"cancel_requested", "cancelled", "retrying", "running"} \subseteq RunStatus
        BY DEF RunStatus, EventTypes
      <4>2. \A status \in RunStatus :
              [run EXCEPT !.status = status] \in [status : RunStatus, finished : BOOLEAN]
        BY <1>0 DEF RowTypes
      <4>3. run' \in [status : RunStatus, finished : BOOLEAN]
        <5>1. CASE CancelRequest(h) \/ RetryRun(h) \/ RetryRunning(h)
          BY <4>1, <4>2, <5>1 DEF CancelRequest, RetryRun, RetryRunning, SetRun
        <5>2. CASE CancelRun(h) \/ CancelFinish(h)
          <6>1. run' = run \/ run' = [status |-> "cancelled", finished |-> TRUE]
            BY <5>2 DEF CancelRun, CancelFinish, rows
          <6>2. [status |-> "cancelled", finished |-> TRUE]
                  \in [status : RunStatus, finished : BOOLEAN]
            BY DEF RunStatus
          <6>3. run \in [status : RunStatus, finished : BOOLEAN]
            BY <1>0 DEF RowTypes
          <6> QED BY <6>1, <6>2, <6>3
        <5> QED BY <2>2, <5>1, <5>2
      <4> QED BY <2>2, <4>3 DEF CancelRun, CancelRequest, CancelFinish, RetryRun, RetryRunning,
                                rows, history
    <3> QED BY <1>0, <3>1 DEF RowTypes
  <2> QED BY <1>2, <2>1, <2>2 DEF CommandStep
<1>3. ASSUME NEW h \in Handlers, ArtifactStep(h) PROVE RowTypes'
  <2>1. /\ pc[h] \in ArtifactPCs => req[h].artifact \in Artifacts
        /\ req[h].refs \subseteq Artifacts
    BY <1>0 DEF TypeOK, Locals, ReceiptInv, ArtifactOK
  <2>2. overlap' \subseteq {"steps", "artifacts"}
    BY <1>0, <1>3 DEF ArtifactStep, StoreArtifact, ReadRefs, WriteRefs, ArtifactReceipt, Note,
                      RowTypes, history
  <2>3. UNCHANGED <<run, step, step_status, retried, delivered>>
    BY <1>3 DEF ArtifactStep, StoreArtifact, ReadRefs, WriteRefs, ArtifactReceipt, rows, history
  <2>4. documents' \subseteq Artifacts /\ artifact_refs' \subseteq Artifacts
        /\ ingested' \subseteq Artifacts
    BY <1>0, <1>3, <2>1
       DEF ArtifactStep, StoreArtifact, ReadRefs, WriteRefs, ArtifactReceipt, RowTypes, rows,
           ArtifactPCs
  <2> QED BY <1>0, <2>2, <2>3, <2>4 DEF RowTypes
<1>4. ASSUME NEW h \in Handlers, CallbackStep(h) PROVE RowTypes'
  <2>1. CASE CountSteps(h)
    <3>1. UNCHANGED <<rows, retried, delivered>> /\ overlap' \subseteq {"steps", "artifacts"}
      BY <1>0, <2>1 DEF CountSteps, Note, RowTypes
    <3> QED BY <1>0, <3>1 DEF RowTypes, rows
  <2>2. CASE \E c \in Callbacks, message \in Payloads : Receive(h, c, message)
    BY <1>0, <2>2 DEF Receive, RowTypes, history
  <2>3. CASE CommitStep(h)
    <3> DEFINE m == payload[req[h].callback]
    <3>1. m.step \in Steps /\ m.type \in StepStatus /\ m.type \in RunStatus
      BY <2>3, Commits, PayloadFacts
    <3>2. req[h].seen \in [Steps -> StepStatus]
      BY <1>0 DEF TypeOK, Locals
    <3>3. run' \in [status : RunStatus, finished : BOOLEAN]
      BY <1>0, <2>3, <3>1 DEF CommitStep, RunAfterStep, RowTypes, RunStatus, EventTypes
    <3>4. step' \in [Steps -> StepStatus] /\ step_status' \in [Steps -> StepStatus]
      BY <1>0, <2>3, <3>1, <3>2 DEF CommitStep, RowTypes
    <3> QED BY <1>0, <2>3, <3>3, <3>4 DEF CommitStep, RowTypes
  <2>4. CASE ApplyRunEvent(h)
    <3>1. payload[req[h].callback].type \in RunStatus
      BY <2>4, Commits, PayloadFacts
    <3> QED BY <1>0, <2>4, <3>1 DEF ApplyRunEvent, RowTypes
  <2> QED BY <1>4, <2>1, <2>2, <2>3, <2>4 DEF CallbackStep
<1>5. ASSUME NEW h \in Handlers, HandlerFails(h) PROVE RowTypes'
  BY <1>0, <1>5 DEF HandlerFails, RowTypes, rows, history
<1> QED BY <1>1, <1>2, <1>3, <1>4, <1>5, HandlerKinds

-----------------------------------------------------------------------------
(* Receipts.                                                               *)
LEMMA InitReceipts == Init => ReceiptInv
<1> SUFFICES ASSUME Init PROVE ReceiptInv
  OBVIOUS
<1>1. TypeOK
  BY NoLocalsType DEF Init, TypeOK, RunStatus, StepStatus, EventTypes, PCs
<1>2. \A h \in Handlers : ~Open(h)
  BY DEF Init, Open
<1>4. \A h \in Handlers : ArtifactOK(h)
  BY DEF Init, ArtifactOK, ArtifactPCs
<1>3. Sent /\ AppliedOnce
  BY DEF Init, Sent, AppliedOnce
<1> QED BY <1>1, <1>2, <1>3, <1>4 DEF ReceiptInv, OwnCallbacks, CallbackOK

(* Only h moves, and of the receipts only the one of its callback, or of a *)
(* callback that was never seen.                                           *)
LEMMA ReceiptMove ==
  ASSUME ReceiptInv, RowTypes', ReceiptTypes', Sent', AppliedOnce', NEW h \in Handlers,
         Frame(h), CallbackOK(h)', ArtifactOK(h)',
         \A c \in Callbacks : \/ receipt[c] = "absent"
                              \/ /\ payload'[c] = payload[c]
                                 /\ receipt'[c] = receipt[c] \/ (Open(h) /\ req[h].callback = c),
         Open(h)' => \/ Open(h) /\ req'[h].callback = req[h].callback
                     \/ receipt[req'[h].callback] = "absent"
  PROVE  ReceiptInv'
<1>1. TypeOK'
  BY TypesByPart DEF Frame, TypeOK, RowTypes, ReceiptTypes
<1>2. \A g \in Handlers \ {h} :
        /\ Open(g)' <=> Open(g)
        /\ req'[g].callback = req[g].callback
        /\ Open(g) => /\ req[g].callback \in Callbacks /\ receipt[req[g].callback] = "received"
                      /\ Open(h) => req[g].callback # req[h].callback
  BY DEF Frame, Open, ReceiptInv, OwnCallbacks, CallbackOK
<1>3. ASSUME NEW g \in Handlers \ {h} PROVE CallbackOK(g)'
  <2>1. CallbackOK(g) /\ pc'[g] = pc[g] /\ req'[g].callback = req[g].callback
    BY DEF ReceiptInv, Frame
  <2>2. Open(g) => receipt'[req[g].callback] = receipt[req[g].callback]
                   /\ payload'[req[g].callback] = payload[req[g].callback]
    BY <1>2
  <2> QED BY <1>2, <2>1, <2>2 DEF CallbackOK
<1>4. OwnCallbacks'
  <2>1. \A g \in Handlers \ {h} : Open(g)' /\ Open(h)' => req'[g].callback # req'[h].callback
    BY <1>2
  <2>2. \A f, g \in Handlers \ {h} :
          Open(f)' /\ Open(g)' /\ req'[f].callback = req'[g].callback => f = g
    BY <1>2 DEF ReceiptInv, OwnCallbacks
  <2> QED BY <2>1, <2>2 DEF OwnCallbacks
<1>5. \A g \in Handlers \ {h} : ArtifactOK(g)'
  BY DEF ReceiptInv, ArtifactOK, Frame
<1> QED BY <1>1, <1>3, <1>4, <1>5 DEF ReceiptInv

(* Every step keeps the invariant of receipts. *)
LEMMA StepReceipts == ReceiptInv /\ [Next]_vars => ReceiptInv'
<1> SUFFICES ASSUME ReceiptInv, [Next]_vars PROVE ReceiptInv'
  OBVIOUS
<1>0. TypeOK /\ RowTypes /\ ReceiptTypes /\ Sent /\ AppliedOnce
  BY TypesByPart DEF ReceiptInv
<1>1. CASE UNCHANGED vars
  BY <1>1 DEF vars, rows, history, ReceiptInv, TypeOK, Sent, OwnCallbacks, CallbackOK, Open,
              AppliedOnce, ArtifactOK
<1>2. CASE OutsideStep
  <2>1. UNCHANGED <<receipt, payload, applied, pc, req>>
    BY <1>2 DEF OutsideStep, DecideElsewhere, GateElsewhere, DeliveryEndsElsewhere, history
  <2>2. TypeOK'
    BY <1>0, <1>2, <2>1, RowTypesKept DEF TypeOK, RowTypes
  <2> QED BY <2>1, <2>2 DEF ReceiptInv, Sent, OwnCallbacks, CallbackOK, Open, AppliedOnce,
                          ArtifactOK
<1>3. ASSUME NEW h \in Handlers, ArtifactStep(h) \/ CommandStep(h) \/ HandlerFails(h), RowTypes'
      PROVE  ReceiptInv'
  <2>1. Frame(h) /\ ~Open(h)' /\ ArtifactOK(h)' /\ UNCHANGED <<receipt, payload, applied>>
    BY <1>3, ElsewhereMoves
  <2>2. ReceiptTypes' /\ Sent' /\ AppliedOnce'
    BY <1>0, <2>1 DEF ReceiptTypes, Sent, AppliedOnce
  <2>3. CallbackOK(h)'
    BY <2>1 DEF CallbackOK
  <2> QED BY <1>3, <2>1, <2>2, <2>3, ReceiptMove
<1>4. ASSUME NEW h \in Handlers, NEW c \in Callbacks, NEW message \in Payloads,
             Receive(h, c, message), RowTypes'
      PROVE  ReceiptInv'
  <2>1. /\ Frame(h) /\ req'[h].callback = c
        /\ pc'[h] = IF message.step = None THEN "run event" ELSE "count"
    BY <1>0, <1>4, Receives
  <2>2. /\ receipt[c] = "absent" /\ receipt' = [receipt EXCEPT ![c] = "received"]
        /\ payload' = [payload EXCEPT ![c] = message] /\ applied' = applied
    BY <1>4 DEF Receive, history
  <2>3. ReceiptTypes' /\ Sent' /\ AppliedOnce'
    BY <1>0, <2>2 DEF ReceiptTypes, Sent, AppliedOnce
  <2>4. receipt'[c] = "received" /\ payload'[c] = message
    BY <1>0, <2>2 DEF ReceiptTypes
  <2>5. CallbackOK(h)' /\ ArtifactOK(h)'
    BY <2>1, <2>4 DEF CallbackOK, ArtifactOK, ArtifactPCs
  <2>6. \A d \in Callbacks \ {c} : receipt'[d] = receipt[d] /\ payload'[d] = payload[d]
    BY <1>0, <2>2 DEF ReceiptTypes
  <2> QED BY <1>4, <2>1, <2>2, <2>3, <2>5, <2>6, ReceiptMove
<1>5. ASSUME NEW h \in Handlers, CountSteps(h), RowTypes' PROVE ReceiptInv'
  <2>1. UNCHANGED <<receipt, payload, applied>> /\ Open(h) /\ pc[h] = "count"
    BY <1>5 DEF CountSteps, rows, Open
  <2>2. Frame(h) /\ pc'[h] = "commit" /\ req'[h].callback = req[h].callback
    BY <1>5, Counts
  <2>3. CallbackOK(h)' /\ ArtifactOK(h)'
    <3>1. CallbackOK(h)
      BY DEF ReceiptInv
    <3> QED BY <2>1, <2>2, <3>1 DEF CallbackOK, ArtifactOK, ArtifactPCs
  <2>4. ReceiptTypes' /\ Sent' /\ AppliedOnce'
    BY <1>0, <2>1 DEF ReceiptTypes, Sent, AppliedOnce
  <2> QED BY <1>5, <2>1, <2>2, <2>3, <2>4, ReceiptMove
<1>6. ASSUME NEW h \in Handlers, CommitStep(h) \/ ApplyRunEvent(h), RowTypes' PROVE ReceiptInv'
  <2> DEFINE c == req[h].callback
  <2>1. /\ Frame(h) /\ pc'[h] = "idle" /\ Open(h) /\ c \in Callbacks /\ receipt[c] = "received"
        /\ receipt' = [receipt EXCEPT ![c] = "processed"]
        /\ applied' = [applied EXCEPT ![c] = applied[c] + 1] /\ payload' = payload
    BY <1>6, Commits
  <2>2. applied[c] = 0
    BY <1>0, <2>1 DEF AppliedOnce
  <2>3. ReceiptTypes' /\ Sent' /\ AppliedOnce'
    BY <1>0, <2>1, <2>2 DEF ReceiptTypes, Sent, AppliedOnce
  <2>4. ~Open(h)' /\ CallbackOK(h)' /\ ArtifactOK(h)'
    BY <2>1 DEF Open, CallbackOK, ArtifactOK, ArtifactPCs
  <2>5. \A d \in Callbacks : receipt'[d] = receipt[d] \/ d = c
    BY <1>0, <2>1 DEF ReceiptTypes
  <2> QED BY <1>6, <2>1, <2>3, <2>4, <2>5, ReceiptMove
<1>7. ASSUME NEW h \in Handlers, HandlerStep(h) PROVE ReceiptInv'
  <2>1. RowTypes'
    BY <1>7, RowTypesKept
  <2> QED BY <1>3, <1>4, <1>5, <1>6, <1>7, <2>1, HandlerKinds DEF CallbackStep
<1> QED BY <1>1, <1>2, <1>7, StepKinds

(* Deliveries of the same key that overlap and handlers that die between   *)
(* two statements never apply a callback twice: the receipt's key is       *)
(* unique, and it is marked in the transaction that changes the run.       *)
THEOREM ReceiptInvariant == Spec => []ReceiptInv
<1> QED BY InitReceipts, StepReceipts, PTL DEF Spec

(* Rows, receipts and locals keep their types under callbacks, artifacts and
   commands. *)
THEOREM TypesAreRight == Spec => []TypeOK
<1>1. ReceiptInv => TypeOK
  BY DEF ReceiptInv
<1> QED BY <1>1, ReceiptInvariant, PTL

(* However often a callback is delivered, and whoever dies on the way, its
   event takes effect at most once. *)
THEOREM CallbacksAreAppliedOnce == Spec => []AppliedOnce
<1>1. ReceiptInv => AppliedOnce
  BY DEF ReceiptInv
<1> QED BY <1>1, ReceiptInvariant, PTL

-----------------------------------------------------------------------------
(* The copy of the steps on the run's row.                                 *)

(* What was said of a step: where it started, a retry, processed events.   *)
SaidOf(s) == {"queued"} \cup {t \in {"pending"} : s \in retried}
               \cup {t \in EventTypes : \E c \in Callbacks : Said(c, s, t)}

Message(h) == payload[req[h].callback]

SeenSaid(h) ==
  pc[h] = "commit" => /\ req[h].seen[Message(h).step] = Message(h).type
                      /\ \A s \in Steps \ {Message(h).step} : req[h].seen[s] \in SaidOf(s)
SeenCurrent(h) ==
  pc[h] = "commit" => \A s \in Steps \ (retried \cup {Message(h).step}) : req[h].seen[s] = step[s]

OneStepping == \A g, h \in Handlers : pc[g] \in SteppingPCs /\ pc[h] \in SteppingPCs => g = h

CopyIsExact == \A s \in Steps \ retried : step_status[s] = step[s]
StepsSaid == \A s \in Steps : step[s] \in SaidOf(s) /\ step_status[s] \in SaidOf(s)

SnapshotInv ==
  /\ StepsSaid
  /\ \A h \in Handlers : SeenSaid(h)
  /\ "steps" \notin overlap => OneStepping /\ CopyIsExact /\ \A h \in Handlers : SeenCurrent(h)

(* A callback that was received keeps its payload, one that was processed  *)
(* stays so, and what was said stays said.                                 *)
LEMMA CallbacksStay ==
  ASSUME ReceiptInv, [Next]_vars
  PROVE  \A c \in Callbacks :
           receipt[c] # "absent" => /\ payload'[c] = payload[c]
                                    /\ receipt[c] = "processed" => receipt'[c] = "processed"
<1>0. ReceiptTypes
  BY TypesByPart DEF ReceiptInv
<1>1. CASE UNCHANGED <<receipt, payload>>
  BY <1>1
<1>2. ASSUME NEW h \in Handlers, CommitStep(h) \/ ApplyRunEvent(h)
      PROVE  payload' = payload /\ \E d : receipt' = [receipt EXCEPT ![d] = "processed"]
  BY <1>2, Commits
<1>3. ASSUME NEW h \in Handlers, NEW d \in Callbacks, NEW message \in Payloads, Receive(h, d, message)
      PROVE  /\ receipt[d] = "absent" /\ receipt' = [receipt EXCEPT ![d] = "received"]
             /\ payload' = [payload EXCEPT ![d] = message]
  BY <1>3 DEF Receive
<1>4. ASSUME NEW h \in Handlers, HandlerStep(h),
             ~(CommitStep(h) \/ ApplyRunEvent(h)
                 \/ \E d \in Callbacks, message \in Payloads : Receive(h, d, message))
      PROVE  UNCHANGED <<receipt, payload>>
  <2>1. CASE CountSteps(h)
    BY <2>1 DEF CountSteps, rows
  <2>2. CASE ArtifactStep(h) \/ CommandStep(h) \/ HandlerFails(h)
    BY <2>2, ElsewhereMoves
  <2> QED BY <1>4, <2>1, <2>2, HandlerKinds DEF CallbackStep
<1>5. OutsideStep \/ UNCHANGED vars => UNCHANGED <<receipt, payload>>
  BY DEF OutsideStep, DecideElsewhere, GateElsewhere, DeliveryEndsElsewhere, vars, rows
<1>6. ASSUME NEW d, payload' = payload, receipt' = [receipt EXCEPT ![d] = "processed"],
             NEW c \in Callbacks, receipt[c] # "absent"
      PROVE  payload'[c] = payload[c] /\ (receipt[c] = "processed" => receipt'[c] = "processed")
  BY <1>0, <1>6 DEF ReceiptTypes
<1>7. ASSUME NEW d \in Callbacks, NEW message, receipt[d] = "absent",
             receipt' = [receipt EXCEPT ![d] = "received"],
             payload' = [payload EXCEPT ![d] = message], NEW c \in Callbacks, receipt[c] # "absent"
      PROVE  payload'[c] = payload[c] /\ receipt'[c] = receipt[c]
  BY <1>0, <1>7 DEF ReceiptTypes
<1>8. ASSUME NEW h \in Handlers, HandlerStep(h),
             NEW c \in Callbacks, receipt[c] # "absent"
      PROVE  payload'[c] = payload[c] /\ (receipt[c] = "processed" => receipt'[c] = "processed")
  <2>1. CASE CommitStep(h) \/ ApplyRunEvent(h)
    BY <1>2, <1>6, <1>8, <2>1
  <2>2. CASE \E d \in Callbacks, message \in Payloads : Receive(h, d, message)
    <3>1. PICK d \in Callbacks, message \in Payloads : Receive(h, d, message)
      BY <2>2
    <3> QED BY <1>3, <1>7, <1>8, <3>1
  <2> QED BY <1>4, <1>8, <2>1, <2>2
<1> QED BY <1>1, <1>5, <1>8, StepKinds

(* A step that was retried stays one that was. *)
LEMMA RetriedStays == ASSUME [Next]_vars PROVE retried \subseteq retried'
<1>1. ASSUME NEW h \in Handlers, HandlerStep(h) PROVE retried \subseteq retried'
  BY <1>1 DEF HandlerStep, RuntimeCalls, Continue, Receive, StoreArtifact, CountSteps, CommitStep,
              ApplyRunEvent, ReadRefs, WriteRefs, ArtifactReceipt, CancelRequest, CancelFinish,
              RetryRun, RetryRunning, HandlerFails, CancelRun, RetryStep, history
<1>2. OutsideStep \/ UNCHANGED vars => retried \subseteq retried'
  BY DEF OutsideStep, DecideElsewhere, GateElsewhere, DeliveryEndsElsewhere, vars, history
<1> QED BY <1>1, <1>2, StepKinds

(* What the runtime has said of a step is never unsaid. *)
LEMMA SaidStays ==
  ASSUME ReceiptInv, [Next]_vars
  PROVE  /\ \A s \in Steps : SaidOf(s) \subseteq SaidOf(s)'
         /\ \A c \in Callbacks : \A s \in Steps \cup {None} : \A t \in EventTypes :
              Said(c, s, t) => Said(c, s, t)'
<1>1. \A c \in Callbacks : \A s \in Steps \cup {None} : \A t \in EventTypes :
        Said(c, s, t) => Said(c, s, t)'
  BY CallbacksStay DEF Said
<1> QED BY <1>1, RetriedStays DEF SaidOf

(* The copy of the steps is true at first. *)
LEMMA InitSnapshot == Init => SnapshotInv
BY DEF Init, SnapshotInv, StepsSaid, SaidOf, SeenSaid, OneStepping, CopyIsExact, SeenCurrent,
       SteppingPCs

(* What the other handlers have read is as good as it was.                 *)
LEMMA SeenStays ==
  ASSUME ReceiptInv, [Next]_vars, NEW g \in Handlers, pc'[g] = pc[g], req'[g] = req[g], SeenSaid(g)
  PROVE  /\ SeenSaid(g)'
         /\ pc[g] = "commit" => Message(g)' = Message(g)
<1>1. CASE pc[g] = "commit"
  <2>1. CallbackOK(g) /\ Open(g)
    BY <1>1 DEF ReceiptInv, Open
  <2>2. payload'[req[g].callback] = payload[req[g].callback]
    BY <2>1, CallbacksStay DEF CallbackOK
  <2>3. Message(g)' = Message(g)
    BY <2>2 DEF Message
  <2>4. \A s \in Steps : SaidOf(s) \subseteq SaidOf(s)'
    BY SaidStays
  <2> QED BY <1>1, <2>3, <2>4 DEF SeenSaid
<1>2. CASE pc[g] # "commit"
  BY <1>2 DEF SeenSaid
<1> QED BY <1>1, <1>2

(* The steps and their copy stay, and nobody starts stepping.              *)
LEMMA SnapshotAside ==
  ASSUME ReceiptInv, [Next]_vars, SnapshotInv, NEW h \in Handlers, Frame(h),
         UNCHANGED <<step, step_status, retried>>, overlap \ {"artifacts"} \subseteq overlap',
         pc'[h] # "commit", pc'[h] \in SteppingPCs => pc[h] \in SteppingPCs
  PROVE  SnapshotInv'
<1>1. StepsSaid'
  BY SaidStays DEF SnapshotInv, StepsSaid
<1>2. \A g \in Handlers \ {h} :
        /\ pc'[g] = pc[g] /\ req'[g] = req[g] /\ SeenSaid(g)'
        /\ pc[g] = "commit" => Message(g)' = Message(g)
  BY SeenStays DEF SnapshotInv, Frame
<1>3. SeenSaid(h)' /\ SeenCurrent(h)'
  BY DEF SeenSaid, SeenCurrent
<1>4. ASSUME "steps" \notin overlap'
      PROVE  OneStepping' /\ CopyIsExact' /\ \A g \in Handlers : SeenCurrent(g)'
  <2>1. OneStepping /\ CopyIsExact /\ \A g \in Handlers : SeenCurrent(g)
    BY <1>4 DEF SnapshotInv
  <2>2. OneStepping'
    BY <1>2, <2>1 DEF OneStepping
  <2>3. CopyIsExact'
    BY <2>1 DEF CopyIsExact
  <2>4. \A g \in Handlers \ {h} : SeenCurrent(g)'
    BY <1>2, <2>1 DEF SeenCurrent
  <2> QED BY <1>3, <2>2, <2>3, <2>4
<1> QED BY <1>1, <1>2, <1>3, <1>4 DEF SnapshotInv

(* What a handler counts is what was said of the steps. *)
LEMMA CountKeepsSnapshot ==
  ASSUME ReceiptInv, [Next]_vars, SnapshotInv, NEW h \in Handlers, CountSteps(h)
  PROVE  SnapshotInv'
<1> DEFINE m == payload[req[h].callback]
<1>1. /\ Frame(h) /\ pc'[h] = "commit" /\ req'[h].callback = req[h].callback
      /\ m.step \in Steps /\ m \in Payloads
      /\ req'[h].seen = [step EXCEPT ![m.step] = m.type]
  BY Counts
<1>2. /\ UNCHANGED <<step, step_status, retried, payload>>
      /\ overlap' = IF Overlapping(h, SteppingPCs) THEN overlap \cup {"steps"} ELSE overlap
  BY DEF CountSteps, rows, Note
<1>3. StepsSaid'
  BY <1>2, SaidStays DEF SnapshotInv, StepsSaid
<1>4. \A g \in Handlers \ {h} :
        /\ pc'[g] = pc[g] /\ req'[g] = req[g] /\ SeenSaid(g)'
        /\ pc[g] = "commit" => Message(g)' = Message(g)
  BY <1>1, SeenStays DEF SnapshotInv, Frame
<1>5. /\ Message(h)' = m /\ req'[h].seen[m.step] = m.type
      /\ \A s \in Steps \ {m.step} : req'[h].seen[s] = step[s]
  BY <1>1, <1>2 DEF Message, ReceiptInv, TypeOK
<1> HIDE DEF m
<1>6. SeenSaid(h)'
  <2>1. \A s \in Steps \ {m.step} : req'[h].seen[s] \in SaidOf(s)'
    BY <1>2, <1>3, <1>5 DEF StepsSaid
  <2> QED BY <1>5, <2>1 DEF SeenSaid
<1>7. ASSUME "steps" \notin overlap'
      PROVE  OneStepping' /\ CopyIsExact' /\ \A g \in Handlers : SeenCurrent(g)'
  <2>1. OneStepping /\ CopyIsExact /\ \A g \in Handlers : SeenCurrent(g)
    BY <1>2, <1>7 DEF SnapshotInv
  <2>2. \A g \in Handlers \ {h} : pc[g] \notin SteppingPCs
    BY <1>2, <1>7 DEF Overlapping
  <2>3. OneStepping'
    BY <1>4, <2>2 DEF OneStepping
  <2>4. CopyIsExact'
    BY <1>2, <2>1 DEF CopyIsExact
  <2>5. SeenCurrent(h)'
    BY <1>2, <1>5 DEF SeenCurrent
  <2>6. \A g \in Handlers \ {h} : SeenCurrent(g)'
    BY <1>4, <2>2 DEF SeenCurrent, SteppingPCs
  <2> QED BY <2>3, <2>4, <2>5, <2>6
<1> QED BY <1>3, <1>4, <1>6, <1>7 DEF SnapshotInv

(* The step event that commits has been said with its commit, and what it  *)
(* copies of the others was said before.                                   *)
LEMMA CommitKeepsSnapshot ==
  ASSUME ReceiptInv, [Next]_vars, SnapshotInv, NEW h \in Handlers, CommitStep(h)
  PROVE  SnapshotInv'
<1> DEFINE c == req[h].callback
           m == payload[c]
           seen == req[h].seen
<1>0. step \in [Steps -> StepStatus] /\ seen \in [Steps -> StepStatus] /\ ReceiptTypes
  BY TypesByPart DEF ReceiptInv, TypeOK, Locals
<1>1. /\ Frame(h) /\ pc'[h] = "idle" /\ c \in Callbacks /\ m \in Payloads /\ m.step \in Steps
      /\ receipt' = [receipt EXCEPT ![c] = "processed"] /\ payload' = payload
      /\ pc[h] = "commit"
  BY Commits DEF CommitStep
<1>2. /\ step' = [step EXCEPT ![m.step] = m.type] /\ step_status' = seen
      /\ UNCHANGED <<overlap, retried>>
  BY DEF CommitStep
<1>3. /\ seen[m.step] = m.type /\ \A s \in Steps \ {m.step} : seen[s] \in SaidOf(s)
  BY <1>1 DEF SnapshotInv, SeenSaid, Message
<1>4. \A s \in Steps : SaidOf(s) \subseteq SaidOf(s)'
  BY SaidStays
<1>5. \A s \in Steps : s = m.step => m.type \in SaidOf(s)'
  <2>1. m.step # None /\ m.type \in EventTypes /\ m = [step |-> m.step, type |-> m.type]
    BY <1>1, PayloadFacts, StepsAssumption
  <2>2. receipt'[c] = "processed" /\ payload'[c] = m
    BY <1>0, <1>1 DEF ReceiptTypes
  <2>3. c \in Callbacks /\ receipt'[c] = "processed"
        /\ payload'[c] = [step |-> m.step, type |-> m.type]
    BY <1>1, <2>1, <2>2
  <2> HIDE DEF m, c
  <2> QED BY <2>1, <2>3 DEF SaidOf, Said
<1> HIDE DEF m, c, seen
<1>6. StepsSaid'
  <2>1. \A s \in Steps : step[s] \in SaidOf(s)
    BY DEF SnapshotInv, StepsSaid
  <2>2. \A s \in Steps : step'[s] = IF s = m.step THEN m.type ELSE step[s]
    BY <1>0, <1>2
  <2>3. \A s \in Steps : step'[s] \in SaidOf(s)'
    BY <1>4, <1>5, <2>1, <2>2
  <2>4. \A s \in Steps : step_status'[s] \in SaidOf(s)'
    BY <1>2, <1>3, <1>4, <1>5
  <2> QED BY <2>3, <2>4 DEF StepsSaid
<1>7. \A g \in Handlers \ {h} :
        /\ pc'[g] = pc[g] /\ req'[g] = req[g] /\ SeenSaid(g)'
        /\ pc[g] = "commit" => Message(g)' = Message(g)
  BY <1>1, SeenStays DEF SnapshotInv, Frame
<1>8. SeenSaid(h)'
  BY <1>1 DEF SeenSaid
<1>9. ASSUME "steps" \notin overlap'
      PROVE  OneStepping' /\ CopyIsExact' /\ \A g \in Handlers : SeenCurrent(g)'
  <2>1. OneStepping /\ CopyIsExact /\ SeenCurrent(h)
    BY <1>2, <1>9 DEF SnapshotInv
  <2>2. \A g \in Handlers \ {h} : pc[g] \notin SteppingPCs
    BY <1>1, <2>1 DEF OneStepping, SteppingPCs
  <2>3. \A g \in Handlers : pc'[g] \notin SteppingPCs
    BY <1>1, <1>7, <2>2 DEF SteppingPCs
  <2>4. \A s \in Steps \ (retried \cup {m.step}) : seen[s] = step[s]
    BY <1>1, <2>1 DEF SeenCurrent, Message, seen, m, c
  <2>5. CopyIsExact'
    BY <1>0, <1>2, <1>3, <2>4 DEF CopyIsExact
  <2> QED BY <2>3, <2>5 DEF OneStepping, SeenCurrent, SteppingPCs
<1> QED BY <1>6, <1>7, <1>8, <1>9 DEF SnapshotInv

(* A retry writes the one status nobody has to say. *)
LEMMA RetryKeepsSnapshot ==
  ASSUME ReceiptInv, [Next]_vars, SnapshotInv, NEW h \in Handlers, NEW s \in Steps, RetryStep(h, s)
  PROVE  SnapshotInv'
<1>0. step \in [Steps -> StepStatus] /\ TypeOK
  BY DEF ReceiptInv, TypeOK
<1>1. /\ step' = [step EXCEPT ![s] = "pending"] /\ retried' = retried \cup {s}
      /\ Goto(h, "retry run") /\ UNCHANGED <<step_status, req, payload>>
      /\ overlap' = IF Overlapping(h, SteppingPCs) THEN overlap \cup {"steps"} ELSE overlap
  BY DEF RetryStep, Note
<1>2. Frame(h) /\ pc'[h] = "retry run"
  <2>1. "retry run" \in PCs
    BY DEF PCs
  <2> QED BY <1>0, <1>1, <2>1, GoesOn
<1>3. StepsSaid'
  <2>1. \A u \in Steps : SaidOf(u) \subseteq SaidOf(u)' /\ step[u] \in SaidOf(u)
                         /\ step_status[u] \in SaidOf(u)
    BY SaidStays DEF SnapshotInv, StepsSaid
  <2>2. \A u \in Steps : u = s => "pending" \in SaidOf(u)'
    BY <1>1 DEF SaidOf
  <2>3. \A u \in Steps : step'[u] = IF u = s THEN "pending" ELSE step[u]
    BY <1>0, <1>1
  <2> QED BY <1>1, <2>1, <2>2, <2>3 DEF StepsSaid
<1>4. \A g \in Handlers \ {h} :
        /\ pc'[g] = pc[g] /\ req'[g] = req[g] /\ SeenSaid(g)'
        /\ pc[g] = "commit" => Message(g)' = Message(g)
  BY <1>2, SeenStays DEF SnapshotInv, Frame
<1>5. SeenSaid(h)' /\ SeenCurrent(h)'
  BY <1>2 DEF SeenSaid, SeenCurrent
<1>6. ASSUME "steps" \notin overlap'
      PROVE  OneStepping' /\ CopyIsExact' /\ \A g \in Handlers : SeenCurrent(g)'
  <2>1. OneStepping /\ CopyIsExact
    BY <1>1, <1>6 DEF SnapshotInv
  <2>2. \A g \in Handlers \ {h} : pc[g] \notin SteppingPCs
    BY <1>1, <1>6 DEF Overlapping
  <2>3. OneStepping'
    BY <1>4, <2>2 DEF OneStepping
  <2>4. CopyIsExact'
    BY <1>0, <1>1, <2>1 DEF CopyIsExact
  <2>5. \A g \in Handlers \ {h} : SeenCurrent(g)'
    BY <1>4, <2>2 DEF SeenCurrent, SteppingPCs
  <2> QED BY <1>5, <2>3, <2>4, <2>5
<1> QED BY <1>3, <1>4, <1>5, <1>6 DEF SnapshotInv

(* Every step keeps the copy true. *)
LEMMA StepSnapshot == ReceiptInv /\ SnapshotInv /\ [Next]_vars => SnapshotInv'
<1> SUFFICES ASSUME ReceiptInv, SnapshotInv, [Next]_vars PROVE SnapshotInv'
  OBVIOUS
<1>0. TypeOK
  BY DEF ReceiptInv
<1>1. CASE OutsideStep \/ UNCHANGED vars
  <2>1. UNCHANGED <<step, step_status, retried, overlap, pc, req>>
    BY <1>1 DEF OutsideStep, DecideElsewhere, GateElsewhere, DeliveryEndsElsewhere, vars, rows,
                history
  <2>2. StepsSaid'
    BY <2>1, SaidStays DEF SnapshotInv, StepsSaid
  <2>3. \A g \in Handlers : /\ pc'[g] = pc[g] /\ req'[g] = req[g] /\ SeenSaid(g)'
                            /\ pc[g] = "commit" => Message(g)' = Message(g)
    BY <2>1, SeenStays DEF SnapshotInv
  <2>4. ASSUME "steps" \notin overlap'
        PROVE  OneStepping' /\ CopyIsExact' /\ \A g \in Handlers : SeenCurrent(g)'
    BY <2>1, <2>3, <2>4 DEF SnapshotInv, OneStepping, CopyIsExact, SeenCurrent
  <2> QED BY <2>2, <2>3, <2>4 DEF SnapshotInv
<1>2. ASSUME NEW h \in Handlers, ArtifactStep(h) \/ HandlerFails(h) PROVE SnapshotInv'
  <2>1. Frame(h)
    BY <1>2, ElsewhereMoves
  <2>2. UNCHANGED <<step, step_status, retried>> /\ overlap \ {"artifacts"} \subseteq overlap'
    BY <1>2 DEF ArtifactStep, StoreArtifact, ReadRefs, WriteRefs, ArtifactReceipt, HandlerFails,
                Note, rows, history
  <2>3. pc'[h] \in {"read refs", "write refs", "artifact receipt", "idle"}
    BY <1>0, <1>2 DEF ArtifactStep, StoreArtifact, ReadRefs, WriteRefs, ArtifactReceipt,
                      HandlerFails, Return, Goto, TypeOK
  <2> QED BY <2>1, <2>2, <2>3, SnapshotAside DEF SteppingPCs
<1>3. ASSUME NEW h \in Handlers,
             \/ CancelRun(h) \/ CancelRequest(h) \/ CancelFinish(h) \/ RetryRun(h)
             \/ RetryRunning(h)
      PROVE  SnapshotInv'
  <2>1. Frame(h)
    BY <1>3, ElsewhereMoves DEF CommandStep
  <2>2. UNCHANGED <<step, step_status, retried, overlap>>
    BY <1>3 DEF CancelRun, CancelRequest, CancelFinish, RetryRun, RetryRunning, rows, history
  <2>3. \/ pc'[h] \in {"cancel request", "cancel finish", "idle"}
        \/ pc'[h] = "retry running" /\ pc[h] = "retry run"
    BY <1>0, <1>3 DEF CancelRun, CancelRequest, CancelFinish, RetryRun, RetryRunning, Return, Goto,
                      TypeOK
  <2> QED BY <2>1, <2>2, <2>3, SnapshotAside DEF SteppingPCs
<1>4. ASSUME NEW h \in Handlers, NEW c \in Callbacks, NEW message \in Payloads,
             Receive(h, c, message)
      PROVE  SnapshotInv'
  <2>1. Frame(h) /\ pc'[h] \in {"run event", "count"}
    BY <1>0, <1>4, Receives
  <2>2. UNCHANGED <<step, step_status, retried, overlap>>
    BY <1>4 DEF Receive, history
  <2> QED BY <2>1, <2>2, SnapshotAside DEF SteppingPCs
<1>5. ASSUME NEW h \in Handlers, ApplyRunEvent(h) PROVE SnapshotInv'
  <2>1. Frame(h) /\ pc'[h] = "idle"
    BY <1>5, Commits
  <2>2. UNCHANGED <<step, step_status, retried, overlap>>
    BY <1>5 DEF ApplyRunEvent
  <2> QED BY <2>1, <2>2, SnapshotAside DEF SteppingPCs
<1>6. ASSUME NEW h \in Handlers, HandlerStep(h) PROVE SnapshotInv'
  BY <1>2, <1>3, <1>4, <1>5, <1>6, HandlerKinds, CountKeepsSnapshot, CommitKeepsSnapshot,
     RetryKeepsSnapshot DEF CallbackStep, CommandStep
<1> QED BY <1>1, <1>6, StepKinds

(* What steps, the run's copy and every handler's reading show was said by the
   runtime or set by a retry, always. *)
THEOREM SnapshotInvariant == Spec => []SnapshotInv
<1> QED BY InitSnapshot, StepSnapshot, ReceiptInvariant, PTL DEF Spec

(* The copy of the steps on the run's row shows nothing that was never     *)
(* said, and is exact as long as step events and retries never overlapped. *)
THEOREM SnapshotsAreTrue == Spec => []SnapshotIsTrue
<1>1. SnapshotInv => SnapshotIsTrue
  BY DEF SnapshotInv, StepsSaid, SaidOf, CopyIsExact, SnapshotIsTrue, SnapshotWasSaid,
         SnapshotCurrent
<1> QED BY <1>1, SnapshotInvariant, PTL

-----------------------------------------------------------------------------
(* Why a run ended.                                                        *)
Backed == \/ delivered
          \/ \E c \in Callbacks : Said(c, None, "completed")
          \/ \A s \in Steps : \E c \in Callbacks : Said(c, s, "completed")

(* What backs the end of a run stays. *)
LEMMA BackedStays ==
  ASSUME ReceiptInv, [Next]_vars, Backed PROVE Backed'
<1>1. "completed" \in EventTypes
  BY DEF EventTypes
<1>2. \A c \in Callbacks : \A s \in Steps \cup {None} :
        Said(c, s, "completed") => Said(c, s, "completed")'
  BY <1>1, SaidStays
<1>3. delivered => delivered'
  <2>1. ASSUME NEW h \in Handlers, HandlerStep(h) PROVE UNCHANGED delivered
    BY <2>1 DEF HandlerStep, RuntimeCalls, Continue, Receive, StoreArtifact, CountSteps,
                CommitStep, ApplyRunEvent, ReadRefs, WriteRefs, ArtifactReceipt, CancelRequest,
                CancelFinish, RetryRun, RetryRunning, HandlerFails, CancelRun, RetryStep, history
  <2>2. UNCHANGED vars => UNCHANGED delivered
    BY DEF vars, history
  <2>3. OutsideStep /\ delivered => delivered'
    BY DEF OutsideStep, DecideElsewhere, GateElsewhere, DeliveryEndsElsewhere, history
  <2> QED BY <2>1, <2>2, <2>3, StepKinds
<1> QED BY <1>2, <1>3 DEF Backed

(* The property as the two facts a step has to keep. *)
LEMMA EndsAreBacked == EndIsBacked <=> /\ run.status = "completed" => Backed
                                       /\ run.status \in {"completed", "cancelled"} => run.finished
BY DEF EndIsBacked, Backed

(* Every step that ends a run has an event or all the steps for it. *)
LEMMA StepEnds ==
  ReceiptInv /\ SnapshotInv /\ SnapshotInv' /\ EndIsBacked /\ [Next]_vars => EndIsBacked'
<1> SUFFICES ASSUME ReceiptInv, SnapshotInv, SnapshotInv', EndIsBacked, [Next]_vars
             PROVE  EndIsBacked'
  OBVIOUS
<1>0. /\ run \in [status : RunStatus, finished : BOOLEAN]
      /\ run.status = "completed" => Backed
      /\ run.status \in {"completed", "cancelled"} => run.finished
  BY EndsAreBacked DEF ReceiptInv, TypeOK
<1>1. ASSUME run'.status = "completed" => Backed' \/ run.status = "completed",
             run'.status \in {"completed", "cancelled"} => run'.finished
      PROVE  EndIsBacked'
  BY <1>0, <1>1, BackedStays DEF EndIsBacked, Backed
<1>2. CASE UNCHANGED run
  BY <1>0, <1>1, <1>2
<1>3. ASSUME NEW status, SetRun(status), status \notin {"completed", "cancelled"}
      PROVE  EndIsBacked'
  BY <1>0, <1>1, <1>3 DEF SetRun
<1>4. CASE OutsideStep
  <2>1. CASE \E status \in {"waiting_approval", "waiting_delivery_approval", "delivering",
                            "running", "failed"} : DecideElsewhere(status)
    BY <1>3, <2>1 DEF DecideElsewhere
  <2>2. CASE \E status \in {"waiting_delivery_approval", "delivering"} : GateElsewhere(status)
    BY <1>1, <2>2 DEF GateElsewhere
  <2>3. CASE \E status \in {"completed", "failed"} : DeliveryEndsElsewhere(status)
    <3>1. PICK status \in {"completed", "failed"} : DeliveryEndsElsewhere(status)
      BY <2>3
    <3>2. run' = [status |-> status, finished |-> TRUE]
          /\ delivered' = (delivered \/ status = "completed")
      BY <3>1 DEF DeliveryEndsElsewhere
    <3>3. status = "completed" => delivered'
      BY <3>2
    <3>4. run'.status = status /\ run'.finished
      BY <3>2
    <3> QED BY <1>1, <3>3, <3>4 DEF Backed
  <2> QED BY <1>4, <2>1, <2>2, <2>3 DEF OutsideStep
<1>5. ASSUME NEW h \in Handlers, CommitStep(h) PROVE EndIsBacked'
  <2> DEFINE type == payload[req[h].callback].type
             seen == req[h].seen
  <2>1. run' = RunAfterStep(type, seen) /\ step_status' = seen
    BY <1>5 DEF CommitStep
  <2>2. AllCompleted(seen) => Backed'
    <3>1. ASSUME AllCompleted(seen), NEW s \in Steps
          PROVE  \E c \in Callbacks : receipt'[c] = "processed"
                                      /\ payload'[c] = [step |-> s, type |-> "completed"]
      <4>1. step_status'[s] \in SaidOf(s)'
        BY DEF SnapshotInv, StepsSaid
      <4>2. step_status'[s] = "completed"
        BY <2>1, <3>1 DEF AllCompleted
      <4> HIDE DEF seen
      <4> QED BY <4>1, <4>2 DEF SaidOf, Said
    <3> QED BY <3>1 DEF Backed, Said
  <2> HIDE DEF type, seen
  <2>3. \/ type \in {"waiting_approval", "failed"} /\ run'.status = type
        \/ AllCompleted(seen) /\ run'.status = "completed" /\ run'.finished
        \/ run'.status = "running"
        \/ run'.status = run.status /\ (run.finished => run'.finished)
    <3>1. /\ type \in {"waiting_approval", "failed"} => run'.status = type
          /\ type \notin {"waiting_approval", "failed"} /\ AllCompleted(seen)
               => run'.status = "completed"
          /\ type \in {"running", "completed"} /\ ~AllCompleted(seen) => run'.status = "running"
          /\ type \notin {"waiting_approval", "failed", "running", "completed"}
               /\ ~AllCompleted(seen) => run'.status = run.status
      BY <2>1 DEF RunAfterStep
    <3>2. run'.finished = (run.finished \/ type = "failed" \/ AllCompleted(seen))
      BY <2>1 DEF RunAfterStep
    <3>3. /\ AllCompleted(seen) => run'.finished
          /\ run.finished => run'.finished
      BY <3>2
    <3> QED BY <3>1, <3>3
  <2> QED BY <1>0, <1>1, <2>2, <2>3
<1>6. ASSUME NEW h \in Handlers, ApplyRunEvent(h) PROVE EndIsBacked'
  <2> DEFINE c == req[h].callback
             m == payload[c]
  <2>1. run' = [status |-> m.type, finished |-> run.finished \/ m.type \in {"completed", "failed"}]
    BY <1>6 DEF ApplyRunEvent
  <2>2. /\ c \in Callbacks /\ m \in Payloads /\ m.step = None /\ ReceiptTypes
        /\ receipt' = [receipt EXCEPT ![c] = "processed"] /\ payload' = payload
    BY <1>6, Commits, TypesByPart DEF ReceiptInv
  <2>3. m.type \in EventTypes /\ m = [step |-> None, type |-> m.type]
    BY <2>2, PayloadFacts
  <2>4. receipt'[c] = "processed" /\ payload'[c] = [step |-> None, type |-> m.type]
    BY <2>2, <2>3 DEF ReceiptTypes
  <2>5. run'.status = m.type /\ (m.type = "completed" => run'.finished) /\ m.type # "cancelled"
    BY <2>1, <2>3 DEF EventTypes
  <2> HIDE DEF m, c
  <2> QED BY <1>1, <2>2, <2>4, <2>5 DEF Backed, Said
<1>7. ASSUME NEW h \in Handlers, CommandStep(h) PROVE EndIsBacked'
  <2>1. CASE CancelFinish(h)
    BY <1>1, <2>1 DEF CancelFinish
  <2>2. CASE CancelRequest(h) \/ RetryRun(h) \/ RetryRunning(h)
    BY <1>3, <2>2 DEF CancelRequest, RetryRun, RetryRunning
  <2>3. CASE CancelRun(h) \/ \E s \in Steps : RetryStep(h, s)
    BY <1>2, <2>3 DEF CancelRun, RetryStep, rows
  <2> QED BY <1>7, <2>1, <2>2, <2>3 DEF CommandStep
<1>8. ASSUME NEW h \in Handlers, HandlerStep(h), ~CommandStep(h), ~CommitStep(h), ~ApplyRunEvent(h)
      PROVE  UNCHANGED run
  BY <1>8 DEF HandlerStep, RuntimeCalls, Continue, CommandStep, Receive, StoreArtifact, CountSteps,
              ReadRefs, WriteRefs, ArtifactReceipt, HandlerFails, rows
<1>9. CASE UNCHANGED vars
  BY <1>2, <1>9 DEF vars, rows
<1> QED BY <1>2, <1>4, <1>5, <1>6, <1>7, <1>8, <1>9, StepKinds

(* A run reads completed only if the runtime or a delivery said so, or     *)
(* every step was reported completed, also when the steps were read before *)
(* other transactions committed; and an ended run has its finished_at.     *)
THEOREM EndsHaveReasons == Spec => []EndIsBacked
<1>1. Init => EndIsBacked
  BY DEF Init, EndIsBacked
<1> QED BY <1>1, StepEnds, ReceiptInvariant, SnapshotInvariant, PTL DEF Spec
===============================================================================
