----------------------------- MODULE MCEventually -----------------------------
(* What must happen in the end.  The live-event outbox, the deliveries,    *)
(* the runtime callbacks and the chat are served by the same processes but *)
(* share no table here, so that a behaviour has one of them in focus and   *)
(* leaves the others as they began; the run explores all of them.  The     *)
(* callbacks come into focus twice, with everything users do to a run and  *)
(* with two artifacts handed in at once.                                   *)
EXTENDS LiveEvents, ChatThread, TLC

CONSTANTS Deliveries, Tasks, Attempts, Keys,               \* of Delivery
          RunSteps, Callbacks, Artifacts, StepEvents       \* of RunCallbacks

VARIABLES focus,
          delivery, task, attempt, deliveryRun, receipts, deliveryPC, deliveryReq, accepted,
          endorsed,
          run, step, step_status, receipt, payload, documents, artifact_refs, ingested, pc, req,
          applied, retried, overlap, delivered

Deliver == INSTANCE Delivery WITH run <- deliveryRun, pc <- deliveryPC, req <- deliveryReq,
                                  CanFail <- FALSE
Call == INSTANCE RunCallbacks WITH Steps <- RunSteps, CanFail <- FALSE, RunEvents <- {},
                                   Commands <- TRUE

deliverVars == <<delivery, task, attempt, deliveryRun, receipts, deliveryPC, deliveryReq,
                 accepted, endorsed>>
callVars == <<run, step, step_status, receipt, payload, documents, artifact_refs, ingested, pc,
              req, applied, retried, overlap, delivered>>
allVars == <<focus, vars, chatVars, deliverVars, callVars>>

EventuallyInit ==
  /\ focus \in {"live events", "chat", "delivery", "callbacks", "uploads"}
  /\ Init /\ ChatInit /\ Deliver!Init /\ Call!Init

(* Users act on the run, or the runtime hands in artifacts.                *)
CallbacksNext ==
  \/ /\ focus \in {"callbacks", "uploads"}
     /\ \E h \in Handlers : Call!RuntimeCalls(h) \/ Call!Continue(h)
     /\ focus = "callbacks" => UNCHANGED documents
  \/ focus = "callbacks" /\ Call!UsersAct

EventuallyNext ==
  /\ \/ focus = "live events" /\ Next /\ UNCHANGED <<chatVars, deliverVars, callVars>>
     \/ focus = "chat" /\ ChatNext /\ UNCHANGED <<vars, deliverVars, callVars>>
     \/ focus = "delivery" /\ Deliver!Next /\ UNCHANGED <<vars, chatVars, callVars>>
     \/ CallbacksNext /\ UNCHANGED <<vars, chatVars, deliverVars>>
  /\ UNCHANGED focus

(* The fairness of each: FairSpec of LiveEvents, Delivery and RunCallbacks *)
(* and ChatFairness.  What is not in focus has no step to take.            *)
EventuallySpec ==
  /\ EventuallyInit /\ [][EventuallyNext]_allVars
  /\ \A p \in Publishers : WF_vars(focus = "live events" /\ Tick(p))
  /\ \A h \in Handlers : /\ WF_chatVars(focus = "chat" /\ ChatContinue(h))
                         /\ WF_deliverVars(focus = "delivery" /\ Deliver!Continue(h))
                         /\ WF_callVars(Call!Continue(h))

-----------------------------------------------------------------------------
(* Every recorded event is published, or failed with its attempts used up, *)
(* or left 'publishing' by an instance that died or gave up its batch: the *)
(* last are the only rows nobody comes back to.                            *)
Stranded(e) == status[e] = "publishing" /\ \A p \in Publishers : e \notin events[p]
EveryEventSettlesOrIsStranded ==
  \A e \in Events : status[e] = "pending" ~>
    (status[e] = "published" \/ Exhausted(e) \/ Stranded(e))

(* While no handler ends early, every opened delivery attempt is settled   *)
(* and every delivery that requires approval gets its task,                *)
DeliveriesSettle == Deliver!AttemptsSettle /\ Deliver!GatesGetTasks
(* every received callback is applied,                                     *)
CallbacksApplied == Call!CallbacksApplied
(* every stored artifact gets its receipt, and none is lost from the run   *)
(* unless two uploads overlapped.                                          *)
ArtifactsArrive == Call!ArtifactsIngested
=============================================================================
