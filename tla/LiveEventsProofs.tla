--------------------------- MODULE LiveEventsProofs ---------------------------
(***************************************************************************)
(* The safety of the live-event outbox, for any events, publishers and     *)
(* limits.  None of the three invariants is inductive alone: what a row's  *)
(* status means depends on where the publisher that claimed it is, and     *)
(* OutboxInv says so.                                                      *)
(***************************************************************************)
EXTENDS LiveEvents, TLAPS

(* current is the row in hand exactly while a broadcast awaits settling.   *)
InHand ==
  \A p \in Publishers :
    /\ phase[p] = "idle" => events[p] = {} /\ current[p] = NoEvent
    /\ phase[p] = "looping" => current[p] = NoEvent
    /\ phase[p] \in {"accepted", "refused"} => current[p] \in events[p]

(* A claimed row reads "publishing", or "published" if the statement that  *)
(* recorded it was applied and yet reported as rejected.                   *)
ClaimedIsPublishing ==
  \A p \in Publishers : \A e \in events[p] :
    \/ status[e] = "publishing"
    \/ status[e] = "published" /\ phase[p] = "refused" /\ e = current[p]

(* A claimed row that was not broadcast yet has an attempt to spend.       *)
AttemptInHand ==
  \A p \in Publishers : \A e \in events[p] : e # current[p] => received[e] < attempt_count[e]

AcceptedWasReceived ==
  \A p \in Publishers : phase[p] = "accepted" => received[current[p]] > 0

OutboxInv ==
  /\ TypeOK /\ InHand /\ ClaimedIsPublishing /\ ExclusiveClaim
  /\ AttemptInHand /\ BoundedBroadcasts /\ AcceptedWasReceived /\ PublishedWasReceived

-----------------------------------------------------------------------------
(* Initially nothing is recorded and nothing is claimed.                   *)
LEMMA InitOutbox == Init => OutboxInv
BY EventsAssumption, LimitsAssumption
   DEF Init, OutboxInv, TypeOK, Statuses, Phases, InHand, ClaimedIsPublishing, ExclusiveClaim,
       AttemptInHand, BoundedBroadcasts, AcceptedWasReceived, PublishedWasReceived

(* What claimPending takes is claimable, so nobody is working on it.       *)
LEMMA BatchIsFree ==
  ASSUME OutboxInv
  PROVE  /\ NextBatch \subseteq Events
         /\ \A e \in NextBatch : /\ status[e] \in {"pending", "failed"}
                                 /\ attempt_count[e] < MaxAttempts
                                 /\ \A p \in Publishers : e \notin events[p]
BY DEF NextBatch, Claimable, OutboxInv, ClaimedIsPublishing

(* Recording an event keeps the invariant. *)
LEMMA RecordEventOutbox ==
  ASSUME OutboxInv, NEW e \in Events, RecordEvent(e) PROVE OutboxInv'
BY DEF OutboxInv, TypeOK, Statuses, Phases, InHand, ClaimedIsPublishing, ExclusiveClaim,
       AttemptInHand, BoundedBroadcasts, AcceptedWasReceived, PublishedWasReceived, RecordEvent

(* A claim takes rows nobody holds. *)
LEMMA ClaimPendingOutbox ==
  ASSUME OutboxInv, NEW p \in Publishers, ClaimPending(p) PROVE OutboxInv'
<1> USE DEF ClaimPending
<1>1. NextBatch \subseteq Events /\ \A e \in NextBatch :
        /\ status[e] \in {"pending", "failed"} /\ attempt_count[e] < MaxAttempts
        /\ \A q \in Publishers : e \notin events[q]
  BY BatchIsFree
<1>2. TypeOK'
  BY <1>1 DEF OutboxInv, TypeOK, Statuses, Phases
<1>3. InHand'
  BY <1>1 DEF OutboxInv, TypeOK, InHand, Phases
<1>4. ClaimedIsPublishing'
  BY <1>1 DEF OutboxInv, TypeOK, InHand, ClaimedIsPublishing
<1>5. ExclusiveClaim'
  BY <1>1 DEF OutboxInv, TypeOK, ExclusiveClaim
<1>6. AttemptInHand' /\ BoundedBroadcasts'
  BY <1>1, LimitsAssumption DEF OutboxInv, TypeOK, AttemptInHand, BoundedBroadcasts, InHand
<1>7. AcceptedWasReceived' /\ PublishedWasReceived'
  BY <1>1 DEF OutboxInv, TypeOK, AcceptedWasReceived, PublishedWasReceived
<1> QED BY <1>2, <1>3, <1>4, <1>5, <1>6, <1>7 DEF OutboxInv

(* A broadcast spends the attempt its row had in hand.                     *)
LEMMA BroadcastOutbox ==
  ASSUME OutboxInv, NEW p \in Publishers, NEW e \in Events,
         BroadcastAccepted(p, e) \/ BroadcastRefused(p, e)
  PROVE  OutboxInv'
<1>1. PICK taken \in {0, 1} :
        /\ phase[p] = "looping" /\ e \in events[p]
        /\ received' = [received EXCEPT ![e] = @ + taken]
        /\ current' = [current EXCEPT ![p] = e]
        /\ phase' = [phase EXCEPT ![p] = phase'[p]]
        /\ phase'[p] = "accepted" => taken = 1
        /\ phase'[p] \in {"accepted", "refused"}
        /\ UNCHANGED <<status, attempt_count, events>>
  <2>1. CASE BroadcastAccepted(p, e)
    <3>1. phase'[p] = "accepted"
      BY <2>1 DEF BroadcastAccepted, OutboxInv, TypeOK
    <3> WITNESS 1 \in {0, 1}
    <3> QED BY <2>1, <3>1 DEF BroadcastAccepted
  <2>2. CASE BroadcastRefused(p, e)
    <3>1. phase'[p] = "refused"
      BY <2>2 DEF BroadcastRefused, OutboxInv, TypeOK
    <3> QED BY <2>2, <3>1 DEF BroadcastRefused
  <2> QED BY <2>1, <2>2
<1>2. taken \in Nat /\ received[e] \in Nat /\ attempt_count[e] \in Nat
  BY DEF OutboxInv, TypeOK
<1>3. current[p] = NoEvent /\ received[e] < attempt_count[e]
  BY <1>1, EventsAssumption DEF OutboxInv, InHand, AttemptInHand, TypeOK
<1>4. TypeOK'
  BY <1>1, <1>2 DEF OutboxInv, TypeOK, Phases
<1>5. InHand'
  BY <1>1 DEF OutboxInv, TypeOK, InHand
<1>6. ClaimedIsPublishing' /\ ExclusiveClaim'
  BY <1>1, <1>3 DEF OutboxInv, TypeOK, ClaimedIsPublishing, ExclusiveClaim
<1>7. AttemptInHand'
  <2> SUFFICES ASSUME NEW q \in Publishers, NEW f \in events[q], f # current'[q]
               PROVE  received'[f] < attempt_count[f]
    BY <1>1 DEF AttemptInHand
  <2>1. f # e
    BY <1>1 DEF OutboxInv, TypeOK, ExclusiveClaim
  <2>2. f \in Events /\ f # current[q]
    BY <1>1, <1>3, EventsAssumption DEF OutboxInv, TypeOK
  <2> QED BY <1>1, <2>1, <2>2 DEF OutboxInv, TypeOK, AttemptInHand
<1>8. BoundedBroadcasts' /\ PublishedWasReceived'
  BY <1>1, <1>2, <1>3 DEF OutboxInv, TypeOK, BoundedBroadcasts, PublishedWasReceived
<1>9. AcceptedWasReceived'
  BY <1>1, <1>2 DEF OutboxInv, TypeOK, AcceptedWasReceived, InHand, ExclusiveClaim
<1> QED BY <1>4, <1>5, <1>6, <1>7, <1>8, <1>9 DEF OutboxInv

(* Settling a row, or giving the whole batch up, hands nothing to anybody. *)
LEMMA LoopOnOutbox ==
  ASSUME OutboxInv, NEW p \in Publishers, phase[p] \in {"accepted", "refused"}, LoopOn(p),
         NEW settled \in {"published", "failed"},
         settled = "published" => phase[p] = "accepted",
         status' = [status EXCEPT ![current[p]] = settled],
         UNCHANGED <<attempt_count, received>>
  PROVE  OutboxInv'
<1> USE DEF LoopOn
<1>1. current[p] \in events[p] /\ current[p] \in Events
  BY DEF OutboxInv, InHand, TypeOK
<1>2. TypeOK'
  BY <1>1 DEF OutboxInv, TypeOK, Statuses, Phases
<1>3. InHand'
  BY DEF OutboxInv, TypeOK, InHand
<1>4. ExclusiveClaim'
  BY DEF OutboxInv, TypeOK, ExclusiveClaim
<1>5. ClaimedIsPublishing'
  <2> SUFFICES ASSUME NEW q \in Publishers, NEW f \in events'[q]
               PROVE  \/ status'[f] = "publishing"
                      \/ status'[f] = "published" /\ phase'[q] = "refused" /\ f = current'[q]
    BY DEF ClaimedIsPublishing
  <2>1. f \in events[q] /\ f # current[p]
    BY <1>1 DEF OutboxInv, TypeOK, ExclusiveClaim
  <2>2. f \in Events /\ status'[f] = status[f]
    BY <2>1 DEF OutboxInv, TypeOK
  <2>3. CASE q = p
    BY <2>1, <2>2, <2>3 DEF OutboxInv, ClaimedIsPublishing
  <2>4. CASE q # p
    BY <2>1, <2>2, <2>4 DEF OutboxInv, TypeOK, ClaimedIsPublishing
  <2> QED BY <2>3, <2>4
<1>6. AttemptInHand' /\ BoundedBroadcasts'
  BY <1>1 DEF OutboxInv, TypeOK, AttemptInHand, BoundedBroadcasts
<1>7. AcceptedWasReceived' /\ PublishedWasReceived'
  BY <1>1 DEF OutboxInv, TypeOK, AcceptedWasReceived, PublishedWasReceived
<1> QED BY <1>2, <1>3, <1>4, <1>5, <1>6, <1>7 DEF OutboxInv

(* A publisher that leaves its loop keeps the invariant. *)
LEMMA AbandonOutbox ==
  ASSUME OutboxInv, NEW p \in Publishers, Abandon(p),
         \/ status' = status
         \/ phase[p] = "refused" /\ status' = [status EXCEPT ![current[p]] = "failed"],
         UNCHANGED <<attempt_count, received>>
  PROVE  OutboxInv'
<1> USE DEF Abandon
<1>1. phase[p] = "refused" => current[p] \in events[p] /\ current[p] \in Events
  BY DEF OutboxInv, InHand, TypeOK
<1>2. TypeOK'
  BY <1>1 DEF OutboxInv, TypeOK, Statuses, Phases
<1>3. InHand'
  BY DEF OutboxInv, TypeOK, InHand
<1>4. ExclusiveClaim'
  BY DEF OutboxInv, TypeOK, ExclusiveClaim
<1>5. ClaimedIsPublishing'
  <2> SUFFICES ASSUME NEW q \in Publishers, NEW f \in events'[q]
               PROVE  \/ status'[f] = "publishing"
                      \/ status'[f] = "published" /\ phase'[q] = "refused" /\ f = current'[q]
    BY DEF ClaimedIsPublishing
  <2>1. q # p /\ f \in events[q] /\ f \in Events
    BY DEF OutboxInv, TypeOK
  <2>2. status'[f] = status[f]
    BY <1>1, <2>1 DEF OutboxInv, TypeOK, ExclusiveClaim
  <2> QED BY <2>1, <2>2 DEF OutboxInv, TypeOK, ClaimedIsPublishing
<1>6. AttemptInHand' /\ BoundedBroadcasts'
  BY <1>1 DEF OutboxInv, TypeOK, AttemptInHand, BoundedBroadcasts
<1>7. AcceptedWasReceived' /\ PublishedWasReceived'
  BY <1>1 DEF OutboxInv, TypeOK, AcceptedWasReceived, PublishedWasReceived
<1> QED BY <1>2, <1>3, <1>4, <1>5, <1>6, <1>7 DEF OutboxInv

(* A rejected update leaves the row with its publisher. *)
LEMMA MarkPublishedRejectedOutbox ==
  ASSUME OutboxInv, NEW p \in Publishers, MarkPublishedRejected(p) PROVE OutboxInv'
<1> USE DEF MarkPublishedRejected
<1>1. current[p] \in events[p] /\ current[p] \in Events /\ received[current[p]] > 0
  BY DEF OutboxInv, InHand, TypeOK, AcceptedWasReceived
<1>2. TypeOK'
  BY <1>1 DEF OutboxInv, TypeOK, Statuses, Phases
<1>3. InHand' /\ ExclusiveClaim'
  BY DEF OutboxInv, TypeOK, InHand, ExclusiveClaim
<1>4. ClaimedIsPublishing'
  <2> SUFFICES ASSUME NEW q \in Publishers, NEW f \in events[q]
               PROVE  \/ status'[f] = "publishing"
                      \/ status'[f] = "published" /\ phase'[q] = "refused" /\ f = current[q]
    BY DEF ClaimedIsPublishing
  <2>1. f \in Events /\ (status[f] = "publishing" \/ q # p)
    BY DEF OutboxInv, TypeOK, ClaimedIsPublishing
  <2>2. CASE q = p
    BY <1>1, <2>1, <2>2 DEF OutboxInv, TypeOK
  <2>3. CASE q # p
    <3>1. f # current[p] /\ f \in Events
      BY <1>1, <2>3 DEF OutboxInv, TypeOK, ExclusiveClaim
    <3> QED BY <1>1, <2>3, <3>1 DEF OutboxInv, TypeOK, ClaimedIsPublishing
  <2> QED BY <2>2, <2>3
<1>5. AttemptInHand' /\ BoundedBroadcasts'
  BY DEF OutboxInv, TypeOK, AttemptInHand, BoundedBroadcasts
<1>6. AcceptedWasReceived' /\ PublishedWasReceived'
  BY <1>1 DEF OutboxInv, TypeOK, AcceptedWasReceived, PublishedWasReceived
<1> QED BY <1>2, <1>3, <1>4, <1>5, <1>6 DEF OutboxInv

-----------------------------------------------------------------------------
(* Every step of the outbox preserves the invariant.                       *)
LEMMA StepOutbox == OutboxInv /\ [Next]_vars => OutboxInv'
<1> SUFFICES ASSUME OutboxInv, [Next]_vars PROVE OutboxInv'
  OBVIOUS
<1>1. CASE UNCHANGED vars
  BY <1>1 DEF vars, OutboxInv, TypeOK, InHand, ClaimedIsPublishing, ExclusiveClaim,
              AttemptInHand, BoundedBroadcasts, AcceptedWasReceived, PublishedWasReceived
<1>2. ASSUME NEW e \in Events, RecordEvent(e) PROVE OutboxInv'
  BY <1>2, RecordEventOutbox
<1>3. ASSUME NEW p \in Publishers, ClaimPending(p) PROVE OutboxInv'
  BY <1>3, ClaimPendingOutbox
<1>4. ASSUME NEW p \in Publishers, NEW e \in Events,
             BroadcastAccepted(p, e) \/ BroadcastRefused(p, e) PROVE OutboxInv'
  BY <1>4, BroadcastOutbox
<1>5. ASSUME NEW p \in Publishers, MarkPublished(p) PROVE OutboxInv'
  BY <1>5, LoopOnOutbox DEF MarkPublished
<1>6. ASSUME NEW p \in Publishers, MarkFailed(p) PROVE OutboxInv'
  BY <1>6, LoopOnOutbox DEF MarkFailed
<1>7. ASSUME NEW p \in Publishers, MarkPublishedRejected(p) PROVE OutboxInv'
  BY <1>7, MarkPublishedRejectedOutbox
<1>8. ASSUME NEW p \in Publishers, MarkFailedRejected(p) PROVE OutboxInv'
  BY <1>8, AbandonOutbox DEF MarkFailedRejected
<1>9. ASSUME NEW p \in Publishers, Crash(p) PROVE OutboxInv'
  BY <1>9, AbandonOutbox DEF Crash
<1> QED BY <1>1, <1>2, <1>3, <1>4, <1>5, <1>6, <1>7, <1>8, <1>9 DEF Next, Tick

(* The strengthened invariant holds in every reachable state.              *)
THEOREM OutboxInvariant == Spec => []OutboxInv
BY InitOutbox, StepOutbox, PTL DEF Spec

(* The rows and the publishers' memory always have the shape the table and *)
(* tick() give them.                                                       *)
THEOREM OutboxTypeCorrect == Spec => []TypeOK
BY OutboxInvariant, PTL DEF OutboxInv

(* claimPending never hands one row to two publishers, however many        *)
(* instances run, and whatever crashes or fails.                           *)
THEOREM ClaimsAreExclusive == Spec => []ExclusiveClaim
BY OutboxInvariant, PTL DEF OutboxInv

(* No event is broadcast more often than attempt_count says, nor attempted *)
(* more often than the limit in claimPending.                              *)
THEOREM BroadcastsAreBounded == Spec => []BoundedBroadcasts
BY OutboxInvariant, PTL DEF OutboxInv

(* A row reads "published" only when the realtime service took the event.  *)
THEOREM PublishedIsTrue == Spec => []PublishedWasReceived
BY OutboxInvariant, PTL DEF OutboxInv

(* What the table says of broadcasts is true: at most one per attempt, at  *)
(* most the limit in all, and none marked published that was not received. *)
THEOREM OutboxIsHonest == Spec => []BroadcastsAreCounted
BY BroadcastsAreBounded, PublishedIsTrue, PTL DEF BroadcastsAreCounted
=============================================================================
