------------------------------ MODULE LiveEvents ------------------------------
(***************************************************************************)
(* The live-event outbox: rows of app.live_events and the publishers that  *)
(* drain it.  Every backend instance runs one LiveEventPublisherService;   *)
(* its timer calls tick(), which claims a batch of rows and broadcasts     *)
(* them one by one to the realtime service, settling each row afterwards.  *)
(*                                                                         *)
(* Every statement sent to Postgres is one step, so instances interleave   *)
(* between statements, and an instance may die between any two of them.    *)
(***************************************************************************)
EXTENDS Integers, FiniteSets

CONSTANTS Events,        \* sequence ids of the rows that may ever be recorded
          Publishers,    \* the backend instances
          MaxAttempts,   \* "attempt_count < 8": 8 in the code
          BatchLimit,    \* the argument of claimPending: 25 in the code
          NoEvent,       \* stands for "no row is being broadcast"
          CanCrash,      \* whether instances may die
          CanFailWrites  \* whether settling statements may be rejected

ASSUME EventsAssumption == Events \subseteq Int /\ NoEvent \notin Events
ASSUME LimitsAssumption == MaxAttempts \in Nat \ {0} /\ BatchLimit \in Nat \ {0}
ASSUME FaultsAssumption == CanCrash \in BOOLEAN /\ CanFailWrites \in BOOLEAN

VARIABLES status,         \* live_events.status; "absent" before the insert
          attempt_count,  \* live_events.attempt_count
          phase,          \* where each publisher is in tick()
          events,         \* the rows its tick() claimed and has not settled
          current,        \* the row its tick() is working on
          received        \* broadcasts of each event the realtime service took

row == <<status, attempt_count>>
vars == <<status, attempt_count, phase, events, current, received>>

Statuses == {"absent", "pending", "publishing", "published", "failed"}
Phases == {"idle", "looping", "accepted", "refused"}

TypeOK ==
  /\ status \in [Events -> Statuses]
  /\ attempt_count \in [Events -> Nat]
  /\ phase \in [Publishers -> Phases]
  /\ events \in [Publishers -> SUBSET Events]
  /\ current \in [Publishers -> Events \cup {NoEvent}]
  /\ received \in [Events -> Nat]

Init ==
  /\ status = [e \in Events |-> "absent"]
  /\ attempt_count = [e \in Events |-> 0]
  /\ phase = [p \in Publishers |-> "idle"]
  /\ events = [p \in Publishers |-> {}]
  /\ current = [p \in Publishers |-> NoEvent]
  /\ received = [e \in Events |-> 0]

-----------------------------------------------------------------------------
(* recordEvent: the row appears with the defaults of the table.            *)
RecordEvent(e) ==
  /\ status[e] = "absent"
  /\ status' = [status EXCEPT ![e] = "pending"]
  /\ UNCHANGED <<attempt_count, phase, events, current, received>>

(* Faulty variants, here and below, show that the properties can fail:     *)
(* a claim that also takes rows being published, and one that never takes  *)
(* a failed row again.                                                     *)
ClaimableWhilePublishing(e) ==
  status[e] \in {"pending", "publishing", "failed"} /\ attempt_count[e] < MaxAttempts
ClaimablePendingOnly(e) == status[e] = "pending" /\ attempt_count[e] < MaxAttempts

Claimable(e) == status[e] \in {"pending", "failed"} /\ attempt_count[e] < MaxAttempts

(* order by sequence_id asc limit $1                                       *)
NextBatch ==
  {e \in Events : Claimable(e)
     /\ Cardinality({f \in Events : Claimable(f) /\ f < e}) < BatchLimit}

(* tick() on an instance whose previous tick has returned: claimPending is *)
(* one transaction, and "for update skip locked" keeps two instances from  *)
(* taking the same row.                                                    *)
ClaimPending(p) ==
  /\ phase[p] = "idle"
  /\ NextBatch # {}
  /\ status' = [e \in Events |-> IF e \in NextBatch THEN "publishing" ELSE status[e]]
  /\ attempt_count' =
       [e \in Events |-> IF e \in NextBatch THEN attempt_count[e] + 1 ELSE attempt_count[e]]
  /\ phase' = [phase EXCEPT ![p] = "looping"]
  /\ events' = [events EXCEPT ![p] = NextBatch]
  /\ UNCHANGED <<current, received>>

(* The POST of one claimed row (an UPDATE returns its rows in no promised  *)
(* order).  The service takes it and the 2xx answer arrives ...            *)
BroadcastAccepted(p, e) ==
  /\ phase[p] = "looping"
  /\ e \in events[p]
  /\ phase' = [phase EXCEPT ![p] = "accepted"]
  /\ current' = [current EXCEPT ![p] = e]
  /\ received' = [received EXCEPT ![e] = @ + 1]
  /\ UNCHANGED <<status, attempt_count, events>>

(* ... or fetch() throws or the answer is not ok, which says nothing about *)
(* whether the service took the event.                                     *)
BroadcastRefused(p, e) ==
  /\ phase[p] = "looping"
  /\ e \in events[p]
  /\ phase' = [phase EXCEPT ![p] = "refused"]
  /\ current' = [current EXCEPT ![p] = e]
  /\ \E taken \in {0, 1} : received' = [received EXCEPT ![e] = @ + taken]
  /\ UNCHANGED <<status, attempt_count, events>>

(* The row in hand is settled: on to the next one, or out of the loop.     *)
LoopOn(p) ==
  /\ events' = [events EXCEPT ![p] = @ \ {current[p]}]
  /\ phase' = [phase EXCEPT ![p] = IF events[p] \ {current[p]} = {} THEN "idle" ELSE "looping"]
  /\ current' = [current EXCEPT ![p] = NoEvent]

(* The tick gives up, or the instance dies: claimed rows are forgotten.    *)
Abandon(p) ==
  /\ phase' = [phase EXCEPT ![p] = "idle"]
  /\ events' = [events EXCEPT ![p] = {}]
  /\ current' = [current EXCEPT ![p] = NoEvent]

(* Faulty: response.ok is not looked at.                                    *)
MarkPublishedUnchecked(p) ==
  /\ phase[p] \in {"accepted", "refused"}
  /\ status' = [status EXCEPT ![current[p]] = "published"]
  /\ LoopOn(p)
  /\ UNCHANGED <<attempt_count, received>>

MarkPublished(p) ==
  /\ phase[p] = "accepted"
  /\ status' = [status EXCEPT ![current[p]] = "published"]
  /\ LoopOn(p)
  /\ UNCHANGED <<attempt_count, received>>

(* markPublished is inside the try block: when its statement is rejected,  *)
(* applied or not, the catch block treats the broadcast as failed.         *)
MarkPublishedRejected(p) ==
  /\ CanFailWrites
  /\ phase[p] = "accepted"
  /\ \E applied \in BOOLEAN :
       status' = IF applied THEN [status EXCEPT ![current[p]] = "published"] ELSE status
  /\ phase' = [phase EXCEPT ![p] = "refused"]
  /\ UNCHANGED <<attempt_count, events, current, received>>

MarkFailed(p) ==
  /\ phase[p] = "refused"
  /\ status' = [status EXCEPT ![current[p]] = "failed"]
  /\ LoopOn(p)
  /\ UNCHANGED <<attempt_count, received>>

(* markFailed throws out of the loop into the outer catch, which only logs. *)
MarkFailedRejected(p) ==
  /\ CanFailWrites
  /\ phase[p] = "refused"
  /\ \E applied \in BOOLEAN :
       status' = IF applied THEN [status EXCEPT ![current[p]] = "failed"] ELSE status
  /\ Abandon(p)
  /\ UNCHANGED <<attempt_count, received>>

(* The instance dies and starts again with an empty memory.                *)
Crash(p) ==
  /\ CanCrash
  /\ phase[p] # "idle"
  /\ Abandon(p)
  /\ UNCHANGED <<status, attempt_count, received>>

-----------------------------------------------------------------------------
Tick(p) ==
  \/ ClaimPending(p)
  \/ \E e \in Events : BroadcastAccepted(p, e) \/ BroadcastRefused(p, e)
  \/ MarkPublished(p)
  \/ MarkFailed(p)

Next ==
  \/ \E e \in Events : RecordEvent(e)
  \/ \E p \in Publishers :
       Tick(p) \/ MarkPublishedRejected(p) \/ MarkFailedRejected(p) \/ Crash(p)

Spec == Init /\ [][Next]_vars

(* The interval timer calls tick() again and again, and every await in it  *)
(* returns (fetch() has the platform's own time limits).                   *)
FairSpec == Spec /\ \A p \in Publishers : WF_vars(Tick(p))

-----------------------------------------------------------------------------
(* Two instances never work on the same row at once: claimPending hands a  *)
(* row to one publisher, and nothing but that publisher makes it           *)
(* claimable again.                                                        *)
ExclusiveClaim ==
  \A p, q \in Publishers : p # q => events[p] \cap events[q] = {}

(* The service takes an event at most once per attempt, and there are at   *)
(* most MaxAttempts of them over all instances, crashes and lost answers.  *)
BoundedBroadcasts ==
  \A e \in Events : received[e] <= attempt_count[e] /\ attempt_count[e] <= MaxAttempts

(* markPublished never records a broadcast nobody received.                *)
PublishedWasReceived ==
  \A e \in Events : status[e] = "published" => received[e] > 0

(* Together: the counts and marks in the table say what the service got.   *)
BroadcastsAreCounted == BoundedBroadcasts /\ PublishedWasReceived

(* A row failed for good: claimPending takes it no more.                   *)
Exhausted(e) == status[e] = "failed" /\ attempt_count[e] = MaxAttempts
=============================================================================
