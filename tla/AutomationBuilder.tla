-------------------------- MODULE AutomationBuilder --------------------------
(* AutomationBuilderService: a goal is planned into a blueprint, which is  *)
(* approved or rejected, and approved blueprints become canvas drafts and  *)
(* runtime creation jobs.  Every handler reads the blueprint (or the goal) *)
(* in one statement and writes in another that does not look again.        *)
(* Sessions, clarifications and compile previews only add rows of their    *)
(* own and are left out.                                                   *)
EXTENDS Requests, Naturals, FiniteSets

CONSTANTS Blueprints,     \* blueprint ids
          MaxConversions  \* bound on the drafts made from one blueprint

(* What the validator says of the blueprint a goal is planned into.        *)
Goals == {"sound", "policy_blocked", "invalid"}
BlueprintStatuses == {"preview_ready", "policy_blocked", "validation_failed", "approved",
                      "archived", "converted_to_canvas_draft"}
BlueprintRows == [content : Goals, status : BlueprintStatuses,
                  version : BlueprintStatuses, immutable : BOOLEAN]

ASSUME BuilderAssumption == MaxConversions \in Nat /\ None \notin BlueprintRows

VARIABLES intent,     \* automation_intents: one row
          blueprint,  \* automation_blueprints with its version, or None
          drafts,     \* automation_builder_artifacts: how many, by blueprint
          jobs        \* automation_runtime_creation_jobs, by blueprint

builderTables == <<intent, blueprint, drafts, jobs>>
builderVars == <<builderTables, request>>

IntentStatuses == {"created", "blueprint_ready", "blueprint_invalid", "cancelled"}
Planned(goal) == CASE goal = "sound" -> "preview_ready"
                   [] goal = "policy_blocked" -> "policy_blocked"
                   [] goal = "invalid" -> "validation_failed"

BuilderInit ==
  /\ RequestsInit
  /\ \E goal \in Goals : intent = [goal |-> goal, status |-> "created"]
  /\ blueprint = [b \in Blueprints |-> None]
  /\ drafts = [b \in Blueprints |-> 0]
  /\ jobs = {}

UpdateIntent(goal) ==
  /\ intent' = [intent EXCEPT !.goal = goal]
  /\ UNCHANGED <<blueprint, drafts, jobs, request>>

CancelIntent ==
  /\ intent' = [intent EXCEPT !.status = "cancelled"]
  /\ UNCHANGED <<blueprint, drafts, jobs, request>>

(* planIntent reads the intent, plans, and inserts in one transaction; the *)
(* intent is 'ready' then, also if it was cancelled in the meantime.       *)
Plan(h) ==
  /\ At(h, "idle")
  /\ Goto(h, [pc |-> "plan", goal |-> intent.goal])
  /\ UNCHANGED builderTables

InsertBlueprint(h, b) ==
  /\ At(h, "plan") /\ blueprint[b] = None
  /\ LET goal == request[h].goal
     IN /\ blueprint' = [blueprint EXCEPT ![b] =
                           [content |-> goal, status |-> Planned(goal),
                            version |-> Planned(goal), immutable |-> FALSE]]
        /\ intent' = [intent EXCEPT !.status = IF goal = "invalid" THEN "blueprint_invalid"
                                                                   ELSE "blueprint_ready"]
  /\ Return(h)
  /\ UNCHANGED <<drafts, jobs>>

-----------------------------------------------------------------------------
(* loadBlueprint, and the conditions on what it found.                     *)
Load(h, b, pc) ==
  /\ At(h, "idle") /\ blueprint[b] # None
  /\ Goto(h, [pc |-> pc, blueprint |-> b])
  /\ UNCHANGED builderTables

Approve(h, b) == blueprint[b] # None /\ blueprint[b].content = "sound" /\ Load(h, b, "approve")

(* Faulty: the status is not asked for.                                    *)
ConvertAny(h, b) == Load(h, b, "convert")

Convert(h, b) == blueprint[b] # None /\ blueprint[b].status = "approved" /\ Load(h, b, "convert")

CreateRuntimeDraft(h, b) ==
  /\ blueprint[b] # None /\ blueprint[b].status \in {"approved", "converted_to_canvas_draft"}
  /\ Load(h, b, "job")

(* updateBlueprintStatus: the blueprint and its version.                   *)
Marked(row, status, immutable) ==
  [row EXCEPT !.status = status, !.version = status, !.immutable = @ \/ immutable]

MarkApproved(h) ==
  /\ At(h, "approve")
  /\ blueprint' = [blueprint EXCEPT ![request[h].blueprint] = Marked(@, "approved", TRUE)]
  /\ Return(h)
  /\ UNCHANGED <<intent, drafts, jobs>>

RejectBlueprint(b) ==
  /\ blueprint[b] # None
  /\ blueprint' = [blueprint EXCEPT ![b] = Marked(@, "archived", FALSE)]
  /\ UNCHANGED <<intent, drafts, jobs, request>>

(* The artifact and the status, in one transaction.                        *)
InsertDraft(h) ==
  LET b == request[h].blueprint
  IN /\ At(h, "convert") /\ drafts[b] < MaxConversions
     /\ drafts' = [drafts EXCEPT ![b] = @ + 1]
     /\ blueprint' = [blueprint EXCEPT ![b].status = "converted_to_canvas_draft"]
     /\ Return(h)
     /\ UNCHANGED <<intent, jobs>>

InsertJob(h) ==
  /\ At(h, "job")
  /\ jobs' = jobs \cup {request[h].blueprint}
  /\ Return(h)
  /\ UNCHANGED <<intent, blueprint, drafts>>

BuilderNext ==
  \/ \E goal \in Goals : UpdateIntent(goal)
  \/ CancelIntent
  \/ \E h \in Handlers : \/ Plan(h) \/ MarkApproved(h) \/ InsertDraft(h) \/ InsertJob(h)
                         \/ Dies(h) /\ UNCHANGED builderTables
  \/ \E h \in Handlers, b \in Blueprints :
       InsertBlueprint(h, b) \/ Approve(h, b) \/ Convert(h, b) \/ CreateRuntimeDraft(h, b)
  \/ \E b \in Blueprints : RejectBlueprint(b)

BuilderSpec == BuilderInit /\ [][BuilderNext]_builderVars

-----------------------------------------------------------------------------
(* Types; the blueprint and its version are in the same status, except     *)
(* that a conversion is written to the blueprint alone.                    *)
BuilderTypeOK ==
  /\ intent \in [goal : Goals, status : IntentStatuses]
  /\ blueprint \in [Blueprints -> {None} \cup BlueprintRows]
  /\ drafts \in [Blueprints -> 0 .. MaxConversions] /\ jobs \subseteq Blueprints
  /\ \A b \in Blueprints : blueprint[b] # None /\ blueprint[b].version # blueprint[b].status =>
       blueprint[b].status = "converted_to_canvas_draft"

(* Whatever is made of a blueprint was approved by a person, passed the    *)
(* validator, and can never be edited again; rejections that come between  *)
(* the check and the insert do not change that.                            *)
MadeOfApproved ==
  \A b \in Blueprints : drafts[b] > 0 \/ b \in jobs =>
    blueprint[b].immutable /\ blueprint[b].content = "sound"
=============================================================================
