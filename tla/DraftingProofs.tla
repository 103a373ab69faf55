----------------------------- MODULE DraftingProofs -----------------------------
(***************************************************************************)
(* What is drafted for a user, for any number of requests: the automation  *)
(* builder makes things only of blueprints that were approved and stay     *)
(* sealed, and the AI gateway's answers, drafts and entry checks agree     *)
(* with each other.                                                        *)
(***************************************************************************)
EXTENDS AutomationBuilder, AiDrafts, FiniteSetTheorems, WellFoundedInduction, TLAPS

-----------------------------------------------------------------------------
(* The automation builder.                                                 *)

BuilderLocals == [pc : {"idle", "dead"}] \cup [pc : {"plan"}, goal : Goals]
                   \cup [pc : {"approve", "convert", "job"}, blueprint : Blueprints]

(* Approved once, whatever its status is now.                              *)
Sealed(b) == /\ blueprint[b] \in BlueprintRows
             /\ blueprint[b].immutable /\ blueprint[b].content = "sound"

(* What a request read of its blueprint holds until it writes.             *)
BuilderRequestOK(h) ==
  /\ At(h, "approve") => /\ blueprint[request[h].blueprint] \in BlueprintRows
                         /\ blueprint[request[h].blueprint].content = "sound"
  /\ At(h, "convert") \/ At(h, "job") => Sealed(request[h].blueprint)

BuilderInv ==
  /\ BuilderTypeOK
  /\ request \in [Handlers -> BuilderLocals]
  /\ \A b \in Blueprints :
       blueprint[b] # None /\ blueprint[b].status \in {"approved", "converted_to_canvas_draft"}
         => Sealed(b)
  /\ \A h \in Handlers : BuilderRequestOK(h)
  /\ \A b \in Blueprints : drafts[b] > 0 \/ b \in jobs => Sealed(b)

(* What no step takes from a blueprint.                                    *)
BlueprintsKept ==
  \A b \in Blueprints : blueprint[b] \in BlueprintRows =>
    /\ blueprint'[b] \in BlueprintRows
    /\ blueprint'[b].content = blueprint[b].content
    /\ blueprint[b].immutable => blueprint'[b].immutable

-----------------------------------------------------------------------------
(* The builder starts without blueprints.                                  *)
LEMMA InitBuilder == BuilderInit => BuilderInv
BY BuilderAssumption
   DEF BuilderInit, RequestsInit, BuilderInv, BuilderTypeOK, BuilderRequestOK, At, Idle,
       BuilderLocals, IntentStatuses, Goals, Sealed

(* A request that does not move can still rely on what it read.            *)
LEMMA BuilderOthersStayOK ==
  ASSUME NEW g \in Handlers, BuilderRequestOK(g), BlueprintsKept, request'[g] = request[g],
         request[g] \in BuilderLocals
  PROVE  BuilderRequestOK(g)'
BY DEF BuilderRequestOK, BlueprintsKept, Sealed, At, BuilderLocals

(* Reading changes no table.                                               *)
LEMMA LoadKeepsInv ==
  ASSUME BuilderInv, NEW h \in Handlers, NEW b \in Blueprints,
         Approve(h, b) \/ Convert(h, b) \/ CreateRuntimeDraft(h, b)
  PROVE  BuilderInv'
<1>1. /\ blueprint[b] \in BlueprintRows /\ UNCHANGED builderTables
      /\ \E next \in {"approve", "convert", "job"} :
           /\ request' = [request EXCEPT ![h] = [pc |-> next, blueprint |-> b]]
           /\ next = "approve" => blueprint[b].content = "sound"
           /\ next # "approve" => Sealed(b)
  BY DEF BuilderInv, BuilderTypeOK, BlueprintRows, Approve, Convert, CreateRuntimeDraft, Load,
         Goto
<1>2. request' \in [Handlers -> BuilderLocals]
  BY <1>1 DEF BuilderInv, BuilderLocals
<1>3. BlueprintsKept
  BY <1>1 DEF BlueprintsKept, builderTables
<1>4. BuilderRequestOK(h)'
  BY <1>1 DEF BuilderInv, BuilderRequestOK, At, Sealed, builderTables
<1>5. \A g \in Handlers : BuilderRequestOK(g)'
  BY <1>1, <1>3, <1>4, BuilderOthersStayOK DEF BuilderInv
<1> QED BY <1>1, <1>2, <1>5 DEF BuilderInv, BuilderTypeOK, builderTables, Sealed

(* A request ends, or dies: the tables may change as BlueprintsKept says.  *)
LEMMA BuilderRequestEnds ==
  ASSUME BuilderInv, NEW h \in Handlers, NEW next \in [pc : {"idle", "dead"}],
         request' = [request EXCEPT ![h] = next], BlueprintsKept
  PROVE  /\ request' \in [Handlers -> BuilderLocals]
         /\ \A g \in Handlers : BuilderRequestOK(g)'
<1>1. request' \in [Handlers -> BuilderLocals] /\ request'[h] = next
  BY DEF BuilderInv, BuilderLocals
<1>2. BuilderRequestOK(h)'
  BY <1>1 DEF BuilderRequestOK, At
<1>3. \A g \in Handlers \ {h} : BuilderRequestOK(g)'
  BY BuilderOthersStayOK DEF BuilderInv
<1> QED BY <1>1, <1>2, <1>3

(* The blueprint a goal is planned into is new.                            *)
LEMMA InsertBlueprintKeepsInv ==
  ASSUME BuilderInv, NEW h \in Handlers, NEW b \in Blueprints, InsertBlueprint(h, b)
  PROVE  BuilderInv'
<1> DEFINE goal == request[h].goal
           row == [content |-> goal, status |-> Planned(goal), version |-> Planned(goal),
                   immutable |-> FALSE]
<1>1. goal \in Goals /\ blueprint[b] \notin BlueprintRows
  <2>1. request[h] \in BuilderLocals /\ request[h].pc = "plan" /\ blueprint[b] = None
    BY DEF BuilderInv, InsertBlueprint, At
  <2> QED BY <2>1, BuilderAssumption DEF BuilderLocals
<1>2. /\ row \in BlueprintRows /\ row.version = row.status
      /\ row.status \notin {"approved", "converted_to_canvas_draft"}
  BY <1>1 DEF BlueprintRows, Planned, Goals, BlueprintStatuses
<1>3. /\ blueprint' = [blueprint EXCEPT ![b] = row] /\ UNCHANGED <<drafts, jobs>>
      /\ intent' \in [goal : Goals, status : IntentStatuses]
      /\ request' = [request EXCEPT ![h] = Idle]
  BY DEF InsertBlueprint, Return, Goto, BuilderInv, BuilderTypeOK, IntentStatuses
<1> HIDE DEF row
<1>4. BlueprintsKept
  BY <1>1, <1>3 DEF BlueprintsKept, BuilderInv, BuilderTypeOK
<1>5. BuilderTypeOK'
  BY <1>2, <1>3 DEF BuilderInv, BuilderTypeOK
<1>6. request' \in [Handlers -> BuilderLocals] /\ \A g \in Handlers : BuilderRequestOK(g)'
  BY <1>3, <1>4, BuilderRequestEnds DEF Idle
<1>7. \A c \in Blueprints : Sealed(c) => Sealed(c)'
  BY <1>4 DEF BlueprintsKept, Sealed
<1> QED BY <1>2, <1>3, <1>5, <1>6, <1>7 DEF BuilderInv, BuilderTypeOK, Sealed

(* A blueprint gets another status: approved or converted only if sealed.  *)
LEMMA BlueprintMarked ==
  ASSUME BuilderInv, NEW b \in Blueprints, blueprint[b] \in BlueprintRows,
         NEW row \in BlueprintRows, blueprint' = [blueprint EXCEPT ![b] = row],
         row.content = blueprint[b].content, blueprint[b].immutable => row.immutable,
         row.version # row.status => row.status = "converted_to_canvas_draft",
         row.status \in {"approved", "converted_to_canvas_draft"} =>
           row.immutable /\ row.content = "sound"
  PROVE  /\ BlueprintsKept
         /\ blueprint' \in [Blueprints -> {None} \cup BlueprintRows]
         /\ \A c \in Blueprints :
              /\ Sealed(c) => Sealed(c)'
              /\ blueprint'[c] # None /\ blueprint'[c].version # blueprint'[c].status =>
                   blueprint'[c].status = "converted_to_canvas_draft"
              /\ blueprint'[c] # None
                  /\ blueprint'[c].status \in {"approved", "converted_to_canvas_draft"}
                    => Sealed(c)'
<1>1. blueprint \in [Blueprints -> {None} \cup BlueprintRows]
  BY DEF BuilderInv, BuilderTypeOK
<1>2. \A c \in Blueprints : blueprint'[c] = IF c = b THEN row ELSE blueprint[c]
  BY <1>1
<1>3. BlueprintsKept
  BY <1>2 DEF BlueprintsKept
<1>4. \A c \in Blueprints : Sealed(c) => Sealed(c)'
  BY <1>3 DEF BlueprintsKept, Sealed
<1> QED BY <1>1, <1>2, <1>3, <1>4 DEF BuilderInv, BuilderTypeOK, Sealed

(* approveBlueprint: what was read was sound, and is so still.             *)
LEMMA MarkApprovedKeepsInv ==
  ASSUME BuilderInv, NEW h \in Handlers, MarkApproved(h) PROVE BuilderInv'
<1> DEFINE b == request[h].blueprint
           row == Marked(blueprint[b], "approved", TRUE)
<1>1. /\ request[h] \in BuilderLocals /\ request[h].pc = "approve"
      /\ blueprint[b] \in BlueprintRows /\ blueprint[b].content = "sound"
  BY DEF MarkApproved, BuilderInv, BuilderRequestOK, At
<1>2. b \in Blueprints
  BY <1>1 DEF BuilderLocals
<1>3. /\ row \in BlueprintRows /\ row.content = "sound" /\ row.immutable
      /\ row.version = row.status
  BY <1>1 DEF Marked, BlueprintRows, BlueprintStatuses
<1>4. /\ blueprint' = [blueprint EXCEPT ![b] = row] /\ UNCHANGED <<intent, drafts, jobs>>
      /\ request' = [request EXCEPT ![h] = Idle]
  BY DEF MarkApproved, Return, Goto
<1> HIDE DEF row, b
<1>5. BlueprintsKept
  BY <1>1, <1>2, <1>3, <1>4, BlueprintMarked
<1>6. request' \in [Handlers -> BuilderLocals] /\ \A g \in Handlers : BuilderRequestOK(g)'
  BY <1>4, <1>5, BuilderRequestEnds DEF Idle
<1> QED BY <1>1, <1>2, <1>3, <1>4, <1>6, BlueprintMarked DEF BuilderInv, BuilderTypeOK

(* rejectBlueprint: the seal of an approved blueprint is left on.          *)
LEMMA RejectBlueprintKeepsInv ==
  ASSUME BuilderInv, NEW b \in Blueprints, RejectBlueprint(b) PROVE BuilderInv'
<1> DEFINE row == Marked(blueprint[b], "archived", FALSE)
<1>1. blueprint[b] \in BlueprintRows
  BY DEF RejectBlueprint, BuilderInv, BuilderTypeOK
<1>2. /\ row \in BlueprintRows /\ row.content = blueprint[b].content
      /\ blueprint[b].immutable => row.immutable
      /\ row.version = row.status /\ row.status = "archived"
  BY <1>1 DEF Marked, BlueprintRows, BlueprintStatuses
<1>3. /\ blueprint' = [blueprint EXCEPT ![b] = row]
      /\ UNCHANGED <<intent, drafts, jobs, request>>
  BY DEF RejectBlueprint
<1> HIDE DEF row
<1>4. BlueprintsKept
  BY <1>1, <1>2, <1>3, BlueprintMarked
<1>5. \A g \in Handlers : BuilderRequestOK(g)'
  BY <1>3, <1>4, BuilderOthersStayOK DEF BuilderInv
<1> QED BY <1>1, <1>2, <1>3, <1>5, BlueprintMarked DEF BuilderInv, BuilderTypeOK

(* convertToCanvasDraft: what was approved when it was read is sealed,     *)
(* although it may have been rejected since.                               *)
LEMMA InsertDraftKeepsInv ==
  ASSUME BuilderInv, NEW h \in Handlers, InsertDraft(h) PROVE BuilderInv'
<1> DEFINE b == request[h].blueprint
           row == [blueprint[b] EXCEPT !.status = "converted_to_canvas_draft"]
<1>1. request[h] \in BuilderLocals /\ request[h].pc = "convert" /\ Sealed(b)
  BY DEF InsertDraft, BuilderInv, BuilderRequestOK, At
<1>2. b \in Blueprints
  BY <1>1 DEF BuilderLocals
<1>3. /\ row \in BlueprintRows /\ row.content = "sound" /\ row.immutable
      /\ row.status = "converted_to_canvas_draft"
  BY <1>1 DEF Sealed, BlueprintRows, BlueprintStatuses
<1>4. /\ blueprint' = [blueprint EXCEPT ![b] = row] /\ UNCHANGED <<intent, jobs>>
      /\ request' = [request EXCEPT ![h] = Idle]
      /\ drafts' = [drafts EXCEPT ![b] = @ + 1] /\ drafts[b] < MaxConversions
  BY DEF InsertDraft, Return, Goto
<1>5. drafts' \in [Blueprints -> 0 .. MaxConversions]
  BY <1>2, <1>4, BuilderAssumption DEF BuilderInv, BuilderTypeOK
<1> HIDE DEF row, b
<1>6. BlueprintsKept
  BY <1>1, <1>2, <1>3, <1>4, BlueprintMarked DEF Sealed
<1>7. request' \in [Handlers -> BuilderLocals] /\ \A g \in Handlers : BuilderRequestOK(g)'
  BY <1>4, <1>6, BuilderRequestEnds DEF Idle
<1>8. \A c \in Blueprints : drafts'[c] > 0 => drafts[c] > 0 \/ c = b
  BY <1>2, <1>4 DEF BuilderInv, BuilderTypeOK
<1>9. /\ blueprint' \in [Blueprints -> {None} \cup BlueprintRows]
      /\ \A c \in Blueprints :
           /\ Sealed(c) => Sealed(c)'
           /\ blueprint'[c] # None /\ blueprint'[c].version # blueprint'[c].status =>
                blueprint'[c].status = "converted_to_canvas_draft"
           /\ blueprint'[c] # None
               /\ blueprint'[c].status \in {"approved", "converted_to_canvas_draft"}
                 => Sealed(c)'
  BY <1>1, <1>2, <1>3, <1>4, BlueprintMarked DEF Sealed
<1> QED BY <1>1, <1>4, <1>5, <1>7, <1>8, <1>9 DEF BuilderInv, BuilderTypeOK

(* createRuntimeDraft.                                                     *)
LEMMA InsertJobKeepsInv ==
  ASSUME BuilderInv, NEW h \in Handlers, InsertJob(h) PROVE BuilderInv'
<1>1. /\ request[h] \in BuilderLocals /\ request[h].pc = "job"
      /\ Sealed(request[h].blueprint)
  BY DEF InsertJob, BuilderInv, BuilderRequestOK, At
<1>2. request[h].blueprint \in Blueprints
  BY <1>1 DEF BuilderLocals
<1>3. /\ request' = [request EXCEPT ![h] = Idle] /\ UNCHANGED <<intent, blueprint, drafts>>
      /\ jobs' = jobs \cup {request[h].blueprint}
  BY DEF InsertJob, Return, Goto
<1>4. request' \in [Handlers -> BuilderLocals] /\ \A g \in Handlers : BuilderRequestOK(g)'
  BY <1>3, BuilderRequestEnds DEF Idle, BlueprintsKept
<1> QED BY <1>1, <1>2, <1>3, <1>4 DEF BuilderInv, BuilderTypeOK, Sealed

(* Planning, dying and the intent's own updates write no blueprint.        *)
LEMMA OtherBuilderStepsKeepInv ==
  ASSUME BuilderInv,
         \/ \E goal \in Goals : UpdateIntent(goal)
         \/ CancelIntent
         \/ \E h \in Handlers : Plan(h) \/ (Dies(h) /\ UNCHANGED builderTables)
  PROVE  BuilderInv'
<1>1. /\ UNCHANGED <<blueprint, drafts, jobs>>
      /\ intent' \in [goal : Goals, status : IntentStatuses]
  BY DEF BuilderInv, BuilderTypeOK, UpdateIntent, CancelIntent, Plan, builderTables,
         IntentStatuses
<1>2. request' \in [Handlers -> BuilderLocals] /\ \A g \in Handlers : BuilderRequestOK(g)'
  <2>1. CASE \/ \E goal \in Goals : UpdateIntent(goal)
             \/ CancelIntent
    BY <1>1, <2>1 DEF UpdateIntent, CancelIntent, BuilderInv, BuilderRequestOK, Sealed, At
  <2>2. ASSUME NEW h \in Handlers, Plan(h)
        PROVE  /\ request' \in [Handlers -> BuilderLocals]
               /\ \A g \in Handlers : BuilderRequestOK(g)'
    <3>1. request' = [request EXCEPT ![h] = [pc |-> "plan", goal |-> intent.goal]]
          /\ intent.goal \in Goals
      BY <2>2 DEF Plan, Goto, BuilderInv, BuilderTypeOK
    <3>2. request' \in [Handlers -> BuilderLocals] /\ BuilderRequestOK(h)'
      BY <3>1 DEF BuilderInv, BuilderLocals, BuilderRequestOK, At
    <3>3. BlueprintsKept
      BY <1>1 DEF BlueprintsKept
    <3> QED BY <3>1, <3>2, <3>3, BuilderOthersStayOK DEF BuilderInv
  <2>3. ASSUME NEW h \in Handlers, Dies(h)
        PROVE  /\ request' \in [Handlers -> BuilderLocals]
               /\ \A g \in Handlers : BuilderRequestOK(g)'
    BY <1>1, <2>3, BuilderRequestEnds DEF Dies, Goto, BlueprintsKept
  <2> QED BY <2>1, <2>2, <2>3
<1> QED BY <1>1, <1>2 DEF BuilderInv, BuilderTypeOK, Sealed

(* Every step of the builder preserves the invariant.                      *)
LEMMA StepBuilder == BuilderInv /\ [BuilderNext]_builderVars => BuilderInv'
<1> SUFFICES ASSUME BuilderInv, [BuilderNext]_builderVars PROVE BuilderInv'
  OBVIOUS
<1>1. CASE UNCHANGED builderVars
  BY <1>1 DEF builderVars, builderTables, BuilderInv, BuilderTypeOK, BuilderRequestOK, Sealed, At
<1>2. CASE BuilderNext
  BY <1>2, LoadKeepsInv, InsertBlueprintKeepsInv, MarkApprovedKeepsInv, RejectBlueprintKeepsInv,
     InsertDraftKeepsInv, InsertJobKeepsInv, OtherBuilderStepsKeepInv DEF BuilderNext
<1> QED BY <1>1, <1>2

(* The strengthened invariant holds in every reachable state.              *)
THEOREM BuilderInvariant == BuilderSpec => []BuilderInv
BY InitBuilder, StepBuilder, PTL DEF BuilderSpec

(* What is made of a blueprint is made of a sealed one. *)
LEMMA MadeWasApproved == BuilderInv => MadeOfApproved
BY DEF BuilderInv, MadeOfApproved, Sealed

(* Whatever convertToCanvasDraft and createRuntimeDraft made of a          *)
(* blueprint was approved, was sound, and can never be edited again, no    *)
(* matter which rejections came between their check and their insert.      *)
THEOREM OnlyApprovedIsMade == BuilderSpec => []MadeOfApproved
BY MadeWasApproved, BuilderInvariant, PTL

-----------------------------------------------------------------------------
(* The AI gateway: the local variables of a request, by the statement that *)
(* comes next.                                                             *)
EnteringLocal(l) ==
  /\ {"pc", "kind", "key", "selected"} \subseteq DOMAIN l /\ "id" \notin DOMAIN l
  /\ l.pc \in {"lookup", "context", "create"} /\ l.kind \in {"message", "patch"}
  /\ l.key \in AiKeys /\ l.selected \subseteq Fields
(* The status a draft is stored with tells of what is stored with it.      *)
Judged(l) == /\ {"valid", "status"} \subseteq DOMAIN l
             /\ l.valid \in BOOLEAN /\ l.status \in DraftStatuses
             /\ l.status = "clarification_required" <=> l.questions # {}
             /\ l.status \in {"ready_for_review", "saved"} <=> l.valid
RevisingLocal(l) ==
  /\ {"pc", "kind", "id", "draft", "selected", "questions"} \subseteq DOMAIN l
  /\ l.pc = "context" /\ l.kind = "manual" /\ l.id = None
  /\ l.draft \in WorkflowDrafts /\ l.selected \subseteq Fields /\ l.questions \subseteq Fields
  /\ Judged(l)
OwnerOf(l) == \/ l.kind = "manual" /\ l.id = None
              \/ l.kind \in {"message", "patch"} /\ l.id \in AiRequests
PromptLocal(l) ==
  /\ {"pc", "kind", "id", "linked", "questions"} \subseteq DOMAIN l
  /\ l.pc \in {"provider", "usage", "draft"} /\ OwnerOf(l) /\ (l.kind = "manual" => l.pc = "draft")
  /\ l.linked \in BOOLEAN /\ l.questions \subseteq Fields
  /\ l.kind = "manual" => l.questions = {}
WritingLocal(l) ==
  /\ {"pc", "kind", "id", "draft", "questions"} \subseteq DOMAIN l
  /\ l.pc \in {"number", "version", "clear", "ask"} /\ OwnerOf(l)
  /\ l.draft \in WorkflowDrafts /\ l.questions \subseteq Fields /\ Judged(l)
  /\ l.pc # "number" => "no" \in DOMAIN l /\ l.no \in Nat \ {0}
  /\ l.pc = "ask" => "unasked" \in DOMAIN l /\ l.unasked \subseteq l.questions
FinalLocal(l) ==
  /\ {"pc", "kind", "id", "final"} \subseteq DOMAIN l
  /\ l.pc = "final" /\ l.kind \in {"message", "patch", "blocked", "caught"}
  /\ l.id \in AiRequests /\ l.final \in FinalResponses
CatchLocal(l) == {"pc", "kind", "id"} \subseteq DOMAIN l /\ l.pc = "catch"
                 /\ l.kind = "caught" /\ l.id \in AiRequests

AiLocal(l) == \/ l = Idle \/ EnteringLocal(l) \/ RevisingLocal(l) \/ PromptLocal(l)
              \/ WritingLocal(l) \/ FinalLocal(l) \/ CatchLocal(l)

AiTyped == AiTypeOK /\ DOMAIN request = Handlers /\ \A h \in Handlers : AiLocal(request[h])

(* The version a request stores, and those made for an AI request.         *)
StoredBy(l) == [questions |-> l.questions, ai_request |-> l.id, valid |-> l.valid]
MadeIn(versions, r) == {n \in DOMAIN versions : versions[n].ai_request = r}

(* A request holds the AI request it has made.                             *)
Holds(l, r) == "id" \in DOMAIN l /\ l.id = r

(* What a final response says of the versions vs and the drafts ds.        *)
AnswerOK(final, r, vs, ds) ==
  /\ final.draft # None =>
       /\ ds[final.draft] \in AiDraftRows /\ ds[final.draft].current > 0
       /\ \E n \in MadeIn(vs[final.draft], r) :
            final.kind = "ready" <=> vs[final.draft][n].questions = {}
  /\ final.kind = "blocked_by_policy" => \A d \in WorkflowDrafts : MadeIn(vs[d], r) = {}

(* What a request with the local variables l can rely on.                  *)
AiLocalOK(l, rs, vs, ds) ==
  /\ \A r \in AiRequests : Holds(l, r) => rs[r] \in AiRequestRows
  /\ PromptLocal(l) \/ WritingLocal(l) =>
       \A r \in AiRequests : Holds(l, r) => rs[r].final = None
  /\ l.pc = "provider" => \A d \in WorkflowDrafts : MadeIn(vs[d], l.id) = {}
  /\ WritingLocal(l) \/ RevisingLocal(l) => ds[l.draft] \in AiDraftRows
  /\ l.pc \in {"clear", "ask"} =>
       /\ l.no \in DOMAIN vs[l.draft]
       /\ vs[l.draft][l.no] = StoredBy(l)
  /\ FinalLocal(l) => AnswerOK(l.final, l.id, vs, ds)

AnswersOK ==
  /\ \A r \in AiRequests : \A g, h \in Handlers :
       Holds(request[g], r) /\ Holds(request[h], r) => g = h
  /\ \A d \in WorkflowDrafts : \A n \in DOMAIN ai_version[d] :
       \A r \in AiRequests : ai_version[d][n].ai_request = r => ai_request[r] \in AiRequestRows
  /\ \A r \in AiRequests : ai_request[r] \in AiRequestRows /\ ai_request[r].final # None =>
       AnswerOK(ai_request[r].final, r, ai_version, ai_draft)
  /\ \A h \in Handlers : AiLocalOK(request[h], ai_request, ai_version, ai_draft)

AnswersInv == AiTyped /\ AnswersOK

(* A draft as one request after the other leaves it, and what the one that *)
(* is writing it has done so far.                                          *)
On(l, d) == l.pc \in {"number", "version", "clear", "ask"} /\ l.draft = d
Whole(row, versions) ==
  /\ row.current = Len(versions) /\ row.current > 0
  /\ row.missing = versions[row.current].questions
  /\ row.status = "clarification_required" <=> row.missing # {}
  /\ row.status \in {"ready_for_review", "saved"} <=> versions[row.current].valid
Written(l, row, versions) ==
  /\ l.pc \in {"clear", "ask"} => l.no = Len(versions)
  /\ l.pc = "ask" => row.missing = l.questions \ l.unasked

DraftOK(d, p, ds, vs) ==
  ds[d] # None =>
    /\ \A g, h \in Handlers : On(p[g], d) /\ On(p[h], d) => g = h
    /\ (\A h \in Handlers : ~On(p[h], d)) => Whole(ds[d], vs[d])
    /\ \A h \in Handlers : On(p[h], d) => Written(p[h], ds[d], vs[d])

DraftsInv == AnswersInv /\ \A d \in WorkflowDrafts \ disturbed : DraftOK(d, request, ai_draft, ai_version)

(* While AI requests follow each other: one at a time, each answered when  *)
(* it is over, charged within the budget, made once per key.               *)
MessagesOf(rs) == {r \in AiRequests : rs[r] # None /\ rs[r].kind = "message"}
Keyed(rs, key) == {r \in AiRequests : rs[r] # None /\ rs[r].key = key}
ForAiLocal(l) == l.pc # "idle" /\ l.kind # "manual"
Charging(l) == l.pc \in {"lookup", "context", "create", "provider", "usage"} /\ l.kind = "message"

(* What the checks of a message leave it to rely on until it is charged,   *)
(* and until it is stored under its key.                                   *)
EntryOK(l, rs, charged) ==
  /\ Charging(l) => Cardinality(charged \cap MessagesOf(rs)) < Budget
  /\ l.pc \in {"context", "create"} /\ l.kind = "message" /\ l.key # None => Keyed(rs, l.key) = {}

EntriesOK ==
  /\ \A g, h \in Handlers : ForAiLocal(request[g]) /\ ForAiLocal(request[h]) => g = h
  /\ \A r \in AiRequests : ai_request[r] # None /\ ai_request[r].final = None =>
       \E h \in Handlers : Holds(request[h], r)
  /\ Cardinality(usage \cap MessagesOf(ai_request)) <= Budget
  /\ \A key \in AiKeys \ {None} :
       \A r, s \in Keyed(ai_request, key) \cap MessagesOf(ai_request) : r = s
  /\ \A h \in Handlers : EntryOK(request[h], ai_request, usage)

EntriesInv ==
  /\ AnswersInv /\ IsFiniteSet(usage)
  /\ \E n \in Nat : \A r \in AiRequests : ai_request[r] # None => r <= n
  /\ \A r \in usage : ai_request[r] # None
  /\ \A h \in Handlers : request[h].pc \in {"provider", "usage"} =>
       ai_request[request[h].id].kind = request[h].kind
  /\ ~crowded => EntriesOK

-----------------------------------------------------------------------------
(* How local variables change. *)
LEMMA AiLocalsByStep ==
  ASSUME NEW l, AiLocal(l)
  PROVE  /\ "pc" \in DOMAIN l
         /\ l.pc = "idle" => l = Idle
         /\ l.pc \in {"lookup", "create"} => EnteringLocal(l)
         /\ l.pc = "context" => EnteringLocal(l) \/ RevisingLocal(l)
         /\ l.pc \in {"provider", "usage", "draft"} => PromptLocal(l)
         /\ l.pc \in {"number", "version", "clear", "ask"} => WritingLocal(l)
         /\ l.pc = "final" => FinalLocal(l)
         /\ l.pc = "catch" => CatchLocal(l)
<1>1. DOMAIN Idle = {"pc"} /\ Idle.pc = "idle" BY DEF Idle
<1>2. CASE l = Idle BY <1>1, <1>2
<1>3. CASE EnteringLocal(l) BY <1>3 DEF EnteringLocal
<1>4. CASE RevisingLocal(l) BY <1>4 DEF RevisingLocal
<1>5. CASE PromptLocal(l) BY <1>5 DEF PromptLocal
<1>6. CASE WritingLocal(l) BY <1>6 DEF WritingLocal
<1>7. CASE FinalLocal(l) BY <1>7 DEF FinalLocal
<1>8. CASE CatchLocal(l) BY <1>8 DEF CatchLocal
<1> QED BY <1>2, <1>3, <1>4, <1>5, <1>6, <1>7, <1>8 DEF AiLocal

(* Going to another statement changes no other local. *)
LEMMA Relabelled ==
  ASSUME NEW l, NEW p, "pc" \in DOMAIN l
  PROVE  LET m == [l EXCEPT !.pc = p]
         IN DOMAIN m = DOMAIN l /\ m.pc = p /\ \A x \in DOMAIN l \ {"pc"} : m[x] = l[x]
  OBVIOUS

(* Only request h moves, to the local variables m. *)
MovesTo(h, m) ==
  /\ DOMAIN request' = Handlers /\ request'[h] = m
  /\ \A g \in Handlers \ {h} : request'[g] = request[g]

(* A request that takes new locals leaves the other requests alone. *)
LEMMA GotoMoves ==
  ASSUME DOMAIN request = Handlers, NEW h \in Handlers, NEW m, Goto(h, m)
  PROVE  MovesTo(h, m)
  BY DEF Goto, MovesTo

(* A request that proceeds keeps its locals. *)
LEMMA ProceedMoves ==
  ASSUME DOMAIN request = Handlers, NEW h \in Handlers, NEW p, Proceed(h, p),
         "pc" \in DOMAIN request[h]
  PROVE  \E m : /\ MovesTo(h, m) /\ DOMAIN m = DOMAIN request[h] /\ m.pc = p
                /\ \A x \in DOMAIN request[h] \ {"pc"} : m[x] = request[h][x]
<1>1. MovesTo(h, [request[h] EXCEPT !.pc = p]) BY GotoMoves DEF Proceed
<1> QED BY <1>1, Relabelled

(* A request that sets some locals keeps the rest. *)
LEMMA WithMoves ==
  ASSUME DOMAIN request = Handlers, NEW h \in Handlers, NEW new, With(h, new)
  PROVE  \E m : /\ MovesTo(h, m) /\ DOMAIN m = DOMAIN new \cup DOMAIN request[h]
                /\ \A x \in DOMAIN new : m[x] = new[x]
                /\ \A x \in DOMAIN request[h] \ DOMAIN new : m[x] = request[h][x]
<1> DEFINE m == [name \in DOMAIN new \cup DOMAIN request[h] |->
                   IF name \in DOMAIN new THEN new[name] ELSE request[h][name]]
<1>1. MovesTo(h, m) BY GotoMoves DEF With
<1>2. /\ DOMAIN m = DOMAIN new \cup DOMAIN request[h]
      /\ \A x \in DOMAIN new : m[x] = new[x]
      /\ \A x \in DOMAIN request[h] \ DOMAIN new : m[x] = request[h][x]
  OBVIOUS
<1> QED BY <1>1, <1>2

(* Where the steps of a request lead. *)
LEMMA SendMoves ==
  ASSUME AiTyped, NEW h \in Handlers, NEW key \in AiKeys,
         SendPatch(h, key) \/ \E own \in {None, Fields} : SendMessage(h, key, own)
  PROVE  \E m : /\ MovesTo(h, m) /\ EnteringLocal(m) /\ request[h] = Idle
                /\ \/ SendPatch(h, key) /\ m.pc = "create" /\ m.kind = "patch"
                   \/ /\ m.pc = "lookup" /\ m.kind = "message"
                      /\ \E own \in {None, Fields} : SendMessage(h, key, own)
<1>0. AiLocal(request[h]) /\ DOMAIN request = Handlers /\ selected \subseteq Fields
  BY DEF AiTyped, AiTypeOK
<1>1. CASE SendPatch(h, key)
  <2> DEFINE m == [pc |-> "create", kind |-> "patch", key |-> key, selected |-> Fields]
  <2>1. MovesTo(h, m) BY <1>0, <1>1, GotoMoves DEF SendPatch
  <2>2. EnteringLocal(m) /\ m.pc = "create" /\ m.kind = "patch" BY DEF EnteringLocal
  <2>3. request[h] = Idle BY <1>0, <1>1, AiLocalsByStep DEF SendPatch, At
  <2> QED BY <1>1, <2>1, <2>2, <2>3
<1>2. ASSUME NEW own \in {None, Fields}, SendMessage(h, key, own)
      PROVE  \E m : /\ MovesTo(h, m) /\ EnteringLocal(m) /\ request[h] = Idle
                    /\ m.pc = "lookup" /\ m.kind = "message"
  <2> DEFINE s == IF own = None THEN selected ELSE own
             m == [pc |-> "lookup", kind |-> "message", key |-> key, selected |-> s]
  <2>1. MovesTo(h, m) BY <1>0, <1>2, GotoMoves DEF SendMessage
  <2>2. s \subseteq Fields BY <1>0
  <2>3. EnteringLocal(m) /\ m.pc = "lookup" /\ m.kind = "message" BY <2>2 DEF EnteringLocal
  <2>4. request[h] = Idle BY <1>0, <1>2, AiLocalsByStep DEF SendMessage, At
  <2> QED BY <2>1, <2>3, <2>4
<1> QED BY <1>1, <1>2

(* Where requests come from and go to before their row is made. *)
LEMMA EnterMoves ==
  ASSUME AiTyped, NEW h \in Handlers
  PROVE  /\ LookUpKey(h) => EnteringLocal(request[h]) /\
              \E m : /\ MovesTo(h, m)
                     /\ \/ m = Idle /\ AnsweredWithKey(request[h].key)
                        \/ /\ EnteringLocal(m) /\ m.pc = "context" /\ m.kind = request[h].kind
                           /\ m.key = request[h].key /\ ~AnsweredWithKey(request[h].key)
         /\ UpdateContext(h) => request[h].selected \subseteq Fields /\
              \E m : /\ MovesTo(h, m)
                     /\ \/ /\ EnteringLocal(request[h]) /\ EnteringLocal(m) /\ m.pc = "create"
                           /\ m.kind = request[h].kind /\ m.key = request[h].key
                           /\ UNCHANGED disturbed
                        \/ /\ RevisingLocal(request[h]) /\ WritingLocal(m) /\ m.pc = "number"
                           /\ m.id = None /\ m.kind = "manual" /\ m.draft = request[h].draft
                           /\ NoteDraft(h, m.draft)
         /\ \A r \in AiRequests, questions \in SUBSET Fields :
              CreateAiRequest(h, r, questions) => EnteringLocal(request[h]) /\
                \E m : /\ MovesTo(h, m) /\ PromptLocal(m) /\ m.pc = "provider" /\ m.id = r
                       /\ m.kind = request[h].kind
<1>0. AiLocal(request[h]) /\ DOMAIN request = Handlers BY DEF AiTyped
<1> DEFINE l == request[h]
<1>1. ASSUME LookUpKey(h)
      PROVE  EnteringLocal(l) /\
               \E m : /\ MovesTo(h, m)
                      /\ \/ m = Idle /\ AnsweredWithKey(l.key)
                         \/ /\ EnteringLocal(m) /\ m.pc = "context" /\ m.kind = l.kind
                            /\ m.key = l.key /\ ~AnsweredWithKey(l.key)
  <2>1. EnteringLocal(l) BY <1>0, <1>1, AiLocalsByStep DEF LookUpKey, At
  <2>2. CASE AnsweredWithKey(l.key) /\ Return(h)
    <3>1. MovesTo(h, Idle) BY <1>0, <2>2, GotoMoves DEF Return
    <3> QED BY <2>1, <2>2, <3>1
  <2>3. CASE ~AnsweredWithKey(l.key) /\ Proceed(h, "context")
    <3>1. "pc" \in DOMAIN l BY <2>1 DEF EnteringLocal
    <3>2. PICK m : /\ MovesTo(h, m) /\ DOMAIN m = DOMAIN l /\ m.pc = "context"
                   /\ \A x \in DOMAIN l \ {"pc"} : m[x] = l[x]
      BY <1>0, <2>3, <3>1, ProceedMoves
    <3>3. EnteringLocal(m) /\ m.kind = l.kind /\ m.key = l.key BY <2>1, <3>2 DEF EnteringLocal
    <3> QED BY <2>1, <2>3, <3>2, <3>3
  <2> QED BY <1>1, <2>2, <2>3 DEF LookUpKey
<1>2. ASSUME UpdateContext(h)
      PROVE  l.selected \subseteq Fields /\
              \E m : /\ MovesTo(h, m)
                     /\ \/ /\ EnteringLocal(l) /\ EnteringLocal(m) /\ m.pc = "create"
                           /\ m.kind = l.kind /\ m.key = l.key
                           /\ UNCHANGED disturbed
                        \/ /\ RevisingLocal(l) /\ WritingLocal(m) /\ m.pc = "number"
                           /\ m.id = None /\ m.kind = "manual" /\ m.draft = l.draft
                           /\ NoteDraft(h, m.draft)
  <2>1. EnteringLocal(l) \/ RevisingLocal(l) BY <1>0, <1>2, AiLocalsByStep DEF UpdateContext, At
  <2>2. "pc" \in DOMAIN l BY <1>0, AiLocalsByStep
  <2>3. CASE EnteringLocal(l)
    <3>1. l.kind # "manual" BY <2>3 DEF EnteringLocal
    <3>2. PICK m : /\ MovesTo(h, m) /\ DOMAIN m = DOMAIN l /\ m.pc = "create"
                   /\ \A x \in DOMAIN l \ {"pc"} : m[x] = l[x]
      BY <1>0, <1>2, <2>2, <3>1, ProceedMoves DEF UpdateContext
    <3>3. EnteringLocal(m) /\ m.kind = l.kind /\ m.key = l.key BY <2>3, <3>2 DEF EnteringLocal
    <3>4. UNCHANGED disturbed BY <1>2, <3>1 DEF UpdateContext
    <3> QED BY <2>3, <3>2, <3>3, <3>4 DEF EnteringLocal
  <2>4. CASE RevisingLocal(l)
    <3>1. l.kind = "manual" BY <2>4 DEF RevisingLocal
    <3>2. PICK m : /\ MovesTo(h, m) /\ DOMAIN m = DOMAIN l /\ m.pc = "number"
                   /\ \A x \in DOMAIN l \ {"pc"} : m[x] = l[x]
      BY <1>0, <1>2, <2>2, <3>1, ProceedMoves DEF UpdateContext
    <3>3. WritingLocal(m) /\ m.id = None /\ m.kind = "manual" /\ m.draft = l.draft
      BY <2>4, <3>2 DEF RevisingLocal, WritingLocal, OwnerOf, Judged
    <3>4. NoteDraft(h, l.draft) BY <1>2, <3>1 DEF UpdateContext
    <3> QED BY <2>4, <3>2, <3>3, <3>4 DEF RevisingLocal
  <2> QED BY <2>1, <2>3, <2>4
<1>3. ASSUME NEW r \in AiRequests, NEW questions \in SUBSET Fields, CreateAiRequest(h, r, questions)
      PROVE  EnteringLocal(l) /\
                \E m : /\ MovesTo(h, m) /\ PromptLocal(m) /\ m.pc = "provider" /\ m.id = r
                       /\ m.kind = l.kind
  <2> DEFINE m == [pc |-> "provider", kind |-> l.kind, id |-> r, linked |-> TRUE,
                   questions |-> questions]
  <2>1. EnteringLocal(l) BY <1>0, <1>3, AiLocalsByStep DEF CreateAiRequest, At
  <2>2. MovesTo(h, m) BY <1>0, <1>3, GotoMoves DEF CreateAiRequest
  <2>3. l.kind \in {"message", "patch"} BY <2>1 DEF EnteringLocal
  <2>4. PromptLocal(m) BY <2>3 DEF PromptLocal, OwnerOf
  <2> QED BY <2>1, <2>2, <2>4
<1> QED BY <1>1, <1>2, <1>3

(* The status that is chosen for a draft tells of its version.             *)
LEMMA StatusTells ==
  ASSUME NEW questions, NEW valid \in Verdicts(questions)
  PROVE  /\ valid \in BOOLEAN
         /\ StatusFor(questions, valid) \in DraftStatuses
         /\ StatusFor(questions, valid) = "clarification_required" <=> questions # {}
         /\ StatusFor(questions, valid) \in {"ready_for_review", "saved"} <=> valid
         /\ SavedAs(valid) \in DraftStatuses \ {"clarification_required"}
         /\ SavedAs(valid) \in {"ready_for_review", "saved"} <=> valid
<1>1. valid \in BOOLEAN /\ (questions # {} => ~valid) BY DEF Verdicts
<1>2. CASE questions # {}
  BY <1>1, <1>2 DEF StatusFor, SavedAs, DraftStatuses
<1>3. CASE questions = {}
  BY <1>1, <1>3 DEF StatusFor, SavedAs, DraftStatuses
<1> QED BY <1>2, <1>3

(* Where they come from and go to around the call of the provider. *)
LEMMA PromptMoves ==
  ASSUME AiTyped, NEW h \in Handlers
  PROVE  /\ BlockMessage(h) =>
              /\ PromptLocal(request[h]) /\ request[h].pc = "provider" /\ request[h].id \in AiRequests
              /\ \E m : /\ MovesTo(h, m) /\ FinalLocal(m) /\ m.id = request[h].id /\ m.kind = "blocked"
                        /\ m.final = [kind |-> "blocked_by_policy", draft |-> None]
         /\ ProviderAnswers(h) \/ RecordUsage(h) =>
              /\ PromptLocal(request[h]) /\ request[h].id \in AiRequests
              /\ request[h].kind \in {"message", "patch"}
              /\ \E m : /\ MovesTo(h, m) /\ PromptLocal(m) /\ m.id = request[h].id
                        /\ m.kind = request[h].kind
                        /\ \/ ProviderAnswers(h) /\ request[h].pc = "provider" /\ m.pc = "usage"
                           \/ RecordUsage(h) /\ request[h].pc = "usage" /\ m.pc = "draft"
         /\ \A linked \in BOOLEAN : CreateManualDraft(h, linked) =>
              /\ request[h] = Idle
              /\ \E m : /\ MovesTo(h, m) /\ PromptLocal(m) /\ m.pc = "draft" /\ m.id = None
                        /\ m.kind = "manual"
         /\ \A d \in WorkflowDrafts, answers, questions \in SUBSET Fields :
              UpdateDraftInputs(h, d, answers, questions) =>
                /\ request[h] = Idle
                /\ \E m : MovesTo(h, m) /\ RevisingLocal(m) /\ m.draft = d
<1>0. AiLocal(request[h]) /\ DOMAIN request = Handlers /\ selected \subseteq Fields
  BY DEF AiTyped, AiTypeOK
<1> DEFINE l == request[h]
<1>1. ASSUME BlockMessage(h)
      PROVE  /\ PromptLocal(l) /\ l.pc = "provider" /\ l.id \in AiRequests
             /\ \E m : /\ MovesTo(h, m) /\ FinalLocal(m) /\ m.id = l.id /\ m.kind = "blocked"
                       /\ m.final = [kind |-> "blocked_by_policy", draft |-> None]
  <2> DEFINE f == [kind |-> "blocked_by_policy", draft |-> None]
             m == [pc |-> "final", kind |-> "blocked", id |-> l.id, final |-> f]
  <2>1. PromptLocal(l) /\ l.pc = "provider" BY <1>0, <1>1, AiLocalsByStep DEF BlockMessage, At
  <2>2. l.id \in AiRequests BY <1>1, <2>1 DEF BlockMessage, PromptLocal, OwnerOf
  <2>3. MovesTo(h, m) BY <1>0, <1>1, GotoMoves DEF BlockMessage, Conclude
  <2>4. f \in FinalResponses BY DEF FinalResponses
  <2>5. FinalLocal(m) BY <2>2, <2>4 DEF FinalLocal
  <2> QED BY <2>1, <2>2, <2>3, <2>5
<1>2. ASSUME NEW from \in {"provider", "usage"}, NEW to \in {"usage", "draft"},
             At(h, from), Proceed(h, to)
      PROVE  /\ PromptLocal(l) /\ l.pc = from /\ l.id \in AiRequests /\ l.kind \in {"message", "patch"}
             /\ \E m : MovesTo(h, m) /\ PromptLocal(m) /\ m.id = l.id /\ m.kind = l.kind /\ m.pc = to
  <2>1. PromptLocal(l) /\ l.pc = from BY <1>0, <1>2, AiLocalsByStep DEF At
  <2>2. l.id \in AiRequests /\ l.kind \in {"message", "patch"}
    BY <2>1 DEF PromptLocal, OwnerOf
  <2>3. "pc" \in DOMAIN l BY <2>1 DEF PromptLocal
  <2>4. PICK m : /\ MovesTo(h, m) /\ DOMAIN m = DOMAIN l /\ m.pc = to
                 /\ \A x \in DOMAIN l \ {"pc"} : m[x] = l[x]
    BY <1>0, <1>2, <2>3, ProceedMoves
  <2>5. PromptLocal(m) /\ m.id = l.id /\ m.kind = l.kind
    BY <2>1, <2>2, <2>4 DEF PromptLocal, OwnerOf
  <2> QED BY <2>1, <2>2, <2>4, <2>5
<1>3. ASSUME NEW linked \in BOOLEAN, CreateManualDraft(h, linked)
      PROVE  l = Idle /\ \E m : /\ MovesTo(h, m) /\ PromptLocal(m) /\ m.pc = "draft" /\ m.id = None
                                /\ m.kind = "manual"
  <2> DEFINE m == [pc |-> "draft", kind |-> "manual", id |-> None, linked |-> linked, questions |-> {}]
  <2>1. MovesTo(h, m) BY <1>0, <1>3, GotoMoves DEF CreateManualDraft
  <2>2. PromptLocal(m) BY DEF PromptLocal, OwnerOf
  <2>3. l = Idle BY <1>0, <1>3, AiLocalsByStep DEF CreateManualDraft, At
  <2> QED BY <2>1, <2>2, <2>3
<1>4. ASSUME NEW d \in WorkflowDrafts, NEW answers \in SUBSET Fields, NEW questions \in SUBSET Fields,
             UpdateDraftInputs(h, d, answers, questions)
      PROVE  l = Idle /\ \E m : MovesTo(h, m) /\ RevisingLocal(m) /\ m.draft = d
  <2>1. PICK valid \in Verdicts(questions) :
          Goto(h, [pc |-> "context", kind |-> "manual", id |-> None, draft |-> d,
                   selected |-> selected \cup answers, questions |-> questions,
                   valid |-> valid, status |-> StatusFor(questions, valid)])
    BY <1>4 DEF UpdateDraftInputs
  <2> DEFINE status == StatusFor(questions, valid)
             m == [pc |-> "context", kind |-> "manual", id |-> None, draft |-> d,
                   selected |-> selected \cup answers, questions |-> questions,
                   valid |-> valid, status |-> status]
  <2>2. MovesTo(h, m) BY <1>0, <2>1, GotoMoves
  <2>3. /\ valid \in BOOLEAN /\ status \in DraftStatuses
        /\ status = "clarification_required" <=> questions # {}
        /\ status \in {"ready_for_review", "saved"} <=> valid
    BY StatusTells
  <2> HIDE DEF status
  <2>4. RevisingLocal(m) BY <1>0, <2>3 DEF RevisingLocal, Judged
  <2>5. l = Idle BY <1>0, <1>4, AiLocalsByStep DEF UpdateDraftInputs, At
  <2> QED BY <2>2, <2>4, <2>5
<1>5. ProviderAnswers(h) => At(h, "provider") /\ Proceed(h, "usage") BY DEF ProviderAnswers
<1>6. RecordUsage(h) => At(h, "usage") /\ Proceed(h, "draft") BY DEF RecordUsage
<1>7. ASSUME ProviderAnswers(h) \/ RecordUsage(h)
      PROVE  /\ PromptLocal(l) /\ l.id \in AiRequests /\ l.kind \in {"message", "patch"}
             /\ \E m : /\ MovesTo(h, m) /\ PromptLocal(m) /\ m.id = l.id /\ m.kind = l.kind
                       /\ \/ ProviderAnswers(h) /\ l.pc = "provider" /\ m.pc = "usage"
                          \/ RecordUsage(h) /\ l.pc = "usage" /\ m.pc = "draft"
  <2>1. CASE ProviderAnswers(h)
    <3>1. PICK m : MovesTo(h, m) /\ PromptLocal(m) /\ m.id = l.id /\ m.kind = l.kind /\ m.pc = "usage"
      BY <1>2, <1>5, <2>1
    <3> QED BY <1>2, <1>5, <2>1, <3>1
  <2>2. CASE RecordUsage(h)
    <3>1. PICK m : MovesTo(h, m) /\ PromptLocal(m) /\ m.id = l.id /\ m.kind = l.kind /\ m.pc = "draft"
      BY <1>2, <1>6, <2>2
    <3> QED BY <1>2, <1>6, <2>2, <3>1
  <2> QED BY <1>7, <2>1, <2>2
<1> QED BY <1>1, <1>3, <1>4, <1>7

(* The statements of persistDraftVersion keep what they write about.       *)
SameDraft(m, l) == /\ m.kind = l.kind /\ m.id = l.id
                   /\ m.draft = l.draft /\ m.questions = l.questions
                   /\ m.valid = l.valid /\ m.status = l.status

(* The status of a new draft does so whoever stores it.                    *)
LEMMA NewStatusTells ==
  ASSUME NEW h, PromptLocal(request[h]), NEW valid \in Verdicts(request[h].questions)
  PROVE  /\ valid \in BOOLEAN /\ NewStatus(h, valid) \in DraftStatuses
         /\ NewStatus(h, valid) = "clarification_required" <=> request[h].questions # {}
         /\ NewStatus(h, valid) \in {"ready_for_review", "saved"} <=> valid
<1>1. CASE request[h].kind = "manual"
  BY <1>1, StatusTells DEF NewStatus, PromptLocal
<1>2. CASE request[h].kind # "manual"
  BY <1>2, StatusTells DEF NewStatus
<1> QED BY <1>1, <1>2

(* Where they come from and go to while a draft is written. *)
LEMMA WriteMoves ==
  ASSUME AiTyped, NEW h \in Handlers
  PROVE  /\ \A d \in WorkflowDrafts : InsertAiDraft(h, d) =>
              /\ PromptLocal(request[h]) /\ request[h].pc = "draft"
              /\ \E m : /\ MovesTo(h, m) /\ WritingLocal(m) /\ m.pc = "number" /\ m.draft = d
                        /\ m.id = request[h].id /\ m.kind = request[h].kind
         /\ DrawNumber(h) =>
              /\ WritingLocal(request[h]) /\ request[h].pc = "number"
              /\ \E m : /\ MovesTo(h, m) /\ WritingLocal(m) /\ SameDraft(m, request[h])
                        /\ m.pc = "version"
         /\ InsertAiVersion(h) =>
              /\ WritingLocal(request[h]) /\ request[h].pc = "version"
              /\ \E m : /\ MovesTo(h, m) /\ WritingLocal(m) /\ SameDraft(m, request[h])
                        /\ m.pc = "clear" /\ m.no = request[h].no
         /\ DeleteMissing(h) =>
              /\ WritingLocal(request[h]) /\ request[h].pc = "clear"
              /\ \E m : /\ MovesTo(h, m) /\ WritingLocal(m) /\ SameDraft(m, request[h])
                        /\ m.pc = "ask" /\ m.no = request[h].no /\ m.unasked = m.questions
         /\ \A field \in Fields : InsertMissing(h, field) =>
              /\ WritingLocal(request[h]) /\ request[h].pc = "ask"
              /\ \E m : /\ MovesTo(h, m) /\ WritingLocal(m) /\ SameDraft(m, request[h])
                        /\ m.pc = "ask" /\ m.no = request[h].no
                        /\ m.unasked = request[h].unasked \ {field}
<1>0. AiLocal(request[h]) /\ DOMAIN request = Handlers BY DEF AiTyped
<1>a. ai_version \in [WorkflowDrafts -> Seq(AiVersionRows)] BY DEF AiTyped, AiTypeOK
<1>b. ASSUME NEW new, With(h, new)
      PROVE  \E m : /\ MovesTo(h, m) /\ DOMAIN m = DOMAIN new \cup DOMAIN request[h]
                    /\ \A x \in DOMAIN new : m[x] = new[x]
                    /\ \A x \in DOMAIN request[h] \ DOMAIN new : m[x] = request[h][x]
  BY <1>0, <1>b, WithMoves
<1> DEFINE l == request[h]
<1>1. ASSUME NEW d \in WorkflowDrafts, InsertAiDraft(h, d)
      PROVE  /\ PromptLocal(l) /\ l.pc = "draft"
             /\ \E m : /\ MovesTo(h, m) /\ WritingLocal(m) /\ m.pc = "number" /\ m.draft = d
                       /\ m.id = l.id /\ m.kind = l.kind
  <2>1. PromptLocal(l) /\ l.pc = "draft" BY <1>0, <1>1, AiLocalsByStep DEF InsertAiDraft, At
  <2>2. PICK valid \in Verdicts(l.questions) :
          With(h, [pc |-> "number", draft |-> d, valid |-> valid, status |-> NewStatus(h, valid)])
    BY <1>1 DEF InsertAiDraft
  <2> DEFINE status == NewStatus(h, valid)
             new == [pc |-> "number", draft |-> d, valid |-> valid, status |-> status]
  <2>a. /\ valid \in BOOLEAN /\ status \in DraftStatuses
        /\ status = "clarification_required" <=> l.questions # {}
        /\ status \in {"ready_for_review", "saved"} <=> valid
    BY <2>1, <2>2, NewStatusTells
  <2>3. /\ DOMAIN new = {"pc", "draft", "valid", "status"} /\ new["pc"] = "number"
        /\ new["draft"] = d /\ new["valid"] = valid /\ new["status"] = status
    OBVIOUS
  <2>b. With(h, new) BY <2>2
  <2> HIDE DEF status, new
  <2>4. PICK m : /\ MovesTo(h, m) /\ DOMAIN m = DOMAIN new \cup DOMAIN request[h]
                 /\ \A x \in DOMAIN new : m[x] = new[x]
                 /\ \A x \in DOMAIN request[h] \ DOMAIN new : m[x] = request[h][x]
    <3> HIDE DEF l
    <3> QED BY <1>b, <2>b
  <2>5. m.pc = "number" /\ m.draft = d /\ m.valid = valid /\ m.status = status BY <2>3, <2>4
  <2>6. /\ {"pc", "draft", "kind", "id", "questions", "valid", "status"} \subseteq DOMAIN m
        /\ m.id = l.id /\ m.kind = l.kind /\ m.questions = l.questions
    BY <2>1, <2>3, <2>4 DEF PromptLocal
  <2>7. Judged(m) BY <2>a, <2>5, <2>6 DEF Judged
  <2>8. WritingLocal(m) BY <2>1, <2>5, <2>6, <2>7 DEF PromptLocal, WritingLocal, OwnerOf
  <2> QED BY <2>1, <2>4, <2>5, <2>6, <2>8
<1>2. ASSUME DrawNumber(h)
      PROVE  /\ WritingLocal(l) /\ l.pc = "number"
             /\ \E m : MovesTo(h, m) /\ WritingLocal(m) /\ SameDraft(m, l) /\ m.pc = "version"
  <2> DEFINE n == Len(ai_version[l.draft]) + 1
             new == [pc |-> "version", no |-> n]
  <2>1. WritingLocal(l) /\ l.pc = "number" BY <1>0, <1>2, AiLocalsByStep DEF DrawNumber, At
  <2>2. n \in Nat \ {0} BY <1>a, <2>1 DEF WritingLocal
  <2> HIDE DEF n
  <2>3. DOMAIN new = {"pc", "no"} /\ new["pc"] = "version" /\ new["no"] = n OBVIOUS
  <2>4. With(h, new) BY <1>2 DEF DrawNumber, n
  <2> HIDE DEF new
  <2>5. PICK m : /\ MovesTo(h, m) /\ DOMAIN m = DOMAIN new \cup DOMAIN l
                 /\ \A x \in DOMAIN new : m[x] = new[x]
                 /\ \A x \in DOMAIN l \ DOMAIN new : m[x] = l[x]
    BY <1>b, <2>4
  <2>6. m.pc = "version" /\ m.no = n BY <2>3, <2>5
  <2>7. /\ {"pc", "no", "kind", "id", "draft", "questions", "valid", "status"} \subseteq DOMAIN m
        /\ SameDraft(m, l)
    BY <2>1, <2>3, <2>5 DEF WritingLocal, SameDraft, Judged
  <2>8. WritingLocal(m) BY <2>1, <2>2, <2>6, <2>7 DEF WritingLocal, SameDraft, OwnerOf, Judged
  <2> QED BY <2>1, <2>5, <2>6, <2>7, <2>8
<1>3. ASSUME InsertAiVersion(h)
      PROVE  /\ WritingLocal(l) /\ l.pc = "version"
             /\ \E m : /\ MovesTo(h, m) /\ WritingLocal(m) /\ SameDraft(m, l)
                       /\ m.pc = "clear" /\ m.no = l.no
  <2>1. WritingLocal(l) /\ l.pc = "version" BY <1>0, <1>3, AiLocalsByStep DEF InsertAiVersion, At
  <2>2. "pc" \in DOMAIN l BY <2>1 DEF WritingLocal
  <2>3. PICK m : /\ MovesTo(h, m) /\ DOMAIN m = DOMAIN l /\ m.pc = "clear"
                 /\ \A x \in DOMAIN l \ {"pc"} : m[x] = l[x]
    BY <1>0, <1>3, <2>2, ProceedMoves DEF InsertAiVersion
  <2>4. WritingLocal(m) /\ SameDraft(m, l) /\ m.no = l.no
    BY <2>1, <2>3 DEF WritingLocal, SameDraft, OwnerOf, Judged
  <2> QED BY <2>1, <2>3, <2>4
<1>4. ASSUME DeleteMissing(h)
      PROVE  /\ WritingLocal(l) /\ l.pc = "clear"
             /\ \E m : /\ MovesTo(h, m) /\ WritingLocal(m) /\ SameDraft(m, l)
                       /\ m.pc = "ask" /\ m.no = l.no /\ m.unasked = m.questions
  <2> DEFINE new == [pc |-> "ask", unasked |-> l.questions]
  <2>1. WritingLocal(l) /\ l.pc = "clear" BY <1>0, <1>4, AiLocalsByStep DEF DeleteMissing, At
  <2>2. DOMAIN new = {"pc", "unasked"} /\ new["pc"] = "ask" /\ new["unasked"] = l.questions OBVIOUS
  <2>3. With(h, new) BY <1>4 DEF DeleteMissing, AskAll
  <2> HIDE DEF new
  <2>4. PICK m : /\ MovesTo(h, m) /\ DOMAIN m = DOMAIN new \cup DOMAIN l
                 /\ \A x \in DOMAIN new : m[x] = new[x]
                 /\ \A x \in DOMAIN l \ DOMAIN new : m[x] = l[x]
    BY <1>b, <2>3
  <2>5. m.pc = "ask" /\ m.unasked = l.questions BY <2>2, <2>4
  <2>6. /\ {"pc", "no", "unasked", "kind", "id", "draft", "questions", "valid", "status"}
             \subseteq DOMAIN m
        /\ SameDraft(m, l) /\ m.no = l.no
    BY <2>1, <2>2, <2>4 DEF WritingLocal, SameDraft, Judged
  <2>7. WritingLocal(m) BY <2>1, <2>5, <2>6 DEF WritingLocal, SameDraft, OwnerOf, Judged
  <2> QED BY <2>1, <2>4, <2>5, <2>6, <2>7 DEF SameDraft
<1>5. ASSUME NEW field \in Fields, InsertMissing(h, field)
      PROVE  /\ WritingLocal(l) /\ l.pc = "ask"
             /\ \E m : /\ MovesTo(h, m) /\ WritingLocal(m) /\ SameDraft(m, l)
                       /\ m.pc = "ask" /\ m.no = l.no /\ m.unasked = l.unasked \ {field}
  <2> DEFINE m == [l EXCEPT !.unasked = @ \ {field}]
  <2>1. WritingLocal(l) /\ l.pc = "ask" BY <1>0, <1>5, AiLocalsByStep DEF InsertMissing, At
  <2>2. MovesTo(h, m) BY <1>0, <1>5, GotoMoves DEF InsertMissing
  <2>3. "unasked" \in DOMAIN l /\ "no" \in DOMAIN l BY <2>1 DEF WritingLocal
  <2>4. DOMAIN m = DOMAIN l /\ m.unasked = l.unasked \ {field} BY <2>3
  <2>5. \A x \in DOMAIN l \ {"unasked"} : m[x] = l[x] OBVIOUS
  <2> HIDE DEF m
  <2>6. /\ m.pc = "ask" /\ m.no = l.no /\ m.kind = l.kind /\ m.id = l.id /\ m.draft = l.draft
        /\ m.questions = l.questions /\ m.valid = l.valid /\ m.status = l.status
    BY <2>1, <2>3, <2>5 DEF WritingLocal, Judged
  <2>7. WritingLocal(m) /\ SameDraft(m, l)
    BY <2>1, <2>3, <2>4, <2>6 DEF WritingLocal, SameDraft, OwnerOf, Judged
  <2> QED BY <2>1, <2>2, <2>4, <2>6, <2>7
<1> QED BY <1>1, <1>2, <1>3, <1>4, <1>5

(* Where they come from and go to as they are answered. *)
LEMMA EndMoves ==
  ASSUME AiTyped, NEW h \in Handlers
  PROVE  /\ UpdateAiDraft(h) =>
              /\ WritingLocal(request[h]) /\ request[h].pc = "ask"
              /\ \E m : /\ MovesTo(h, m)
                        /\ \/ m = Idle /\ request[h].kind = "manual"
                           \/ /\ FinalLocal(m) /\ m.id = request[h].id /\ m.kind = request[h].kind
                              /\ m.final = [kind |-> AnswerFor(request[h].questions),
                                            draft |-> request[h].draft]
         /\ Throws(h) =>
              /\ PromptLocal(request[h]) \/ WritingLocal(request[h]) \/ FinalLocal(request[h])
                   \/ CatchLocal(request[h])
              /\ request[h].kind = "message" /\ request[h].id \in AiRequests
              /\ \E m : MovesTo(h, m) /\ CatchLocal(m) /\ m.id = request[h].id
         /\ MarkError(h) =>
              /\ CatchLocal(request[h])
              /\ \E m : /\ MovesTo(h, m) /\ FinalLocal(m) /\ m.id = request[h].id /\ m.kind = "caught"
                        /\ m.final = [kind |-> "error", draft |-> None]
         /\ RecordFinalResponse(h) =>
              /\ FinalLocal(request[h])
              /\ \E m : MovesTo(h, m) /\ (m = Idle \/ (CatchLocal(m) /\ m.id = request[h].id))
         /\ CutShort(h) => MovesTo(h, Idle)
<1>0. AiLocal(request[h]) /\ DOMAIN request = Handlers BY DEF AiTyped
<1> DEFINE l == request[h]
<1>1. ASSUME UpdateAiDraft(h)
      PROVE  /\ WritingLocal(l) /\ l.pc = "ask"
             /\ \E m : /\ MovesTo(h, m)
                       /\ \/ m = Idle /\ l.kind = "manual"
                          \/ /\ FinalLocal(m) /\ m.id = l.id /\ m.kind = l.kind
                             /\ m.final = [kind |-> AnswerFor(l.questions), draft |-> l.draft]
  <2>1. WritingLocal(l) /\ l.pc = "ask" BY <1>0, <1>1, AiLocalsByStep DEF UpdateAiDraft, At
  <2>2. CASE l.kind = "manual"
    <3>1. MovesTo(h, Idle) BY <1>0, <1>1, <2>2, GotoMoves DEF UpdateAiDraft, Return
    <3> QED BY <2>1, <2>2, <3>1
  <2>3. CASE l.kind # "manual"
    <3> DEFINE f == [kind |-> AnswerFor(l.questions), draft |-> l.draft]
               m == [pc |-> "final", kind |-> l.kind, id |-> l.id, final |-> f]
    <3>1. MovesTo(h, m) BY <1>0, <1>1, <2>3, GotoMoves DEF UpdateAiDraft, Conclude
    <3>2. l.id \in AiRequests /\ l.kind \in {"message", "patch"} /\ l.draft \in WorkflowDrafts
      BY <2>1, <2>3 DEF WritingLocal, OwnerOf
    <3>3. f \in FinalResponses BY <3>2 DEF FinalResponses, AnswerFor
    <3>4. FinalLocal(m) BY <3>2, <3>3 DEF FinalLocal
    <3> QED BY <2>1, <3>1, <3>4
  <2> QED BY <2>2, <2>3
<1>2. ASSUME NEW k \in {"message", "caught"}, Catch(h), l.id \in AiRequests
      PROVE  \E m : MovesTo(h, m) /\ CatchLocal(m) /\ m.id = l.id
  <2> DEFINE m == [pc |-> "catch", kind |-> "caught", id |-> l.id]
  <2>1. MovesTo(h, m) BY <1>0, <1>2, GotoMoves DEF Catch
  <2>2. CatchLocal(m) BY <1>2 DEF CatchLocal
  <2> QED BY <2>1, <2>2
<1>3. ASSUME Throws(h)
      PROVE  /\ PromptLocal(l) \/ WritingLocal(l) \/ FinalLocal(l) \/ CatchLocal(l)
             /\ l.kind = "message" /\ l.id \in AiRequests
             /\ \E m : MovesTo(h, m) /\ CatchLocal(m) /\ m.id = l.id
  <2>1. l.kind = "message" /\ "id" \in DOMAIN l /\ Catch(h) /\ l.pc # "idle"
    BY <1>3 DEF Throws, InTryBlock, At
  <2>2. PromptLocal(l) \/ WritingLocal(l) \/ FinalLocal(l) \/ CatchLocal(l)
    BY <1>0, <2>1 DEF AiLocal, Idle, EnteringLocal, RevisingLocal
  <2>3. l.id \in AiRequests
    BY <2>1, <2>2 DEF PromptLocal, WritingLocal, OwnerOf, FinalLocal, CatchLocal
  <2> QED BY <1>2, <2>1, <2>2, <2>3
<1>4. ASSUME MarkError(h)
      PROVE  /\ CatchLocal(l)
             /\ \E m : /\ MovesTo(h, m) /\ FinalLocal(m) /\ m.id = l.id /\ m.kind = "caught"
                       /\ m.final = [kind |-> "error", draft |-> None]
  <2> DEFINE f == [kind |-> "error", draft |-> None]
             m == [pc |-> "final", kind |-> "caught", id |-> l.id, final |-> f]
  <2>1. CatchLocal(l) BY <1>0, <1>4, AiLocalsByStep DEF MarkError, At
  <2>2. MovesTo(h, m) BY <1>0, <1>4, GotoMoves DEF MarkError, Conclude
  <2>3. f \in FinalResponses BY DEF FinalResponses
  <2>4. FinalLocal(m) BY <2>1, <2>3 DEF CatchLocal, FinalLocal
  <2> QED BY <2>1, <2>2, <2>4
<1>5. ASSUME RecordFinalResponse(h)
      PROVE  /\ FinalLocal(l)
             /\ \E m : MovesTo(h, m) /\ (m = Idle \/ (CatchLocal(m) /\ m.id = l.id))
  <2>1. FinalLocal(l) BY <1>0, <1>5, AiLocalsByStep DEF RecordFinalResponse, At
  <2>2. CASE Return(h)
    <3>1. MovesTo(h, Idle) BY <1>0, <2>2, GotoMoves DEF Return
    <3> QED BY <2>1, <3>1
  <2>3. CASE Catch(h) BY <1>2, <2>1, <2>3 DEF FinalLocal
  <2> QED BY <1>5, <2>2, <2>3 DEF RecordFinalResponse
<1>6. ASSUME CutShort(h) PROVE MovesTo(h, Idle) BY <1>0, <1>6, GotoMoves DEF CutShort, Return
<1> QED BY <1>1, <1>3, <1>4, <1>5, <1>6

-----------------------------------------------------------------------------
(* Types. *)
LEMMA LocalsAreKept ==
  ASSUME AiTyped, NEW h \in Handlers, NEW m, MovesTo(h, m), AiLocal(m)
  PROVE  DOMAIN request' = Handlers /\ \A g \in Handlers : AiLocal(request'[g])
  BY DEF AiTyped, MovesTo

(* A field of one row changes. *)
LEMMA RequestRowTypes ==
  ASSUME NEW row \in AiRequestRows
  PROVE  /\ \A s \in {"queued", "completed", "blocked", "error"} :
              [row EXCEPT !.status = s] \in AiRequestRows
         /\ \A f \in FinalResponses : [row EXCEPT !.final = f] \in AiRequestRows
  BY DEF AiRequestRows

(* A draft that is updated is a draft. *)
LEMMA DraftRowTypes ==
  ASSUME NEW row \in AiDraftRows, NEW no \in 0 .. MaxAiVersions, NEW status \in DraftStatuses
  PROVE  [row EXCEPT !.status = status, !.current = no] \in AiDraftRows
  BY DEF AiDraftRows

(* Entering keeps the types. *)
LEMMA EnterTypes ==
  ASSUME AiTyped, NEW h \in Handlers,
         \/ \E key \in AiKeys : SendPatch(h, key) \/ \E own \in {None, Fields} : SendMessage(h, key, own)
         \/ LookUpKey(h) \/ UpdateContext(h)
         \/ \E r \in AiRequests, questions \in SUBSET Fields : CreateAiRequest(h, r, questions)
  PROVE  AiTyped'
<1> USE DEF AiTyped, AiTypeOK
<1>1. ASSUME NEW key \in AiKeys, SendPatch(h, key) \/ \E own \in {None, Fields} : SendMessage(h, key, own)
      PROVE  AiTyped'
  <2>1. PICK m : MovesTo(h, m) /\ AiLocal(m) BY <1>1, SendMoves DEF AiLocal
  <2>2. DOMAIN request' = Handlers /\ \A g \in Handlers : AiLocal(request'[g]) BY <2>1, LocalsAreKept
  <2>3. /\ UNCHANGED <<selected, ai_request, usage, ai_draft, ai_version, disturbed>>
        /\ NoteAi(h)
    BY <1>1 DEF SendPatch, SendMessage
  <2>4. crowded' \in BOOLEAN BY <2>3 DEF NoteAi
  <2> QED BY <2>2, <2>3, <2>4
<1>2. CASE LookUpKey(h)
  <2>1. PICK m : MovesTo(h, m) /\ AiLocal(m) BY <1>2, EnterMoves DEF AiLocal
  <2>2. DOMAIN request' = Handlers /\ \A g \in Handlers : AiLocal(request'[g]) BY <2>1, LocalsAreKept
  <2> QED BY <1>2, <2>2 DEF LookUpKey, aiTables
<1>3. CASE UpdateContext(h)
  <2>1. PICK m : MovesTo(h, m) /\ AiLocal(m) BY <1>3, EnterMoves DEF AiLocal
  <2>2. DOMAIN request' = Handlers /\ \A g \in Handlers : AiLocal(request'[g]) BY <2>1, LocalsAreKept
  <2>3. selected' \subseteq Fields BY <1>3, EnterMoves DEF UpdateContext
  <2>4. disturbed' \subseteq WorkflowDrafts
    <3>1. UNCHANGED disturbed \/ \E d \in WorkflowDrafts : NoteDraft(h, d)
      BY <1>3, EnterMoves DEF RevisingLocal
    <3> QED BY <3>1 DEF NoteDraft
  <2> QED BY <1>3, <2>2, <2>3, <2>4 DEF UpdateContext
<1>4. ASSUME NEW r \in AiRequests, NEW questions \in SUBSET Fields, CreateAiRequest(h, r, questions)
      PROVE  AiTyped'
  <2>1. EnteringLocal(request[h]) /\ \E m : MovesTo(h, m) /\ AiLocal(m) BY <1>4, EnterMoves DEF AiLocal
  <2>2. DOMAIN request' = Handlers /\ \A g \in Handlers : AiLocal(request'[g]) BY <2>1, LocalsAreKept
  <2> DEFINE row == [kind |-> request[h].kind, key |-> request[h].key, status |-> "queued", final |-> None]
  <2>3. row \in AiRequestRows BY <2>1 DEF EnteringLocal, AiRequestRows
  <2>4. ai_request' = [ai_request EXCEPT ![r] = row] BY <1>4 DEF CreateAiRequest
  <2> HIDE DEF row
  <2>5. ai_request' \in [AiRequests -> {None} \cup AiRequestRows] BY <2>3, <2>4
  <2> QED BY <1>4, <2>2, <2>5 DEF CreateAiRequest
<1> QED BY <1>1, <1>2, <1>3, <1>4

(* The row of an AI request is updated, as it is by the one that made it.  *)
LEMMA CompleteTypes ==
  ASSUME AiTyped, NEW r \in AiRequests, ai_request[r] \in AiRequestRows,
         \/ \E s \in {"queued", "completed", "blocked", "error"} :
              ai_request' = [ai_request EXCEPT ![r].status = s]
         \/ \E f \in FinalResponses : ai_request' = [ai_request EXCEPT ![r].final = f]
  PROVE  ai_request' \in [AiRequests -> {None} \cup AiRequestRows]
<1>1. ai_request \in [AiRequests -> {None} \cup AiRequestRows] BY DEF AiTyped, AiTypeOK
<1>2. ASSUME NEW row \in AiRequestRows, ai_request' = [ai_request EXCEPT ![r] = row]
      PROVE  ai_request' \in [AiRequests -> {None} \cup AiRequestRows]
  BY <1>1, <1>2
<1>3. ASSUME NEW s \in {"queued", "completed", "blocked", "error"},
             ai_request' = [ai_request EXCEPT ![r].status = s]
      PROVE  ai_request' \in [AiRequests -> {None} \cup AiRequestRows]
  <2>1. [ai_request[r] EXCEPT !.status = s] \in AiRequestRows BY RequestRowTypes
  <2>2. ai_request' = [ai_request EXCEPT ![r] = [ai_request[r] EXCEPT !.status = s]] BY <1>1, <1>3
  <2> QED BY <1>2, <2>1, <2>2
<1>4. ASSUME NEW f \in FinalResponses, ai_request' = [ai_request EXCEPT ![r].final = f]
      PROVE  ai_request' \in [AiRequests -> {None} \cup AiRequestRows]
  <2>1. [ai_request[r] EXCEPT !.final = f] \in AiRequestRows BY RequestRowTypes
  <2>2. ai_request' = [ai_request EXCEPT ![r] = [ai_request[r] EXCEPT !.final = f]] BY <1>1, <1>4
  <2> QED BY <1>2, <2>1, <2>2
<1> QED BY <1>3, <1>4

(* The AI request of a handler that holds one has been made. *)
LEMMA HeldIsMade ==
  ASSUME AnswersInv, NEW h \in Handlers,
         PromptLocal(request[h]) \/ WritingLocal(request[h]) \/ FinalLocal(request[h])
           \/ CatchLocal(request[h]),
         request[h].id \in AiRequests
  PROVE  Holds(request[h], request[h].id) /\ ai_request[request[h].id] \in AiRequestRows
<1>1. "id" \in DOMAIN request[h]
  BY DEF PromptLocal, WritingLocal, FinalLocal, CatchLocal
<1>2. Holds(request[h], request[h].id) BY <1>1 DEF Holds
<1> QED BY <1>2 DEF AnswersInv, AnswersOK, AiLocalOK

(* The steps around the provider keep the types. *)
LEMMA PromptTypes ==
  ASSUME AnswersInv, NEW h \in Handlers,
         \/ BlockMessage(h) \/ ProviderAnswers(h) \/ RecordUsage(h)
         \/ \E linked \in BOOLEAN : CreateManualDraft(h, linked)
         \/ \E d \in WorkflowDrafts, answers, questions \in SUBSET Fields :
              UpdateDraftInputs(h, d, answers, questions)
  PROVE  AiTyped'
<1>0. AiTyped BY DEF AnswersInv
<1>1. CASE BlockMessage(h)
  <2>1. PICK m : MovesTo(h, m) /\ AiLocal(m) BY <1>0, <1>1, PromptMoves DEF AiLocal
  <2>2. DOMAIN request' = Handlers /\ \A g \in Handlers : AiLocal(request'[g])
    BY <1>0, <2>1, LocalsAreKept
  <2>3. PromptLocal(request[h]) /\ request[h].id \in AiRequests BY <1>0, <1>1, PromptMoves
  <2>4. ai_request' \in [AiRequests -> {None} \cup AiRequestRows]
    <3>1. ai_request' = [ai_request EXCEPT ![request[h].id].status = "blocked"]
      BY <1>1 DEF BlockMessage, Complete
    <3>2. ai_request[request[h].id] \in AiRequestRows BY <2>3, HeldIsMade
    <3> QED BY <1>0, <2>3, <3>1, <3>2, CompleteTypes
  <2> QED BY <1>0, <1>1, <2>2, <2>4 DEF BlockMessage, Complete, AiTyped, AiTypeOK
<1>2. CASE ProviderAnswers(h)
  <2>1. PICK m : MovesTo(h, m) /\ AiLocal(m) BY <1>0, <1>2, PromptMoves DEF AiLocal
  <2>2. DOMAIN request' = Handlers /\ \A g \in Handlers : AiLocal(request'[g])
    BY <1>0, <2>1, LocalsAreKept
  <2>3. PromptLocal(request[h]) /\ request[h].id \in AiRequests BY <1>0, <1>2, PromptMoves
  <2>4. ai_request' \in [AiRequests -> {None} \cup AiRequestRows]
    <3>1. ai_request' = [ai_request EXCEPT ![request[h].id].status = "completed"]
      BY <1>2 DEF ProviderAnswers, Complete
    <3>2. ai_request[request[h].id] \in AiRequestRows BY <2>3, HeldIsMade
    <3> QED BY <1>0, <2>3, <3>1, <3>2, CompleteTypes
  <2> QED BY <1>0, <1>2, <2>2, <2>4 DEF ProviderAnswers, Complete, AiTyped, AiTypeOK
<1>3. CASE RecordUsage(h)
  <2>1. PICK m : MovesTo(h, m) /\ AiLocal(m) BY <1>0, <1>3, PromptMoves DEF AiLocal
  <2>2. DOMAIN request' = Handlers /\ \A g \in Handlers : AiLocal(request'[g])
    BY <1>0, <2>1, LocalsAreKept
  <2>3. request[h].id \in AiRequests BY <1>0, <1>3, PromptMoves
  <2> QED BY <1>0, <1>3, <2>2, <2>3 DEF RecordUsage, AiTyped, AiTypeOK
<1>4. ASSUME NEW linked \in BOOLEAN, CreateManualDraft(h, linked) PROVE AiTyped'
  <2>1. PICK m : MovesTo(h, m) /\ AiLocal(m) BY <1>0, <1>4, PromptMoves DEF AiLocal
  <2>2. DOMAIN request' = Handlers /\ \A g \in Handlers : AiLocal(request'[g])
    BY <1>0, <2>1, LocalsAreKept
  <2> QED BY <1>0, <1>4, <2>2 DEF CreateManualDraft, aiTables, AiTyped, AiTypeOK
<1>5. ASSUME NEW d \in WorkflowDrafts, NEW answers \in SUBSET Fields, NEW questions \in SUBSET Fields,
             UpdateDraftInputs(h, d, answers, questions)
      PROVE AiTyped'
  <2>1. PICK m : MovesTo(h, m) /\ AiLocal(m) BY <1>0, <1>5, PromptMoves DEF AiLocal
  <2>2. DOMAIN request' = Handlers /\ \A g \in Handlers : AiLocal(request'[g])
    BY <1>0, <2>1, LocalsAreKept
  <2> QED BY <1>0, <1>5, <2>2 DEF UpdateDraftInputs, aiTables, AiTyped, AiTypeOK
<1> QED BY <1>1, <1>2, <1>3, <1>4, <1>5

(* A draft's row is written anew. *)
LEMMA DraftTypes ==
  ASSUME AiTyped, NEW d \in WorkflowDrafts, NEW row \in AiDraftRows,
         ai_draft' = [ai_draft EXCEPT ![d] = row]
  PROVE  /\ ai_draft' \in [WorkflowDrafts -> {None} \cup AiDraftRows]
         /\ ai_draft'[d] = row /\ \A c \in WorkflowDrafts \ {d} : ai_draft'[c] = ai_draft[c]
  BY DEF AiTyped, AiTypeOK

(* The draft a request writes is there. *)
LEMMA WritesARow ==
  ASSUME AnswersInv, NEW h \in Handlers, WritingLocal(request[h])
  PROVE  ai_draft[request[h].draft] \in AiDraftRows /\ request[h].draft \in WorkflowDrafts
  BY DEF AnswersInv, AnswersOK, AiLocalOK, WritingLocal

(* The row a step of persistDraftVersion writes. *)
LEMMA WriteRows ==
  ASSUME AnswersInv, NEW h \in Handlers
  PROVE  /\ \A d \in WorkflowDrafts : InsertAiDraft(h, d) =>
              \E row \in AiDraftRows : ai_draft' = [ai_draft EXCEPT ![d] = row]
         /\ DeleteMissing(h) =>
              \E row \in AiDraftRows :
                /\ ai_draft' = [ai_draft EXCEPT ![request[h].draft] = row]
                /\ row.missing = {} /\ row.current = ai_draft[request[h].draft].current
         /\ \A field \in Fields : InsertMissing(h, field) =>
              \E row \in AiDraftRows :
                /\ ai_draft' = [ai_draft EXCEPT ![request[h].draft] = row]
                /\ row.missing = ai_draft[request[h].draft].missing \cup {field}
                /\ row.current = ai_draft[request[h].draft].current
         /\ UpdateAiDraft(h) =>
              \E row \in AiDraftRows :
                /\ ai_draft' = [ai_draft EXCEPT ![request[h].draft] = row]
                /\ row.missing = ai_draft[request[h].draft].missing
                /\ row.current = request[h].no /\ row.status = request[h].status
<1>0. AiTyped BY DEF AnswersInv
<1>a. ai_draft \in [WorkflowDrafts -> {None} \cup AiDraftRows] BY <1>0 DEF AiTyped, AiTypeOK
<1> DEFINE l == request[h]
<1>1. ASSUME NEW d \in WorkflowDrafts, InsertAiDraft(h, d)
      PROVE  \E row \in AiDraftRows : ai_draft' = [ai_draft EXCEPT ![d] = row]
  <2>1. PromptLocal(l) BY <1>0, <1>1, WriteMoves
  <2>2. PICK valid \in Verdicts(l.questions) :
          ai_draft' = [ai_draft EXCEPT ![d] =
            [status |-> NewStatus(h, valid), current |-> 0, missing |-> {}, linked |-> l.linked]]
    BY <1>1 DEF InsertAiDraft
  <2>3. NewStatus(h, valid) \in DraftStatuses BY <2>1, NewStatusTells
  <2>4. [status |-> NewStatus(h, valid), current |-> 0, missing |-> {}, linked |-> l.linked]
          \in AiDraftRows
    BY <2>1, <2>3, AiAssumption DEF PromptLocal, AiDraftRows
  <2> QED BY <2>2, <2>4
<1>2. ASSUME NEW missing \in SUBSET Fields, WritingLocal(l),
             ai_draft' = [ai_draft EXCEPT ![l.draft].missing = missing]
      PROVE  \E row \in AiDraftRows : /\ ai_draft' = [ai_draft EXCEPT ![l.draft] = row]
                                      /\ row.missing = missing /\ row.current = ai_draft[l.draft].current
  <2> DEFINE row == [ai_draft[l.draft] EXCEPT !.missing = missing]
  <2>1. ai_draft[l.draft] \in AiDraftRows BY <1>2, WritesARow
  <2>2. row \in AiDraftRows BY <2>1 DEF AiDraftRows
  <2>3. row.missing = missing /\ row.current = ai_draft[l.draft].current BY <2>1 DEF AiDraftRows
  <2>4. ai_draft' = [ai_draft EXCEPT ![l.draft] = row] BY <1>2
  <2> QED BY <2>2, <2>3, <2>4
<1>3. ASSUME DeleteMissing(h)
      PROVE  \E row \in AiDraftRows : /\ ai_draft' = [ai_draft EXCEPT ![l.draft] = row]
                                      /\ row.missing = {} /\ row.current = ai_draft[l.draft].current
  <2>1. WritingLocal(l) BY <1>0, <1>3, WriteMoves
  <2>2. ai_draft' = [ai_draft EXCEPT ![l.draft].missing = {}] BY <1>3 DEF DeleteMissing
  <2> QED BY <1>2, <2>1, <2>2
<1>4. ASSUME NEW field \in Fields, InsertMissing(h, field)
      PROVE  \E row \in AiDraftRows : /\ ai_draft' = [ai_draft EXCEPT ![l.draft] = row]
                                      /\ row.missing = ai_draft[l.draft].missing \cup {field}
                                      /\ row.current = ai_draft[l.draft].current
  <2>1. WritingLocal(l) BY <1>0, <1>4, WriteMoves
  <2>2. ai_draft[l.draft] \in AiDraftRows BY <2>1, WritesARow
  <2>3. ai_draft[l.draft].missing \cup {field} \in SUBSET Fields BY <2>2 DEF AiDraftRows
  <2>4. ai_draft' = [ai_draft EXCEPT ![l.draft].missing = ai_draft[l.draft].missing \cup {field}]
    BY <1>4 DEF InsertMissing
  <2> QED BY <1>2, <2>1, <2>3, <2>4
<1>5. ASSUME UpdateAiDraft(h)
      PROVE  \E row \in AiDraftRows : /\ ai_draft' = [ai_draft EXCEPT ![l.draft] = row]
                                      /\ row.missing = ai_draft[l.draft].missing
                                      /\ row.current = l.no /\ row.status = l.status
  <2> DEFINE row == [ai_draft[l.draft] EXCEPT !.status = l.status, !.current = l.no]
  <2>1. WritingLocal(l) /\ l.pc = "ask" BY <1>0, <1>5, EndMoves
  <2>2. ai_draft[l.draft] \in AiDraftRows /\ l.draft \in WorkflowDrafts BY <2>1, WritesARow
  <2>3. l.no \in 0 .. MaxAiVersions
    <3>1. l.no \in DOMAIN ai_version[l.draft] BY <2>1 DEF AnswersInv, AnswersOK, AiLocalOK
    <3>2. ai_version[l.draft] \in Seq(AiVersionRows) /\ Len(ai_version[l.draft]) <= MaxAiVersions
      BY <1>0, <2>2 DEF AiTyped, AiTypeOK
    <3> QED BY <3>1, <3>2, AiAssumption
  <2>4. row \in AiDraftRows
    <3>1. l.status \in DraftStatuses BY <2>1 DEF WritingLocal, Judged
    <3> QED BY <2>2, <2>3, <3>1, DraftRowTypes
  <2>5. row.missing = ai_draft[l.draft].missing /\ row.current = l.no
        /\ row.status = l.status
    BY <2>2 DEF AiDraftRows
  <2>6. ai_draft' = [ai_draft EXCEPT ![l.draft] = row] BY <1>5 DEF UpdateAiDraft
  <2> QED BY <2>4, <2>5, <2>6
<1> QED BY <1>1, <1>3, <1>4, <1>5

(* A version is added to a draft. *)
LEMMA VersionAdded ==
  ASSUME AiTyped, NEW h \in Handlers, InsertAiVersion(h)
  PROVE  LET d == request[h].draft
             no == request[h].no
             version == StoredBy(request[h])
         IN /\ d \in WorkflowDrafts /\ no = Len(ai_version[d]) + 1
            /\ DOMAIN ai_version = WorkflowDrafts /\ DOMAIN ai_version' = WorkflowDrafts
            /\ \A c \in WorkflowDrafts \ {d} : ai_version'[c] = ai_version[c]
            /\ ai_version[d] \in Seq(AiVersionRows) /\ ai_version'[d] \in Seq(AiVersionRows)
            /\ Len(ai_version'[d]) = no /\ no <= MaxAiVersions
            /\ ai_version'[d][no] = version
            /\ \A n \in 1 .. Len(ai_version[d]) : ai_version'[d][n] = ai_version[d][n]
<1> DEFINE d == request[h].draft
           no == request[h].no
           version == StoredBy(request[h])
<1>1. WritingLocal(request[h]) BY WriteMoves
<1>2. d \in WorkflowDrafts BY <1>1 DEF WritingLocal
<1>3. version \in AiVersionRows
  BY <1>1 DEF WritingLocal, Judged, OwnerOf, AiVersionRows, StoredBy
<1>4. /\ ai_version \in [WorkflowDrafts -> Seq(AiVersionRows)] /\ MaxAiVersions \in Nat
  BY AiAssumption DEF AiTyped, AiTypeOK
<1>5. /\ Len(ai_version[d]) < MaxAiVersions /\ no = Len(ai_version[d]) + 1
      /\ ai_version' = [ai_version EXCEPT ![d] = Append(@, version)]
  BY DEF InsertAiVersion, StoredBy
<1> HIDE DEF version, d, no
<1>6. ai_version'[d] = Append(ai_version[d], version) /\ DOMAIN ai_version' = WorkflowDrafts
      /\ \A c \in WorkflowDrafts \ {d} : ai_version'[c] = ai_version[c]
  BY <1>2, <1>4, <1>5
<1>7. ai_version[d] \in Seq(AiVersionRows) /\ Len(ai_version[d]) \in Nat BY <1>2, <1>4
<1>8. /\ ai_version'[d] \in Seq(AiVersionRows) /\ Len(ai_version'[d]) = no
      /\ ai_version'[d][no] = version
      /\ \A n \in 1 .. Len(ai_version[d]) : ai_version'[d][n] = ai_version[d][n]
  BY <1>3, <1>5, <1>6, <1>7
<1> QED BY <1>2, <1>4, <1>5, <1>6, <1>7, <1>8 DEF version, d, no

(* The statements that write a draft keep the types. *)
LEMMA WriteTypes ==
  ASSUME AnswersInv, NEW h \in Handlers,
         \/ \E d \in WorkflowDrafts : InsertAiDraft(h, d)
         \/ DrawNumber(h) \/ InsertAiVersion(h) \/ DeleteMissing(h)
         \/ \E field \in Fields : InsertMissing(h, field)
  PROVE  AiTyped'
<1>0. AiTyped BY DEF AnswersInv
<1>1. DOMAIN request' = Handlers /\ \A g \in Handlers : AiLocal(request'[g])
  <2>1. PICK m : MovesTo(h, m) /\ WritingLocal(m) BY <1>0, WriteMoves
  <2>2. AiLocal(m) BY <2>1 DEF AiLocal
  <2> QED BY <1>0, <2>1, <2>2, LocalsAreKept
<1>2. ASSUME NEW d \in WorkflowDrafts, NEW row \in AiDraftRows,
             ai_draft' = [ai_draft EXCEPT ![d] = row],
             UNCHANGED <<selected, ai_request, usage, ai_version, crowded, disturbed>>
      PROVE  AiTyped'
  BY <1>0, <1>1, <1>2, DraftTypes DEF AiTyped, AiTypeOK
<1>3. ASSUME NEW d \in WorkflowDrafts, InsertAiDraft(h, d) PROVE AiTyped'
  <2>1. PICK row \in AiDraftRows : ai_draft' = [ai_draft EXCEPT ![d] = row] BY <1>3, WriteRows
  <2>2. UNCHANGED <<selected, ai_request, usage, ai_version, crowded, disturbed>>
    BY <1>3 DEF InsertAiDraft
  <2> QED BY <1>2, <2>1, <2>2
<1>4. CASE DrawNumber(h)
  BY <1>0, <1>1, <1>4 DEF DrawNumber, aiTables, AiTyped, AiTypeOK
<1>5. CASE InsertAiVersion(h)
  <2>1. /\ ai_version' = [ai_version EXCEPT ![request[h].draft] =
             Append(@, StoredBy(request[h]))]
        /\ UNCHANGED <<selected, ai_request, usage, ai_draft, crowded, disturbed>>
    BY <1>5 DEF InsertAiVersion, StoredBy
  <2>2. \A d \in WorkflowDrafts : /\ ai_version'[d] \in Seq(AiVersionRows)
                                  /\ Len(ai_version'[d]) <= MaxAiVersions
    BY <1>0, <1>5, VersionAdded DEF AiTyped, AiTypeOK
  <2>3. ai_version' \in [WorkflowDrafts -> Seq(AiVersionRows)]
    BY <1>0, <2>1, <2>2 DEF AiTyped, AiTypeOK
  <2> QED BY <1>0, <1>1, <2>1, <2>2, <2>3 DEF AiTyped, AiTypeOK
<1>6. CASE DeleteMissing(h)
  <2>1. request[h].draft \in WorkflowDrafts BY <1>0, <1>6, WriteMoves DEF WritingLocal
  <2> QED BY <1>2, <1>6, <2>1, WriteRows DEF DeleteMissing
<1>7. ASSUME NEW field \in Fields, InsertMissing(h, field) PROVE AiTyped'
  <2>1. request[h].draft \in WorkflowDrafts BY <1>0, <1>7, WriteMoves DEF WritingLocal
  <2> QED BY <1>2, <1>7, <2>1, WriteRows DEF InsertMissing
<1> QED BY <1>3, <1>4, <1>5, <1>6, <1>7

(* Answering, failing and ending early keep the types. *)
LEMMA EndTypes ==
  ASSUME AnswersInv, NEW h \in Handlers,
         UpdateAiDraft(h) \/ Throws(h) \/ MarkError(h) \/ RecordFinalResponse(h) \/ CutShort(h)
  PROVE  AiTyped'
<1>0. AiTyped BY DEF AnswersInv
<1>1. DOMAIN request' = Handlers /\ \A g \in Handlers : AiLocal(request'[g])
  <2>1. PICK m : MovesTo(h, m) /\ (m = Idle \/ FinalLocal(m) \/ CatchLocal(m)) BY <1>0, EndMoves
  <2>2. AiLocal(m) BY <2>1 DEF AiLocal
  <2> QED BY <1>0, <2>1, <2>2, LocalsAreKept
<1>2. CASE UpdateAiDraft(h)
  <2>1. request[h].draft \in WorkflowDrafts BY <1>0, <1>2, EndMoves DEF WritingLocal
  <2>2. UNCHANGED <<selected, ai_request, usage, ai_version, crowded, disturbed>>
    BY <1>2 DEF UpdateAiDraft
  <2>3. PICK row \in AiDraftRows : ai_draft' = [ai_draft EXCEPT ![request[h].draft] = row]
    BY <1>2, WriteRows
  <2> QED BY <1>0, <1>1, <2>1, <2>2, <2>3, DraftTypes DEF AiTyped, AiTypeOK
<1>3. CASE Throws(h)
  BY <1>0, <1>1, <1>3 DEF Throws, NoteLeft, AiTyped, AiTypeOK
<1>4. ASSUME NEW r \in AiRequests, r = request[h].id, CatchLocal(request[h]) \/ FinalLocal(request[h])
      PROVE  ai_request[r] \in AiRequestRows
  BY <1>4, HeldIsMade
<1>5. CASE MarkError(h)
  <2>1. CatchLocal(request[h]) /\ request[h].id \in AiRequests
    BY <1>0, <1>5, EndMoves DEF CatchLocal
  <2>2. /\ ai_request' = [ai_request EXCEPT ![request[h].id].status = "error"]
        /\ UNCHANGED <<selected, usage, ai_draft, ai_version, crowded, disturbed>>
    BY <1>5 DEF MarkError, Complete
  <2>3. ai_request' \in [AiRequests -> {None} \cup AiRequestRows]
    BY <1>0, <1>4, <2>1, <2>2, CompleteTypes
  <2> QED BY <1>0, <1>1, <2>2, <2>3 DEF AiTyped, AiTypeOK
<1>6. CASE RecordFinalResponse(h)
  <2>1. /\ FinalLocal(request[h]) /\ request[h].id \in AiRequests
        /\ request[h].final \in FinalResponses
    BY <1>0, <1>6, EndMoves DEF FinalLocal
  <2>2. /\ ai_request' = [ai_request EXCEPT ![request[h].id].final = request[h].final]
        /\ UNCHANGED <<selected, usage, ai_draft, ai_version, crowded, disturbed>>
    BY <1>6 DEF RecordFinalResponse
  <2>3. ai_request' \in [AiRequests -> {None} \cup AiRequestRows]
    BY <1>0, <1>4, <2>1, <2>2, CompleteTypes
  <2> QED BY <1>0, <1>1, <2>2, <2>3 DEF AiTyped, AiTypeOK
<1>7. CASE CutShort(h)
  BY <1>0, <1>1, <1>7 DEF CutShort, NoteLeft, ForAi, AiTyped, AiTypeOK
<1> QED BY <1>2, <1>3, <1>5, <1>6, <1>7

(* The types hold initially. *)
LEMMA InitAi == AiInit => AiTyped
<1> SUFFICES ASSUME AiInit PROVE AiTyped
  OBVIOUS
<1>1. DOMAIN request = Handlers /\ \A h \in Handlers : AiLocal(request[h])
  BY DEF AiInit, RequestsInit, AiLocal
<1>2. /\ ai_version \in [WorkflowDrafts -> Seq(AiVersionRows)]
      /\ \A d \in WorkflowDrafts : Len(ai_version[d]) <= MaxAiVersions
  BY AiAssumption DEF AiInit
<1> QED BY <1>1, <1>2 DEF AiInit, AiTyped, AiTypeOK

(* Every step but a stuttering one is a step of one request.               *)
StepOf(h) ==
  \/ \E key \in AiKeys : SendPatch(h, key) \/ \E own \in {None, Fields} : SendMessage(h, key, own)
  \/ LookUpKey(h) \/ UpdateContext(h)
  \/ \E r \in AiRequests, questions \in SUBSET Fields : CreateAiRequest(h, r, questions)
  \/ BlockMessage(h) \/ ProviderAnswers(h) \/ RecordUsage(h)
  \/ \E linked \in BOOLEAN : CreateManualDraft(h, linked)
  \/ \E d \in WorkflowDrafts, answers, questions \in SUBSET Fields :
       UpdateDraftInputs(h, d, answers, questions)
  \/ \E d \in WorkflowDrafts : InsertAiDraft(h, d)
  \/ DrawNumber(h) \/ InsertAiVersion(h) \/ DeleteMissing(h)
  \/ \E field \in Fields : InsertMissing(h, field)
  \/ UpdateAiDraft(h) \/ Throws(h) \/ MarkError(h) \/ RecordFinalResponse(h) \/ CutShort(h)

(* Every step of the gateway is some handler's. *)
LEMMA AiNextByHandler == AiNext => \E h \in Handlers : StepOf(h)
<1>1. AiServes => \E h \in Handlers : StepOf(h) BY DEF AiServes, StepOf
<1>2. PeopleWrite => \E h \in Handlers : StepOf(h) BY DEF PeopleWrite, StepOf
<1>3. AiFails => \E h \in Handlers : StepOf(h) BY DEF AiFails, StepOf
<1> QED BY <1>1, <1>2, <1>3 DEF AiNext

(* Every handler's step keeps the types. *)
LEMMA StepTypes == ASSUME AnswersInv, NEW h \in Handlers, StepOf(h) PROVE AiTyped'
<1>1. AiTyped BY DEF AnswersInv
<1>2. CASE \/ \E key \in AiKeys :
                SendPatch(h, key) \/ \E own \in {None, Fields} : SendMessage(h, key, own)
           \/ LookUpKey(h) \/ UpdateContext(h)
           \/ \E r \in AiRequests, questions \in SUBSET Fields : CreateAiRequest(h, r, questions)
  BY <1>1, <1>2, EnterTypes
<1>3. CASE \/ BlockMessage(h) \/ ProviderAnswers(h) \/ RecordUsage(h)
           \/ \E linked \in BOOLEAN : CreateManualDraft(h, linked)
           \/ \E d \in WorkflowDrafts, answers, questions \in SUBSET Fields :
                UpdateDraftInputs(h, d, answers, questions)
  BY <1>3, PromptTypes
<1>4. CASE \/ \E d \in WorkflowDrafts : InsertAiDraft(h, d)
           \/ DrawNumber(h) \/ InsertAiVersion(h) \/ DeleteMissing(h)
           \/ \E field \in Fields : InsertMissing(h, field)
  BY <1>4, WriteTypes
<1>5. CASE UpdateAiDraft(h) \/ Throws(h) \/ MarkError(h) \/ RecordFinalResponse(h) \/ CutShort(h)
  BY <1>5, EndTypes
<1> QED BY <1>2, <1>3, <1>4, <1>5 DEF StepOf

-----------------------------------------------------------------------------
(* What a request with the local variables l leaves alone: the rows of AI  *)
(* requests it does not hold, drafts that are there, and old versions.     *)
Kept(l, rs, vs, ds, rs2, vs2, ds2) ==
  /\ \A r \in AiRequests : rs[r] \in AiRequestRows =>
       rs2[r] \in AiRequestRows /\ (Holds(l, r) \/ rs2[r] = rs[r])
  /\ \A d \in WorkflowDrafts : ds[d] \in AiDraftRows =>
       ds2[d] \in AiDraftRows /\ (ds[d].current > 0 => ds2[d].current > 0)
  /\ \A d \in WorkflowDrafts :
       /\ DOMAIN vs[d] \subseteq DOMAIN vs2[d]
       /\ \A n \in DOMAIN vs[d] : vs2[d][n] = vs[d][n]
       /\ \A n \in DOMAIN vs2[d] \ DOMAIN vs[d] : Holds(l, vs2[d][n].ai_request)

(* Versions of a request that somebody else holds stay as they are. *)
LEMMA VersionsKept ==
  ASSUME NEW l, NEW rs, NEW vs, NEW ds, NEW rs2, NEW vs2, NEW ds2,
         Kept(l, rs, vs, ds, rs2, vs2, ds2), NEW d \in WorkflowDrafts, NEW r, ~Holds(l, r)
  PROVE  MadeIn(vs2[d], r) = MadeIn(vs[d], r)
<1>1. \A n \in DOMAIN vs2[d] \ DOMAIN vs[d] : vs2[d][n].ai_request # r BY DEF Kept
<1> QED BY <1>1 DEF Kept, MadeIn

(* An answer stays true for an AI request the mover does not hold.         *)
LEMMA AnswerKept ==
  ASSUME NEW l, NEW rs, NEW vs, NEW ds, NEW rs2, NEW vs2, NEW ds2,
         Kept(l, rs, vs, ds, rs2, vs2, ds2), NEW r, ~Holds(l, r),
         NEW final \in FinalResponses, AnswerOK(final, r, vs, ds)
  PROVE  AnswerOK(final, r, vs2, ds2)
<1>1. ASSUME final.draft # None
      PROVE  /\ ds2[final.draft] \in AiDraftRows /\ ds2[final.draft].current > 0
             /\ \E n \in MadeIn(vs2[final.draft], r) :
                  final.kind = "ready" <=> vs2[final.draft][n].questions = {}
  <2>1. final.draft \in WorkflowDrafts BY <1>1 DEF FinalResponses
  <2>2. PICK n \in MadeIn(vs[final.draft], r) :
          final.kind = "ready" <=> vs[final.draft][n].questions = {}
    BY <1>1 DEF AnswerOK
  <2>3. n \in DOMAIN vs[final.draft] BY DEF MadeIn
  <2>4. vs2[final.draft][n] = vs[final.draft][n] BY <2>1, <2>3 DEF Kept
  <2>5. n \in MadeIn(vs2[final.draft], r) BY <2>1, VersionsKept
  <2>6. ds2[final.draft] \in AiDraftRows /\ ds2[final.draft].current > 0
    BY <1>1, <2>1 DEF AnswerOK, Kept
  <2> QED BY <2>2, <2>4, <2>5, <2>6
<1>2. ASSUME final.kind = "blocked_by_policy", NEW d \in WorkflowDrafts
      PROVE  MadeIn(vs2[d], r) = {}
  BY <1>2, VersionsKept DEF AnswerOK
<1> QED BY <1>1, <1>2 DEF AnswerOK

(* A request that does not move can still rely on what it did.             *)
LEMMA OthersKept ==
  ASSUME NEW l, NEW rs, NEW vs, NEW ds, NEW rs2, NEW vs2, NEW ds2,
         Kept(l, rs, vs, ds, rs2, vs2, ds2),
         NEW other, AiLocal(other), AiLocalOK(other, rs, vs, ds),
         \A r \in AiRequests : ~(Holds(l, r) /\ Holds(other, r))
  PROVE  AiLocalOK(other, rs2, vs2, ds2)
<1>1. \A r \in AiRequests : Holds(other, r) => rs2[r] \in AiRequestRows /\ rs2[r] = rs[r]
  BY DEF Kept, AiLocalOK
<1>2. PromptLocal(other) \/ WritingLocal(other) =>
        \A r \in AiRequests : Holds(other, r) => rs2[r].final = None
  BY <1>1 DEF AiLocalOK
<1>3. ASSUME other.pc = "provider", NEW d \in WorkflowDrafts PROVE MadeIn(vs2[d], other.id) = {}
  <2>1. PromptLocal(other) BY <1>3, AiLocalsByStep
  <2>2. Holds(other, other.id) /\ other.id \in AiRequests
    BY <1>3, <2>1 DEF PromptLocal, OwnerOf, Holds
  <2>3. ~Holds(l, other.id) BY <2>2
  <2> QED BY <1>3, <2>3, VersionsKept DEF AiLocalOK
<1>4. WritingLocal(other) \/ RevisingLocal(other) => ds2[other.draft] \in AiDraftRows
  BY DEF AiLocalOK, Kept, WritingLocal, RevisingLocal
<1>5. ASSUME other.pc \in {"clear", "ask"}
      PROVE  /\ other.no \in DOMAIN vs2[other.draft]
             /\ vs2[other.draft][other.no] = StoredBy(other)
  <2>1. other.draft \in WorkflowDrafts BY <1>5, AiLocalsByStep DEF WritingLocal
  <2> QED BY <1>5, <2>1 DEF AiLocalOK, Kept
<1>6. ASSUME FinalLocal(other) PROVE AnswerOK(other.final, other.id, vs2, ds2)
  <2>1. /\ Holds(other, other.id) /\ other.id \in AiRequests /\ other.final \in FinalResponses
    BY <1>6 DEF FinalLocal, Holds
  <2>2. ~Holds(l, other.id) /\ AnswerOK(other.final, other.id, vs, ds) BY <1>6, <2>1 DEF AiLocalOK
  <2> QED BY <2>1, <2>2, AnswerKept
<1> QED BY <1>1, <1>2, <1>3, <1>4, <1>5, <1>6 DEF AiLocalOK

(* What a step has to show of the request that takes it: what the request  *)
(* relies on next, and the answers of the AI requests it holds.            *)
LEMMA AnswersStep ==
  ASSUME AnswersInv, AiTyped', NEW h \in Handlers, NEW m, MovesTo(h, m),
         Kept(request[h], ai_request, ai_version, ai_draft, ai_request', ai_version', ai_draft'),
         \A r \in AiRequests : Holds(m, r) => Holds(request[h], r) \/ ai_request[r] = None,
         \A r \in AiRequests : ai_request[r] = None => ai_request'[r] = None \/ ai_request'[r].final = None,
         AiLocalOK(m, ai_request', ai_version', ai_draft'),
         \A r \in AiRequests : Holds(request[h], r) /\ ai_request'[r].final # None =>
           AnswerOK(ai_request'[r].final, r, ai_version', ai_draft')
  PROVE  AnswersInv'
<1> DEFINE l == request[h]
<1>1. \A g \in Handlers, r \in AiRequests : Holds(request[g], r) => ai_request[r] \in AiRequestRows
  BY DEF AnswersInv, AnswersOK, AiLocalOK
<1>2. None \notin AiRequestRows BY AiNullAssumption
<1>3. \A r \in AiRequests : \A g, f \in Handlers :
        Holds(request'[g], r) /\ Holds(request'[f], r) => g = f
  <2>1. \A g \in Handlers \ {h}, r \in AiRequests : ~(Holds(m, r) /\ Holds(request[g], r))
    BY <1>1, <1>2 DEF AnswersInv, AnswersOK
  <2> QED BY <2>1 DEF AnswersInv, AnswersOK, MovesTo
<1>4. ASSUME NEW d \in WorkflowDrafts, NEW n \in DOMAIN ai_version'[d], NEW r \in AiRequests,
             ai_version'[d][n].ai_request = r
      PROVE  ai_request'[r] \in AiRequestRows
  <2>1. ai_request[r] \in AiRequestRows
    <3>1. CASE n \in DOMAIN ai_version[d] BY <1>4, <3>1 DEF Kept, AnswersInv, AnswersOK
    <3>2. CASE n \notin DOMAIN ai_version[d] BY <1>1, <1>4, <3>2 DEF Kept
    <3> QED BY <3>1, <3>2
  <2> QED BY <2>1 DEF Kept
<1>5. ASSUME NEW r \in AiRequests, ai_request'[r] \in AiRequestRows, ai_request'[r].final # None
      PROVE  AnswerOK(ai_request'[r].final, r, ai_version', ai_draft')
  <2>1. CASE Holds(l, r) BY <1>5, <2>1
  <2>2. CASE ~Holds(l, r)
    <3>1. ai_request[r] # None BY <1>2, <1>5
    <3>2. ai_request[r] \in AiRequestRows BY <3>1 DEF AnswersInv, AiTyped, AiTypeOK
    <3>3. ai_request'[r] = ai_request[r] BY <2>2, <3>2 DEF Kept
    <3>4. ai_request[r].final \in FinalResponses BY <1>5, <3>2, <3>3 DEF AiRequestRows
    <3>5. AnswerOK(ai_request[r].final, r, ai_version, ai_draft)
      BY <1>5, <3>2, <3>3 DEF AnswersInv, AnswersOK
    <3> QED BY <2>2, <3>3, <3>4, <3>5, AnswerKept
  <2> QED BY <2>1, <2>2
<1>6. ASSUME NEW g \in Handlers
      PROVE  AiLocalOK(request'[g], ai_request', ai_version', ai_draft')
  <2>1. CASE g = h BY <2>1 DEF MovesTo
  <2>2. CASE g # h
    <3>1. request'[g] = request[g] BY <2>2 DEF MovesTo
    <3>2. \A r \in AiRequests : ~(Holds(l, r) /\ Holds(request[g], r))
      BY <2>2 DEF AnswersInv, AnswersOK
    <3>3. AiLocal(request[g]) /\ AiLocalOK(request[g], ai_request, ai_version, ai_draft)
      BY DEF AnswersInv, AiTyped, AnswersOK
    <3> HIDE DEF l
    <3>4. Kept(l, ai_request, ai_version, ai_draft, ai_request', ai_version', ai_draft') BY DEF l
    <3> QED BY <3>1, <3>2, <3>3, <3>4, OthersKept
  <2> QED BY <2>1, <2>2
<1> QED BY <1>3, <1>4, <1>5, <1>6 DEF AnswersInv, AnswersOK

(* What each kind of local variables has to have with it. *)
LEMMA LocalGood ==
  ASSUME NEW m, NEW rs, NEW vs, NEW ds
  PROVE  /\ m = Idle \/ EnteringLocal(m) => AiLocalOK(m, rs, vs, ds)
         /\ RevisingLocal(m) /\ ds[m.draft] \in AiDraftRows => AiLocalOK(m, rs, vs, ds)
         /\ /\ PromptLocal(m)
            /\ m.id \in AiRequests => rs[m.id] \in AiRequestRows /\ rs[m.id].final = None
            /\ m.pc = "provider" => \A d \in WorkflowDrafts : MadeIn(vs[d], m.id) = {}
            => AiLocalOK(m, rs, vs, ds)
         /\ /\ WritingLocal(m)
            /\ m.id \in AiRequests => rs[m.id] \in AiRequestRows /\ rs[m.id].final = None
            /\ ds[m.draft] \in AiDraftRows
            /\ m.pc \in {"clear", "ask"} =>
                 /\ m.no \in DOMAIN vs[m.draft]
                 /\ vs[m.draft][m.no] = StoredBy(m)
            => AiLocalOK(m, rs, vs, ds)
         /\ FinalLocal(m) /\ rs[m.id] \in AiRequestRows /\ AnswerOK(m.final, m.id, vs, ds)
              => AiLocalOK(m, rs, vs, ds)
         /\ CatchLocal(m) /\ rs[m.id] \in AiRequestRows => AiLocalOK(m, rs, vs, ds)
<1>0. DOMAIN Idle = {"pc"} /\ Idle.pc = "idle" BY DEF Idle
<1>1. m = Idle \/ EnteringLocal(m) => AiLocalOK(m, rs, vs, ds)
  BY <1>0 DEF EnteringLocal, AiLocalOK, Holds, PromptLocal, WritingLocal, RevisingLocal, FinalLocal
<1>2. RevisingLocal(m) /\ ds[m.draft] \in AiDraftRows => AiLocalOK(m, rs, vs, ds)
  BY AiNullAssumption
     DEF RevisingLocal, AiLocalOK, Holds, PromptLocal, WritingLocal, FinalLocal
<1>3. /\ PromptLocal(m)
      /\ m.id \in AiRequests => rs[m.id] \in AiRequestRows /\ rs[m.id].final = None
      /\ m.pc = "provider" => \A d \in WorkflowDrafts : MadeIn(vs[d], m.id) = {}
      => AiLocalOK(m, rs, vs, ds)
  BY DEF RevisingLocal, AiLocalOK, Holds, PromptLocal, WritingLocal, FinalLocal
<1>4. /\ WritingLocal(m)
      /\ m.id \in AiRequests => rs[m.id] \in AiRequestRows /\ rs[m.id].final = None
      /\ ds[m.draft] \in AiDraftRows
      /\ m.pc \in {"clear", "ask"} =>
           /\ m.no \in DOMAIN vs[m.draft]
           /\ vs[m.draft][m.no] = StoredBy(m)
      => AiLocalOK(m, rs, vs, ds)
  BY DEF RevisingLocal, AiLocalOK, Holds, PromptLocal, WritingLocal, FinalLocal
<1>5. FinalLocal(m) /\ rs[m.id] \in AiRequestRows /\ AnswerOK(m.final, m.id, vs, ds)
        => AiLocalOK(m, rs, vs, ds)
  BY DEF RevisingLocal, AiLocalOK, Holds, PromptLocal, WritingLocal, FinalLocal
<1>6. CatchLocal(m) /\ rs[m.id] \in AiRequestRows => AiLocalOK(m, rs, vs, ds)
  BY DEF RevisingLocal, AiLocalOK, Holds, PromptLocal, WritingLocal, FinalLocal, CatchLocal
<1> QED BY <1>1, <1>2, <1>3, <1>4, <1>5, <1>6

(* What a request can rely on, by its local variables. *)
LEMMA WhatHolds ==
  ASSUME AnswersInv, NEW h \in Handlers
  PROVE  /\ request[h] = Idle \/ EnteringLocal(request[h]) \/ RevisingLocal(request[h]) =>
              \A r \in AiRequests : ~Holds(request[h], r)
         /\ PromptLocal(request[h]) \/ WritingLocal(request[h]) =>
              /\ Holds(request[h], request[h].id)
              /\ \A r \in AiRequests : Holds(request[h], r) =>
                   ai_request[r] \in AiRequestRows /\ ai_request[r].final = None
         /\ FinalLocal(request[h]) \/ CatchLocal(request[h]) =>
              Holds(request[h], request[h].id) /\ ai_request[request[h].id] \in AiRequestRows
<1>1. request[h] = Idle \/ EnteringLocal(request[h]) \/ RevisingLocal(request[h]) =>
        \A r \in AiRequests : ~Holds(request[h], r)
  BY AiNullAssumption DEF Idle, EnteringLocal, RevisingLocal, Holds
<1>2. PromptLocal(request[h]) \/ WritingLocal(request[h]) =>
        /\ Holds(request[h], request[h].id)
        /\ \A r \in AiRequests : Holds(request[h], r) =>
             ai_request[r] \in AiRequestRows /\ ai_request[r].final = None
  BY DEF AnswersInv, AnswersOK, AiLocalOK, PromptLocal, WritingLocal, Holds
<1>3. FinalLocal(request[h]) \/ CatchLocal(request[h]) =>
        Holds(request[h], request[h].id) /\ ai_request[request[h].id] \in AiRequestRows
  BY HeldIsMade DEF FinalLocal, CatchLocal
<1> QED BY <1>1, <1>2, <1>3

(* A step that leaves the tables the answers are about as they are. *)
LEMMA AnswersUntouched ==
  ASSUME AnswersInv, AiTyped', NEW h \in Handlers, NEW m, MovesTo(h, m),
         UNCHANGED <<ai_request, ai_version, ai_draft>>,
         \A r \in AiRequests : Holds(m, r) => Holds(request[h], r),
         AiLocalOK(m, ai_request, ai_version, ai_draft)
  PROVE  AnswersInv'
<1>1. Kept(request[h], ai_request, ai_version, ai_draft, ai_request', ai_version', ai_draft')
  BY DEF Kept
<1>2. AiLocalOK(m, ai_request', ai_version', ai_draft') BY DEF AiLocalOK
<1>3. \A r \in AiRequests : Holds(request[h], r) /\ ai_request'[r].final # None =>
        AnswerOK(ai_request'[r].final, r, ai_version', ai_draft')
  BY DEF AnswersInv, AnswersOK, AiLocalOK
<1> QED BY <1>1, <1>2, <1>3, AnswersStep

(* Entering, and the statements before the AI request is made. *)
LEMMA EnterAnswers ==
  ASSUME AnswersInv, AiTyped', NEW h \in Handlers,
         \/ \E key \in AiKeys : SendPatch(h, key) \/ \E own \in {None, Fields} : SendMessage(h, key, own)
         \/ LookUpKey(h) \/ UpdateContext(h)
         \/ \E r \in AiRequests, questions \in SUBSET Fields : CreateAiRequest(h, r, questions)
  PROVE  AnswersInv'
<1>0. AiTyped BY DEF AnswersInv
<1>a. ASSUME NEW m, MovesTo(h, m), m = Idle \/ EnteringLocal(m),
             UNCHANGED <<ai_request, ai_version, ai_draft>>
      PROVE  AnswersInv'
  <2>1. \A r \in AiRequests : ~Holds(m, r) BY <1>a DEF Idle, EnteringLocal, Holds
  <2>2. AiLocalOK(m, ai_request, ai_version, ai_draft) BY <1>a, LocalGood
  <2> QED BY <1>a, <2>1, <2>2, AnswersUntouched
<1>1. ASSUME NEW key \in AiKeys, SendPatch(h, key) \/ \E own \in {None, Fields} : SendMessage(h, key, own)
      PROVE  AnswersInv'
  <2>1. PICK m : MovesTo(h, m) /\ EnteringLocal(m) BY <1>0, <1>1, SendMoves
  <2>2. UNCHANGED <<ai_request, ai_version, ai_draft>> BY <1>1 DEF SendPatch, SendMessage
  <2> QED BY <1>a, <2>1, <2>2
<1>2. CASE LookUpKey(h)
  <2>1. PICK m : MovesTo(h, m) /\ (m = Idle \/ EnteringLocal(m)) BY <1>0, <1>2, EnterMoves
  <2>2. UNCHANGED <<ai_request, ai_version, ai_draft>> BY <1>2 DEF LookUpKey, aiTables
  <2> QED BY <1>a, <2>1, <2>2
<1>3. CASE UpdateContext(h)
  <2>1. UNCHANGED <<ai_request, ai_version, ai_draft>> BY <1>3 DEF UpdateContext
  <2>2. PICK m : /\ MovesTo(h, m)
                 /\ \/ EnteringLocal(m)
                    \/ /\ RevisingLocal(request[h]) /\ WritingLocal(m) /\ m.pc = "number"
                       /\ m.id = None /\ m.draft = request[h].draft
    BY <1>0, <1>3, EnterMoves
  <2>3. ASSUME RevisingLocal(request[h]), WritingLocal(m), m.pc = "number", m.id = None,
               m.draft = request[h].draft
        PROVE  AnswersInv'
    <3>1. ai_draft[m.draft] \in AiDraftRows BY <2>3 DEF AnswersInv, AnswersOK, AiLocalOK
    <3>2. \A r \in AiRequests : ~Holds(m, r) BY <2>3, AiNullAssumption DEF Holds
    <3>3. AiLocalOK(m, ai_request, ai_version, ai_draft)
      BY <2>3, <3>1, AiNullAssumption, LocalGood
    <3> QED BY <2>1, <2>2, <3>2, <3>3, AnswersUntouched
  <2> QED BY <1>a, <2>1, <2>2, <2>3
<1>4. ASSUME NEW r \in AiRequests, NEW questions \in SUBSET Fields, CreateAiRequest(h, r, questions)
      PROVE  AnswersInv'
  <2>1. PICK m : MovesTo(h, m) /\ PromptLocal(m) /\ m.pc = "provider" /\ m.id = r
    BY <1>0, <1>4, EnterMoves
  <2> DEFINE row == [kind |-> request[h].kind, key |-> request[h].key, status |-> "queued",
                     final |-> None]
  <2>2. EnteringLocal(request[h]) BY <1>0, <1>4, EnterMoves
  <2>3. row \in AiRequestRows /\ row.final = None BY <2>2 DEF EnteringLocal, AiRequestRows
  <2>4. /\ ai_request' = [ai_request EXCEPT ![r] = row] /\ ai_request[r] = None
        /\ UNCHANGED <<ai_version, ai_draft>>
    BY <1>4 DEF CreateAiRequest
  <2> HIDE DEF row
  <2>5. ai_request'[r] = row /\ \A s \in AiRequests \ {r} : ai_request'[s] = ai_request[s]
    BY <1>0, <2>4 DEF AiTyped, AiTypeOK
  <2>6. Kept(request[h], ai_request, ai_version, ai_draft, ai_request', ai_version', ai_draft')
    BY <2>4, <2>5, AiNullAssumption DEF Kept
  <2>7. \A d \in WorkflowDrafts : MadeIn(ai_version'[d], m.id) = {}
    BY <2>1, <2>4, AiNullAssumption DEF AnswersInv, AnswersOK, MadeIn
  <2>8. AiLocalOK(m, ai_request', ai_version', ai_draft')
    BY <2>1, <2>3, <2>5, <2>7, LocalGood
  <2>9. \A s \in AiRequests : Holds(m, s) => ai_request[s] = None BY <2>1, <2>4 DEF Holds
  <2>10. \A s \in AiRequests : ~Holds(request[h], s) BY <2>2 DEF EnteringLocal, Holds
  <2>11. \A s \in AiRequests : ai_request[s] = None => ai_request'[s] = None \/ ai_request'[s].final = None
    BY <2>3, <2>5
  <2> QED BY <2>1, <2>6, <2>8, <2>9, <2>10, <2>11, AnswersStep
<1> QED BY <1>1, <1>2, <1>3, <1>4

(* Manual work starts. *)
LEMMA ManualAnswers ==
  ASSUME AnswersInv, AiTyped', NEW h \in Handlers,
         \/ \E linked \in BOOLEAN : CreateManualDraft(h, linked)
         \/ \E d \in WorkflowDrafts, answers, questions \in SUBSET Fields :
              UpdateDraftInputs(h, d, answers, questions)
  PROVE  AnswersInv'
<1>0. AiTyped BY DEF AnswersInv
<1>1. ASSUME NEW linked \in BOOLEAN, CreateManualDraft(h, linked) PROVE AnswersInv'
  <2>1. PICK m : MovesTo(h, m) /\ PromptLocal(m) /\ m.pc = "draft" /\ m.id = None
    BY <1>0, <1>1, PromptMoves
  <2>2. UNCHANGED <<ai_request, ai_version, ai_draft>> BY <1>1 DEF CreateManualDraft, aiTables
  <2>3. \A r \in AiRequests : ~Holds(m, r) BY <2>1, AiNullAssumption DEF Holds
  <2>4. AiLocalOK(m, ai_request, ai_version, ai_draft) BY <2>1, AiNullAssumption, LocalGood
  <2> QED BY <2>1, <2>2, <2>3, <2>4, AnswersUntouched
<1>2. ASSUME NEW d \in WorkflowDrafts, NEW answers \in SUBSET Fields, NEW questions \in SUBSET Fields,
             UpdateDraftInputs(h, d, answers, questions)
      PROVE  AnswersInv'
  <2>1. PICK m : MovesTo(h, m) /\ RevisingLocal(m) /\ m.draft = d BY <1>0, <1>2, PromptMoves
  <2>2. UNCHANGED <<ai_request, ai_version, ai_draft>> /\ ai_draft[d] # None
    BY <1>2 DEF UpdateDraftInputs, aiTables
  <2>3. \A r \in AiRequests : ~Holds(m, r) BY <2>1, AiNullAssumption DEF RevisingLocal, Holds
  <2>4. ai_draft[d] \in AiDraftRows BY <1>0, <2>2 DEF AiTyped, AiTypeOK
  <2>5. AiLocalOK(m, ai_request, ai_version, ai_draft) BY <2>1, <2>4, LocalGood
  <2> QED BY <2>1, <2>2, <2>3, <2>5, AnswersUntouched
<1> QED BY <1>1, <1>2

(* Only the row of the AI request the step is for changes. *)
LEMMA RowMarked ==
  ASSUME AiTyped, NEW h \in Handlers, NEW r \in AiRequests, Holds(request[h], r),
         ai_request[r] \in AiRequestRows, UNCHANGED <<ai_version, ai_draft>>,
         \/ \E s \in {"queued", "completed", "blocked", "error"} :
              ai_request' = [ai_request EXCEPT ![r].status = s]
         \/ \E f \in FinalResponses : ai_request' = [ai_request EXCEPT ![r].final = f]
  PROVE  /\ Kept(request[h], ai_request, ai_version, ai_draft, ai_request', ai_version', ai_draft')
         /\ ai_request'[r] \in AiRequestRows
         /\ \A s \in AiRequests \ {r} : ai_request'[s] = ai_request[s]
         /\ \A f \in FinalResponses : ai_request' = [ai_request EXCEPT ![r].final = f] =>
              ai_request'[r].final = f
         /\ \A s \in {"queued", "completed", "blocked", "error"} :
              ai_request' = [ai_request EXCEPT ![r].status = s] =>
                ai_request'[r].final = ai_request[r].final
<1>1. ai_request' \in [AiRequests -> {None} \cup AiRequestRows] BY CompleteTypes
<1>2. \A s \in AiRequests \ {r} : ai_request'[s] = ai_request[s] BY DEF AiTyped, AiTypeOK
<1>3. ai_request'[r] \in AiRequestRows
  <2>1. \/ \E s \in {"queued", "completed", "blocked", "error"} :
             ai_request'[r] = [ai_request[r] EXCEPT !.status = s]
        \/ \E f \in FinalResponses : ai_request'[r] = [ai_request[r] EXCEPT !.final = f]
    BY DEF AiTyped, AiTypeOK
  <2> QED BY <2>1, RequestRowTypes
<1>4. \A f \in FinalResponses : ai_request' = [ai_request EXCEPT ![r].final = f] =>
        ai_request'[r].final = f
  BY DEF AiTyped, AiTypeOK, AiRequestRows
<1>5. \A s \in {"queued", "completed", "blocked", "error"} :
        ai_request' = [ai_request EXCEPT ![r].status = s] =>
          ai_request'[r].final = ai_request[r].final
  BY DEF AiTyped, AiTypeOK, AiRequestRows
<1>6. Kept(request[h], ai_request, ai_version, ai_draft, ai_request', ai_version', ai_draft')
  BY <1>2, <1>3 DEF Kept
<1> QED BY <1>2, <1>3, <1>4, <1>5, <1>6

(* The policy blocks, or the provider answers and is charged. *)
LEMMA PromptAnswers ==
  ASSUME AnswersInv, AiTyped', NEW h \in Handlers,
         BlockMessage(h) \/ ProviderAnswers(h) \/ RecordUsage(h)
  PROVE  AnswersInv'
<1>0. AiTyped BY DEF AnswersInv
<1> DEFINE l == request[h]
<1>1. /\ PromptLocal(l) /\ l.id \in AiRequests /\ Holds(l, l.id)
      /\ ai_request[l.id] \in AiRequestRows /\ ai_request[l.id].final = None
  BY <1>0, PromptMoves, WhatHolds
<1>2. \A r \in AiRequests : Holds(l, r) => r = l.id BY DEF Holds
<1> HIDE DEF l
<1>3. CASE BlockMessage(h)
  <2>1. PICK m : /\ MovesTo(h, m) /\ FinalLocal(m) /\ m.id = l.id
                 /\ m.final = [kind |-> "blocked_by_policy", draft |-> None]
    BY <1>0, <1>3, PromptMoves DEF l
  <2>2. /\ ai_request' = [ai_request EXCEPT ![l.id].status = "blocked"]
        /\ UNCHANGED <<ai_version, ai_draft>>
    BY <1>3 DEF BlockMessage, Complete, l
  <2>3. /\ Kept(l, ai_request, ai_version, ai_draft, ai_request', ai_version', ai_draft')
        /\ ai_request'[l.id] \in AiRequestRows /\ ai_request'[l.id].final = None
        /\ \A s \in AiRequests \ {l.id} : ai_request'[s] = ai_request[s]
    BY <1>0, <1>1, <2>2, RowMarked DEF l
  <2>4. \A d \in WorkflowDrafts : MadeIn(ai_version'[d], l.id) = {}
    BY <1>0, <1>3, <2>2, PromptMoves DEF AnswersInv, AnswersOK, AiLocalOK, l
  <2>5. AnswerOK(m.final, m.id, ai_version', ai_draft')
    BY <2>1, <2>4 DEF AnswerOK
  <2>6. AiLocalOK(m, ai_request', ai_version', ai_draft') BY <2>1, <2>3, <2>5, LocalGood
  <2>7. \A s \in AiRequests : Holds(m, s) => Holds(l, s) BY <1>1, <2>1 DEF Holds
  <2>8. \A s \in AiRequests : ai_request[s] = None => ai_request'[s] = None \/ ai_request'[s].final = None
    BY <2>3
  <2> QED BY <1>2, <2>1, <2>3, <2>6, <2>7, <2>8, AnswersStep DEF l
<1>4. ASSUME NEW m, MovesTo(h, m), PromptLocal(m), m.id = l.id, m.pc # "provider",
             UNCHANGED <<ai_version, ai_draft>>,
             ai_request' = ai_request \/ ai_request' = [ai_request EXCEPT ![l.id].status = "completed"]
      PROVE  AnswersInv'
  <2>1. /\ Kept(l, ai_request, ai_version, ai_draft, ai_request', ai_version', ai_draft')
        /\ ai_request'[l.id] \in AiRequestRows /\ ai_request'[l.id].final = None
        /\ \A s \in AiRequests \ {l.id} : ai_request'[s] = ai_request[s]
    <3>1. CASE ai_request' = ai_request BY <1>1, <1>4, <3>1 DEF Kept
    <3>2. CASE ai_request' = [ai_request EXCEPT ![l.id].status = "completed"]
      BY <1>0, <1>1, <1>4, <3>2, RowMarked DEF l
    <3> QED BY <1>4, <3>1, <3>2
  <2>2. AiLocalOK(m, ai_request', ai_version', ai_draft') BY <1>4, <2>1, LocalGood
  <2>3. \A s \in AiRequests : Holds(m, s) => Holds(l, s) BY <1>1, <1>4 DEF Holds
  <2>4. \A s \in AiRequests : ai_request[s] = None => ai_request'[s] = None \/ ai_request'[s].final = None
    BY <2>1
  <2> QED BY <1>2, <1>4, <2>1, <2>2, <2>3, <2>4, AnswersStep DEF l
<1>5. CASE ProviderAnswers(h) \/ RecordUsage(h)
  <2>1. PICK m : MovesTo(h, m) /\ PromptLocal(m) /\ m.id = l.id /\ m.pc \in {"usage", "draft"}
    BY <1>0, <1>5, PromptMoves DEF l
  <2>2. /\ UNCHANGED <<ai_version, ai_draft>>
        /\ ai_request' = ai_request \/ ai_request' = [ai_request EXCEPT ![l.id].status = "completed"]
    BY <1>5 DEF ProviderAnswers, RecordUsage, Complete, l
  <2> QED BY <1>4, <2>1, <2>2
<1> QED BY <1>3, <1>5

(* A draft's row is written: its current version is only moved forward. *)
LEMMA DraftKept ==
  ASSUME AiTyped, NEW l, NEW d \in WorkflowDrafts, NEW row \in AiDraftRows,
         ai_draft' = [ai_draft EXCEPT ![d] = row], UNCHANGED <<ai_request, ai_version>>,
         ai_draft[d] = None \/ row.current = ai_draft[d].current \/ row.current > 0
  PROVE  Kept(l, ai_request, ai_version, ai_draft, ai_request', ai_version', ai_draft')
<1>1. ai_draft'[d] = row /\ \A c \in WorkflowDrafts \ {d} : ai_draft'[c] = ai_draft[c] BY DraftTypes
<1> QED BY <1>1, AiNullAssumption DEF Kept

(* persistDraftVersion. *)
LEMMA WriteAnswers ==
  ASSUME AnswersInv, AiTyped', NEW h \in Handlers,
         \/ \E d \in WorkflowDrafts : InsertAiDraft(h, d)
         \/ DrawNumber(h) \/ InsertAiVersion(h) \/ DeleteMissing(h)
         \/ \E field \in Fields : InsertMissing(h, field)
  PROVE  AnswersInv'
<1>0. AiTyped BY DEF AnswersInv
<1> DEFINE l == request[h]
<1>1. /\ Holds(l, l.id)
      /\ \A r \in AiRequests : Holds(l, r) =>
           r = l.id /\ ai_request[r] \in AiRequestRows /\ ai_request[r].final = None
  <2>1. PromptLocal(l) \/ WritingLocal(l) BY <1>0, WriteMoves
  <2> QED BY <2>1, WhatHolds DEF Holds
<1>2. UNCHANGED ai_request
  BY DEF InsertAiDraft, DrawNumber, InsertAiVersion, DeleteMissing, InsertMissing, aiTables
<1>3. ASSUME NEW m, MovesTo(h, m), WritingLocal(m), m.id = l.id,
             Kept(l, ai_request, ai_version, ai_draft, ai_request', ai_version', ai_draft'),
             ai_draft'[m.draft] \in AiDraftRows,
             m.pc \in {"clear", "ask"} =>
               /\ m.no \in DOMAIN ai_version'[m.draft]
               /\ ai_version'[m.draft][m.no] = StoredBy(m)
      PROVE  AnswersInv'
  <2>1. m.id \in AiRequests => ai_request'[m.id] \in AiRequestRows /\ ai_request'[m.id].final = None
    BY <1>1, <1>2, <1>3
  <2>2. AiLocalOK(m, ai_request', ai_version', ai_draft') BY <1>3, <2>1, LocalGood
  <2>3. \A s \in AiRequests : Holds(m, s) => Holds(l, s) BY <1>1, <1>3 DEF Holds
  <2>4. \A s \in AiRequests : ai_request[s] = None => ai_request'[s] = None BY <1>2
  <2> QED BY <1>1, <1>2, <1>3, <2>2, <2>3, <2>4, AnswersStep
<1>4. ASSUME NEW d \in WorkflowDrafts, InsertAiDraft(h, d) PROVE AnswersInv'
  <2>1. PICK m : /\ MovesTo(h, m) /\ WritingLocal(m) /\ m.pc = "number" /\ m.draft = d
                 /\ m.id = l.id
    BY <1>0, <1>4, WriteMoves
  <2>2. PICK row \in AiDraftRows : ai_draft' = [ai_draft EXCEPT ![d] = row] BY <1>4, WriteRows
  <2>3. ai_draft[d] = None /\ UNCHANGED ai_version BY <1>4 DEF InsertAiDraft
  <2>4. Kept(l, ai_request, ai_version, ai_draft, ai_request', ai_version', ai_draft')
    BY <1>0, <1>2, <2>2, <2>3, DraftKept
  <2>5. ai_draft'[d] \in AiDraftRows BY <1>0, <2>2, DraftTypes
  <2> QED BY <1>3, <2>1, <2>4, <2>5
<1>5. CASE DrawNumber(h)
  <2>1. WritingLocal(l) /\ \E m : /\ MovesTo(h, m) /\ WritingLocal(m) /\ SameDraft(m, l)
                                  /\ m.pc = "version"
    BY <1>0, <1>5, WriteMoves
  <2>2. UNCHANGED <<ai_version, ai_draft>> BY <1>5 DEF DrawNumber, aiTables
  <2>3. Kept(l, ai_request, ai_version, ai_draft, ai_request', ai_version', ai_draft')
    BY <1>2, <2>2 DEF Kept
  <2>4. ai_draft[l.draft] \in AiDraftRows BY <2>1, WritesARow
  <2> QED BY <1>3, <2>1, <2>2, <2>3, <2>4 DEF SameDraft
<1>6. CASE InsertAiVersion(h)
  <2>1. WritingLocal(l) /\ \E m : /\ MovesTo(h, m) /\ WritingLocal(m) /\ SameDraft(m, l)
                                  /\ m.pc = "clear" /\ m.no = l.no
    BY <1>0, <1>6, WriteMoves
  <2>2. PICK m : /\ MovesTo(h, m) /\ WritingLocal(m) /\ SameDraft(m, l)
                 /\ m.pc = "clear" /\ m.no = l.no
    BY <2>1
  <2>3. UNCHANGED ai_draft BY <1>6 DEF InsertAiVersion
  <2>4. ai_draft[l.draft] \in AiDraftRows BY <2>1, WritesARow
  <2> DEFINE version == StoredBy(l)
  <2>5. /\ l.draft \in WorkflowDrafts /\ l.no = Len(ai_version[l.draft]) + 1
        /\ \A c \in WorkflowDrafts \ {l.draft} : ai_version'[c] = ai_version[c]
        /\ Len(ai_version[l.draft]) \in Nat /\ Len(ai_version'[l.draft]) = l.no
        /\ DOMAIN ai_version[l.draft] = 1 .. Len(ai_version[l.draft])
        /\ DOMAIN ai_version'[l.draft] = 1 .. Len(ai_version'[l.draft])
        /\ ai_version'[l.draft][l.no] = version
        /\ \A n \in 1 .. Len(ai_version[l.draft]) : ai_version'[l.draft][n] = ai_version[l.draft][n]
    BY <1>0, <1>6, VersionAdded
  <2> HIDE DEF version
  <2>6. /\ DOMAIN ai_version'[l.draft] = DOMAIN ai_version[l.draft] \cup {l.no}
        /\ l.no \in DOMAIN ai_version'[l.draft]
    BY <2>5
  <2>7. version.ai_request = l.id BY DEF version, StoredBy
  <2>8. ASSUME NEW c \in WorkflowDrafts
        PROVE  /\ DOMAIN ai_version[c] \subseteq DOMAIN ai_version'[c]
               /\ \A n \in DOMAIN ai_version[c] : ai_version'[c][n] = ai_version[c][n]
               /\ \A n \in DOMAIN ai_version'[c] \ DOMAIN ai_version[c] :
                    Holds(l, ai_version'[c][n].ai_request)
    <3>1. CASE c = l.draft BY <1>1, <2>5, <2>6, <2>7, <3>1
    <3>2. CASE c # l.draft BY <2>5, <3>2
    <3> QED BY <3>1, <3>2
  <2>9. Kept(l, ai_request, ai_version, ai_draft, ai_request', ai_version', ai_draft')
    BY <1>2, <2>3, <2>8 DEF Kept
  <2>10. version = StoredBy(m) BY <2>2 DEF SameDraft, version, StoredBy
  <2>11. m.no \in DOMAIN ai_version'[m.draft] /\ ai_version'[m.draft][m.no] = version
    BY <2>2, <2>5, <2>6 DEF SameDraft
  <2>12. ai_draft'[m.draft] \in AiDraftRows /\ m.id = l.id BY <2>2, <2>3, <2>4 DEF SameDraft
  <2> QED BY <1>3, <2>2, <2>9, <2>10, <2>11, <2>12
<1>7. ASSUME NEW m, MovesTo(h, m), WritingLocal(l), WritingLocal(m), SameDraft(m, l), m.no = l.no,
             l.pc \in {"clear", "ask"}, UNCHANGED ai_version,
             NEW row \in AiDraftRows, ai_draft' = [ai_draft EXCEPT ![l.draft] = row],
             row.current = ai_draft[l.draft].current
      PROVE  AnswersInv'
  <2>1. l.draft \in WorkflowDrafts BY <1>7 DEF WritingLocal
  <2>2. Kept(l, ai_request, ai_version, ai_draft, ai_request', ai_version', ai_draft')
    BY <1>0, <1>2, <1>7, <2>1, DraftKept
  <2>3. ai_draft'[l.draft] \in AiDraftRows BY <1>0, <1>7, <2>1, DraftTypes
  <2>4. /\ l.no \in DOMAIN ai_version[l.draft]
        /\ ai_version[l.draft][l.no] = StoredBy(l)
    BY <1>7 DEF AnswersInv, AnswersOK, AiLocalOK
  <2>5. /\ m.no \in DOMAIN ai_version'[m.draft] /\ m.id = l.id
        /\ ai_version'[m.draft][m.no] = StoredBy(m)
    BY <1>7, <2>4 DEF SameDraft, StoredBy
  <2>6. ai_draft'[m.draft] \in AiDraftRows BY <1>7, <2>3 DEF SameDraft
  <2> QED BY <1>3, <1>7, <2>2, <2>5, <2>6
<1>8. CASE DeleteMissing(h)
  <2>1. UNCHANGED ai_version BY <1>8 DEF DeleteMissing
  <2>2. /\ WritingLocal(l) /\ l.pc = "clear"
        /\ \E m : MovesTo(h, m) /\ WritingLocal(m) /\ SameDraft(m, l) /\ m.no = l.no
    BY <1>0, <1>8, WriteMoves
  <2>3. PICK row \in AiDraftRows : /\ ai_draft' = [ai_draft EXCEPT ![l.draft] = row]
                                   /\ row.current = ai_draft[l.draft].current
    BY <1>8, WriteRows
  <2> QED BY <1>7, <2>1, <2>2, <2>3
<1>9. ASSUME NEW field \in Fields, InsertMissing(h, field) PROVE AnswersInv'
  <2>1. UNCHANGED ai_version BY <1>9 DEF InsertMissing
  <2>2. /\ WritingLocal(l) /\ l.pc = "ask"
        /\ \E m : MovesTo(h, m) /\ WritingLocal(m) /\ SameDraft(m, l) /\ m.no = l.no
    BY <1>0, <1>9, WriteMoves
  <2>3. PICK row \in AiDraftRows : /\ ai_draft' = [ai_draft EXCEPT ![l.draft] = row]
                                   /\ row.current = ai_draft[l.draft].current
    BY <1>9, WriteRows
  <2> QED BY <1>7, <2>1, <2>2, <2>3
<1> QED BY <1>4, <1>5, <1>6, <1>8, <1>9

(* The end of a request, as it is meant or not. *)
LEMMA EndAnswers ==
  ASSUME AnswersInv, AiTyped', NEW h \in Handlers,
         UpdateAiDraft(h) \/ Throws(h) \/ MarkError(h) \/ RecordFinalResponse(h) \/ CutShort(h)
  PROVE  AnswersInv'
<1>0. AiTyped BY DEF AnswersInv
<1> DEFINE l == request[h]
<1>a. AiLocalOK(l, ai_request, ai_version, ai_draft) BY DEF AnswersInv, AnswersOK
<1>1. CASE UpdateAiDraft(h)
  <2>1. WritingLocal(l) /\ l.pc = "ask" BY <1>0, <1>1, EndMoves
  <2>2. PICK m : /\ MovesTo(h, m)
                 /\ \/ m = Idle /\ l.kind = "manual"
                    \/ /\ FinalLocal(m) /\ m.id = l.id /\ m.kind = l.kind
                       /\ m.final = [kind |-> AnswerFor(l.questions), draft |-> l.draft]
    BY <1>0, <1>1, EndMoves
  <2>3. PICK row \in AiDraftRows : /\ ai_draft' = [ai_draft EXCEPT ![l.draft] = row]
                                   /\ row.current = l.no
    BY <1>1, WriteRows
  <2>4. UNCHANGED <<ai_request, ai_version>> BY <1>1 DEF UpdateAiDraft
  <2>5. l.draft \in WorkflowDrafts /\ l.no \in Nat /\ l.no > 0 BY <2>1 DEF WritingLocal
  <2>6. Kept(l, ai_request, ai_version, ai_draft, ai_request', ai_version', ai_draft')
    BY <1>0, <2>3, <2>4, <2>5, DraftKept
  <2>7. ai_draft'[l.draft] = row BY <1>0, <2>3, <2>5, DraftTypes
  <2>8. /\ Holds(l, l.id)
        /\ \A r \in AiRequests : Holds(l, r) =>
             r = l.id /\ ai_request'[r] \in AiRequestRows /\ ai_request'[r].final = None
    BY <2>1, <2>4, WhatHolds DEF Holds
  <2>9. /\ l.no \in DOMAIN ai_version'[l.draft]
        /\ ai_version'[l.draft][l.no] = StoredBy(l)
    BY <1>a, <2>1, <2>4 DEF AiLocalOK
  <2>10. /\ l.no \in MadeIn(ai_version'[l.draft], l.id)
         /\ ai_version'[l.draft][l.no].questions = l.questions
    BY <2>9 DEF MadeIn, StoredBy
  <2>11. ASSUME FinalLocal(m), m.id = l.id,
                m.final = [kind |-> AnswerFor(l.questions), draft |-> l.draft]
         PROVE  AnswerOK(m.final, m.id, ai_version', ai_draft')
    <3>1. /\ m.final.draft = l.draft /\ m.final.kind = AnswerFor(l.questions)
      BY <2>11
    <3>2. m.final.kind = "ready" <=> ai_version'[l.draft][l.no].questions = {}
      BY <2>10, <3>1 DEF AnswerFor
    <3>3. m.final.kind # "blocked_by_policy" BY <3>1 DEF AnswerFor
    <3> QED BY <2>3, <2>5, <2>7, <2>10, <2>11, <3>1, <3>2, <3>3 DEF AnswerOK
  <2>12. AiLocalOK(m, ai_request', ai_version', ai_draft')
    <3>1. CASE m = Idle BY <3>1, LocalGood
    <3>2. CASE FinalLocal(m) /\ m.id = l.id
                 /\ m.final = [kind |-> AnswerFor(l.questions), draft |-> l.draft]
      <4>1. ai_request'[m.id] \in AiRequestRows BY <2>8, <3>2 DEF FinalLocal
      <4> QED BY <2>11, <3>2, <4>1, LocalGood
    <3> QED BY <2>2, <3>1, <3>2
  <2>13. \A r \in AiRequests : Holds(m, r) => Holds(l, r)
    BY <2>2, <2>8 DEF Holds, Idle
  <2> QED BY <2>2, <2>4, <2>6, <2>8, <2>12, <2>13, AnswersStep
<1>2. ASSUME NEW m, MovesTo(h, m), m = Idle \/ (CatchLocal(m) /\ Holds(l, m.id)),
             UNCHANGED <<ai_request, ai_version, ai_draft>>
      PROVE  AnswersInv'
  <2>1. \A r \in AiRequests : Holds(m, r) => Holds(l, r) BY <1>2 DEF Holds, Idle
  <2>2. AiLocalOK(m, ai_request, ai_version, ai_draft)
    <3>1. CASE m = Idle BY <3>1, LocalGood
    <3>2. CASE CatchLocal(m) /\ Holds(l, m.id)
      <4>1. ai_request[m.id] \in AiRequestRows BY <1>a, <3>2 DEF AiLocalOK, CatchLocal
      <4> QED BY <3>2, <4>1, LocalGood
    <3> QED BY <1>2, <3>1, <3>2
  <2> QED BY <1>2, <2>1, <2>2, AnswersUntouched
<1>3. CASE Throws(h)
  <2>1. PICK m : MovesTo(h, m) /\ CatchLocal(m) /\ m.id = l.id BY <1>0, <1>3, EndMoves
  <2>2. Holds(l, l.id) BY <1>3 DEF Throws, InTryBlock, Holds
  <2>3. UNCHANGED <<ai_request, ai_version, ai_draft>> BY <1>3 DEF Throws
  <2> QED BY <1>2, <2>1, <2>2, <2>3
<1>4. CASE CutShort(h)
  <2>1. MovesTo(h, Idle) BY <1>0, <1>4, EndMoves
  <2>2. UNCHANGED <<ai_request, ai_version, ai_draft>> BY <1>4 DEF CutShort
  <2> QED BY <1>2, <2>1, <2>2
<1>5. ASSUME CatchLocal(l) \/ FinalLocal(l)
      PROVE  /\ Holds(l, l.id) /\ l.id \in AiRequests /\ ai_request[l.id] \in AiRequestRows
             /\ \A r \in AiRequests : Holds(l, r) => r = l.id
  <2>1. \A r \in AiRequests : Holds(l, r) => r = l.id BY DEF Holds
  <2> QED BY <1>5, <2>1, WhatHolds DEF CatchLocal, FinalLocal
<1>6. CASE MarkError(h)
  <2>1. CatchLocal(l) BY <1>0, <1>6, EndMoves
  <2>2. PICK m : /\ MovesTo(h, m) /\ FinalLocal(m) /\ m.id = l.id
                 /\ m.final = [kind |-> "error", draft |-> None]
    BY <1>0, <1>6, EndMoves
  <2>3. /\ ai_request' = [ai_request EXCEPT ![l.id].status = "error"]
        /\ UNCHANGED <<ai_version, ai_draft>>
    BY <1>6 DEF MarkError, Complete
  <2>4. /\ Kept(l, ai_request, ai_version, ai_draft, ai_request', ai_version', ai_draft')
        /\ ai_request'[l.id] \in AiRequestRows /\ ai_request'[l.id].final = ai_request[l.id].final
        /\ \A s \in AiRequests \ {l.id} : ai_request'[s] = ai_request[s]
    BY <1>0, <1>5, <2>1, <2>3, RowMarked
  <2>5. AnswerOK(m.final, m.id, ai_version', ai_draft') BY <2>2 DEF AnswerOK
  <2>6. AiLocalOK(m, ai_request', ai_version', ai_draft') BY <2>2, <2>4, <2>5, LocalGood
  <2>7. \A s \in AiRequests : Holds(m, s) => Holds(l, s) BY <1>5, <2>1, <2>2 DEF Holds
  <2>8. \A s \in AiRequests : ai_request[s] = None => ai_request'[s] = None
    BY <1>5, <2>1, <2>4, AiNullAssumption
  <2>9. ai_request'[l.id].final # None =>
          AnswerOK(ai_request'[l.id].final, l.id, ai_version', ai_draft')
    <3>1. ai_request[l.id].final # None =>
            AnswerOK(ai_request[l.id].final, l.id, ai_version, ai_draft)
      BY <1>5, <2>1 DEF AnswersInv, AnswersOK
    <3>2. ai_version' = ai_version /\ ai_draft' = ai_draft BY <2>3
    <3> QED BY <2>4, <3>1, <3>2
  <2> QED BY <1>5, <2>1, <2>2, <2>4, <2>6, <2>7, <2>8, <2>9, AnswersStep
<1>7. CASE RecordFinalResponse(h)
  <2>1. FinalLocal(l) BY <1>0, <1>7, EndMoves
  <2>2. PICK m : MovesTo(h, m) /\ (m = Idle \/ (CatchLocal(m) /\ m.id = l.id))
    BY <1>0, <1>7, EndMoves
  <2>3. /\ ai_request' = [ai_request EXCEPT ![l.id].final = l.final]
        /\ UNCHANGED <<ai_version, ai_draft>> /\ l.final \in FinalResponses
    BY <1>7, <2>1 DEF RecordFinalResponse, FinalLocal
  <2>4. /\ Kept(l, ai_request, ai_version, ai_draft, ai_request', ai_version', ai_draft')
        /\ ai_request'[l.id] \in AiRequestRows /\ ai_request'[l.id].final = l.final
        /\ \A s \in AiRequests \ {l.id} : ai_request'[s] = ai_request[s]
    BY <1>0, <1>5, <2>1, <2>3, RowMarked
  <2>5. AnswerOK(l.final, l.id, ai_version', ai_draft')
    BY <1>a, <2>1, <2>3 DEF AiLocalOK, AnswerOK
  <2>6. AiLocalOK(m, ai_request', ai_version', ai_draft')
    <3>1. CASE m = Idle BY <3>1, LocalGood
    <3>2. CASE CatchLocal(m) /\ m.id = l.id BY <2>4, <3>2, LocalGood
    <3> QED BY <2>2, <3>1, <3>2
  <2>7. \A s \in AiRequests : Holds(m, s) => Holds(l, s) BY <1>5, <2>1, <2>2 DEF Holds, Idle
  <2>8. \A s \in AiRequests : ai_request[s] = None => ai_request'[s] = None
    BY <1>5, <2>1, <2>4, AiNullAssumption
  <2> QED BY <1>5, <2>1, <2>2, <2>4, <2>5, <2>6, <2>7, <2>8, AnswersStep
<1> QED BY <1>1, <1>3, <1>4, <1>6, <1>7

(* Nothing is asked or answered at first. *)
LEMMA InitAnswers == AiInit => AnswersInv
<1> SUFFICES ASSUME AiInit PROVE AnswersInv
  OBVIOUS
<1>1. \A h \in Handlers : /\ AiLocalOK(request[h], ai_request, ai_version, ai_draft)
                          /\ \A r \in AiRequests : ~Holds(request[h], r)
  <2>1. \A h \in Handlers : request[h] = Idle BY DEF AiInit, RequestsInit
  <2>2. \A r \in AiRequests : ~Holds(Idle, r) BY DEF Idle, Holds
  <2> QED BY <2>1, <2>2, LocalGood
<1>2. \A d \in WorkflowDrafts : DOMAIN ai_version[d] = {} BY DEF AiInit
<1>3. \A r \in AiRequests : ai_request[r] \notin AiRequestRows BY AiNullAssumption DEF AiInit
<1> QED BY <1>1, <1>2, <1>3, InitAi DEF AnswersInv, AnswersOK

(* Every handler's step keeps the answers true. *)
LEMMA StepAnswers == ASSUME AnswersInv, NEW h \in Handlers, StepOf(h) PROVE AnswersInv'
<1>1. AiTyped' BY StepTypes
<1>2. CASE \/ \E key \in AiKeys :
                SendPatch(h, key) \/ \E own \in {None, Fields} : SendMessage(h, key, own)
           \/ LookUpKey(h) \/ UpdateContext(h)
           \/ \E r \in AiRequests, questions \in SUBSET Fields : CreateAiRequest(h, r, questions)
  BY <1>1, <1>2, EnterAnswers
<1>3. CASE BlockMessage(h) \/ ProviderAnswers(h) \/ RecordUsage(h) BY <1>1, <1>3, PromptAnswers
<1>4. CASE \/ \E linked \in BOOLEAN : CreateManualDraft(h, linked)
           \/ \E d \in WorkflowDrafts, answers, questions \in SUBSET Fields :
                UpdateDraftInputs(h, d, answers, questions)
  BY <1>1, <1>4, ManualAnswers
<1>5. CASE \/ \E d \in WorkflowDrafts : InsertAiDraft(h, d)
           \/ DrawNumber(h) \/ InsertAiVersion(h) \/ DeleteMissing(h)
           \/ \E field \in Fields : InsertMissing(h, field)
  BY <1>1, <1>5, WriteAnswers
<1>6. CASE UpdateAiDraft(h) \/ Throws(h) \/ MarkError(h) \/ RecordFinalResponse(h) \/ CutShort(h)
  BY <1>1, <1>6, EndAnswers
<1> QED BY <1>2, <1>3, <1>4, <1>5, <1>6 DEF StepOf

(* A stuttering step changes nothing an invariant is about. *)
LEMMA AnswersStutter == AnswersInv /\ UNCHANGED aiVars => AnswersInv'
  BY DEF aiVars, aiTables, AnswersInv, AiTyped, AiTypeOK, AnswersOK

(* The strengthened invariant holds in every reachable state.              *)
THEOREM AnswersInvariant == AiSpec => []AnswersInv
<1>1. AnswersInv /\ [AiNext]_aiVars => AnswersInv'
  BY AiNextByHandler, StepAnswers, AnswersStutter
<1> QED BY <1>1, InitAnswers, PTL DEF AiSpec

(* The invariant has what a final response says of its draft. *)
LEMMA AnswersNamed == AnswersInv => AnswersNameTheirDraft
<1> SUFFICES ASSUME AnswersInv PROVE AnswersNameTheirDraft
  OBVIOUS
<1>1. \A r, d : MadeFor(r, d) = MadeIn(ai_version[d], r) BY DEF MadeFor, MadeIn
<1>2. \A r \in AiRequests : ai_request[r] # None => ai_request[r] \in AiRequestRows
  BY DEF AnswersInv, AiTyped, AiTypeOK
<1>3. \A r \in AiRequests : ai_request[r] # None /\ ai_request[r].final # None =>
        AnswerOK(ai_request[r].final, r, ai_version, ai_draft)
  BY <1>2 DEF AnswersInv, AnswersOK
<1> QED BY <1>1, <1>3 DEF AnswersNameTheirDraft, AnswerOK

(* However sendMessage and createWorkflowPatch overlap, fail and are       *)
(* caught, the final response recorded for a request names a draft with a  *)
(* version of this request in it, says ready exactly if that version asks  *)
(* nothing, and a blocked message has left no version behind.              *)
THEOREM AnswersAreTrue == AiSpec => []AnswersNameTheirDraft
BY AnswersNamed, AnswersInvariant, PTL

-----------------------------------------------------------------------------
(* The drafts.  A step of request h leaves draft d as it is, goes on with  *)
(* it, leaves it whole, or begins with it when nobody else is on it.       *)
LEMMA DraftStep ==
  ASSUME NEW d, NEW h \in Handlers, NEW m, MovesTo(h, m), DraftOK(d, request, ai_draft, ai_version),
         \/ /\ ~On(request[h], d) /\ ~On(m, d)
            /\ ai_draft'[d] = ai_draft[d] /\ ai_version'[d] = ai_version[d]
         \/ /\ On(request[h], d) /\ ai_draft[d] # None
            /\ \/ On(m, d) /\ Written(m, ai_draft'[d], ai_version'[d])
               \/ ~On(m, d) /\ Whole(ai_draft'[d], ai_version'[d])
         \/ /\ \A g \in Handlers \ {h} : ~On(request[g], d)
            /\ On(m, d) /\ Written(m, ai_draft'[d], ai_version'[d])
  PROVE  DraftOK(d, request', ai_draft', ai_version')
<1>1. \A g \in Handlers : request'[g] = IF g = h THEN m ELSE request[g] BY DEF MovesTo
<1>2. CASE /\ ~On(request[h], d) /\ ~On(m, d)
           /\ ai_draft'[d] = ai_draft[d] /\ ai_version'[d] = ai_version[d]
  <2>1. \A g \in Handlers : On(request'[g], d) => On(request[g], d) /\ request'[g] = request[g]
    BY <1>1, <1>2
  <2>2. \A g \in Handlers : On(request[g], d) => On(request'[g], d)
    BY <1>1, <1>2
  <2> QED BY <1>2, <2>1, <2>2 DEF DraftOK
<1>3. ASSUME \A g \in Handlers \ {h} : ~On(request[g], d),
             \/ On(m, d) /\ Written(m, ai_draft'[d], ai_version'[d])
             \/ ~On(m, d) /\ Whole(ai_draft'[d], ai_version'[d])
      PROVE  DraftOK(d, request', ai_draft', ai_version')
  <2>1. \A g \in Handlers : On(request'[g], d) => g = h BY <1>1, <1>3
  <2>2. request'[h] = m BY <1>1
  <2> QED BY <1>3, <2>1, <2>2 DEF DraftOK
<1>4. On(request[h], d) /\ ai_draft[d] # None => \A g \in Handlers \ {h} : ~On(request[g], d)
  BY DEF DraftOK
<1> QED BY <1>2, <1>3, <1>4

(* Statements that are not about a draft. *)
LEMMA DraftsUntouched ==
  ASSUME DraftsInv, AnswersInv', NEW h \in Handlers, NEW m, MovesTo(h, m),
         \A d \in WorkflowDrafts \ disturbed' : ~On(request[h], d) /\ ~On(m, d),
         UNCHANGED <<ai_draft, ai_version>>, disturbed \subseteq disturbed'
  PROVE  DraftsInv'
<1>1. ASSUME NEW d \in WorkflowDrafts \ disturbed'
      PROVE  DraftOK(d, request', ai_draft', ai_version')
  <2>1. DraftOK(d, request, ai_draft, ai_version) BY DEF DraftsInv
  <2> QED BY <2>1, DraftStep
<1> QED BY <1>1 DEF DraftsInv

(* Statements about one draft. *)
LEMMA DraftsWritten ==
  ASSUME DraftsInv, AnswersInv', NEW h \in Handlers, NEW m, MovesTo(h, m), NEW d \in WorkflowDrafts,
         \A c \in WorkflowDrafts \ {d} : /\ ~On(request[h], c) /\ ~On(m, c)
                                         /\ ai_draft'[c] = ai_draft[c] /\ ai_version'[c] = ai_version[c],
         disturbed \subseteq disturbed',
         d \notin disturbed' =>
           \/ /\ On(request[h], d) /\ ai_draft[d] # None
              /\ \/ On(m, d) /\ Written(m, ai_draft'[d], ai_version'[d])
                 \/ ~On(m, d) /\ Whole(ai_draft'[d], ai_version'[d])
           \/ /\ \A g \in Handlers \ {h} : ~On(request[g], d)
              /\ On(m, d) /\ Written(m, ai_draft'[d], ai_version'[d])
  PROVE  DraftsInv'
<1>1. ASSUME NEW c \in WorkflowDrafts \ disturbed'
      PROVE  DraftOK(c, request', ai_draft', ai_version')
  <2>1. DraftOK(c, request, ai_draft, ai_version) BY DEF DraftsInv
  <2>2. CASE c = d BY <2>1, <2>2, DraftStep
  <2>3. CASE c # d BY <2>1, <2>3, DraftStep
  <2> QED BY <2>2, <2>3
<1> QED BY <1>1 DEF DraftsInv

(* Where a request is not on a draft. *)
LEMMA OffDrafts ==
  ASSUME NEW l, l = Idle \/ EnteringLocal(l) \/ RevisingLocal(l) \/ PromptLocal(l) \/ FinalLocal(l)
                  \/ CatchLocal(l), NEW d
  PROVE  ~On(l, d)
<1>1. Idle.pc = "idle" BY DEF Idle
<1> QED BY <1>1 DEF EnteringLocal, RevisingLocal, PromptLocal, FinalLocal, CatchLocal, On

(* All that comes before and after persistDraftVersion. *)
LEMMA AroundDrafts ==
  ASSUME DraftsInv, AnswersInv', NEW h \in Handlers,
         \/ \E key \in AiKeys : SendPatch(h, key) \/ \E own \in {None, Fields} : SendMessage(h, key, own)
         \/ LookUpKey(h)
         \/ \E r \in AiRequests, questions \in SUBSET Fields : CreateAiRequest(h, r, questions)
         \/ BlockMessage(h) \/ ProviderAnswers(h) \/ RecordUsage(h)
         \/ \E linked \in BOOLEAN : CreateManualDraft(h, linked)
         \/ \E d \in WorkflowDrafts, answers, questions \in SUBSET Fields :
              UpdateDraftInputs(h, d, answers, questions)
         \/ MarkError(h) \/ RecordFinalResponse(h)
  PROVE  DraftsInv'
<1>0. AiTyped BY DEF DraftsInv, AnswersInv
<1> DEFINE Off(l) == \/ l = Idle \/ EnteringLocal(l) \/ RevisingLocal(l) \/ PromptLocal(l)
                     \/ FinalLocal(l) \/ CatchLocal(l)
<1>a. ASSUME NEW m, MovesTo(h, m), Off(request[h]), Off(m), UNCHANGED <<ai_draft, ai_version, disturbed>>
      PROVE  DraftsInv'
  BY <1>a, OffDrafts, DraftsUntouched
<1>1. \E m : MovesTo(h, m) /\ Off(request[h]) /\ Off(m)
  <2>1. CASE \E key \in AiKeys : SendPatch(h, key) \/ \E own \in {None, Fields} : SendMessage(h, key, own)
    BY <1>0, <2>1, SendMoves
  <2>2. CASE \/ LookUpKey(h)
             \/ \E r \in AiRequests, questions \in SUBSET Fields : CreateAiRequest(h, r, questions)
    BY <1>0, <2>2, EnterMoves
  <2>3. CASE BlockMessage(h) \/ ProviderAnswers(h) \/ RecordUsage(h)
    BY <1>0, <2>3, PromptMoves
  <2>4. CASE \/ \E linked \in BOOLEAN : CreateManualDraft(h, linked)
             \/ \E d \in WorkflowDrafts, answers, questions \in SUBSET Fields :
                  UpdateDraftInputs(h, d, answers, questions)
    BY <1>0, <2>4, PromptMoves
  <2>5. CASE MarkError(h) \/ RecordFinalResponse(h)
    BY <1>0, <2>5, EndMoves
  <2> QED BY <2>1, <2>2, <2>3, <2>4, <2>5
<1>2. UNCHANGED <<ai_draft, ai_version, disturbed>>
  BY DEF SendPatch, SendMessage, LookUpKey, CreateAiRequest, BlockMessage, ProviderAnswers,
         RecordUsage, CreateManualDraft, UpdateDraftInputs, MarkError, RecordFinalResponse,
         Complete, aiTables
<1> QED BY <1>a, <1>1, <1>2

(* A request that ends on a draft has left it half written. *)
LEMMA LeavingDrafts ==
  ASSUME DraftsInv, AnswersInv', NEW h \in Handlers, Throws(h) \/ CutShort(h)
  PROVE  DraftsInv'
<1>0. AiTyped BY DEF DraftsInv, AnswersInv
<1>1. PICK m : MovesTo(h, m) /\ (m = Idle \/ CatchLocal(m)) BY <1>0, EndMoves
<1>2. NoteLeft(h) /\ UNCHANGED <<ai_draft, ai_version>> BY DEF Throws, CutShort
<1>3. \A d \in WorkflowDrafts : On(request[h], d) => d \in disturbed'
  BY <1>2 DEF NoteLeft, OnDraft, On
<1>4. \A d \in WorkflowDrafts : ~On(m, d) BY <1>1, OffDrafts
<1>5. disturbed \subseteq disturbed' BY <1>2 DEF NoteLeft
<1> QED BY <1>1, <1>2, <1>3, <1>4, <1>5, DraftsUntouched

(* updateDraftInputs comes to its draft. *)
LEMMA RevisingDrafts ==
  ASSUME DraftsInv, AnswersInv', NEW h \in Handlers, UpdateContext(h)
  PROVE  DraftsInv'
<1>0. AiTyped BY DEF DraftsInv, AnswersInv
<1>1. UNCHANGED <<ai_draft, ai_version>> BY DEF UpdateContext
<1>2. PICK m : /\ MovesTo(h, m)
               /\ \/ EnteringLocal(request[h]) /\ EnteringLocal(m) /\ UNCHANGED disturbed
                  \/ /\ RevisingLocal(request[h]) /\ WritingLocal(m) /\ m.pc = "number"
                     /\ m.draft = request[h].draft /\ NoteDraft(h, m.draft)
  BY <1>0, EnterMoves
<1>3. CASE EnteringLocal(request[h]) /\ EnteringLocal(m) /\ UNCHANGED disturbed
  BY <1>1, <1>2, <1>3, OffDrafts, DraftsUntouched
<1>4. CASE /\ RevisingLocal(request[h]) /\ WritingLocal(m) /\ m.pc = "number"
           /\ m.draft = request[h].draft /\ NoteDraft(h, m.draft)
  <2> DEFINE d == m.draft
  <2>1. d \in WorkflowDrafts /\ \A c : ~On(request[h], c) BY <1>4, OffDrafts DEF WritingLocal
  <2>2. \A c \in WorkflowDrafts \ {d} : ~On(m, c) BY DEF On
  <2>3. disturbed \subseteq disturbed' BY <1>4 DEF NoteDraft
  <2>4. d \notin disturbed' => \A g \in Handlers \ {h} : ~On(request[g], d)
    BY <1>4, <2>1 DEF NoteDraft, OnDraft, On
  <2>5. On(m, d) /\ Written(m, ai_draft'[d], ai_version'[d]) BY <1>4 DEF On, Written
  <2> HIDE DEF d
  <2> QED BY <1>1, <1>2, <2>1, <2>2, <2>3, <2>4, <2>5, DraftsWritten
<1> QED BY <1>2, <1>3, <1>4

(* persistDraftVersion begins a draft, *)
LEMMA NewDraft ==
  ASSUME DraftsInv, AnswersInv', NEW h \in Handlers, NEW d \in WorkflowDrafts, InsertAiDraft(h, d)
  PROVE  DraftsInv'
<1>0. AiTyped BY DEF DraftsInv, AnswersInv
<1>1. PICK m : MovesTo(h, m) /\ WritingLocal(m) /\ m.pc = "number" /\ m.draft = d
  BY <1>0, WriteMoves
<1>2. PromptLocal(request[h]) BY <1>0, WriteMoves
<1>3. PICK row \in AiDraftRows : ai_draft' = [ai_draft EXCEPT ![d] = row]
  BY WriteRows DEF DraftsInv
<1>4. \A c \in WorkflowDrafts \ {d} : ai_draft'[c] = ai_draft[c] BY <1>0, <1>3, DraftTypes
<1>5. UNCHANGED <<ai_version, disturbed>> /\ ai_draft[d] = None BY DEF InsertAiDraft
<1>6. \A g \in Handlers : ~On(request[g], d)
  <2>1. \A g \in Handlers : On(request[g], d) => WritingLocal(request[g])
    BY <1>0, AiLocalsByStep DEF AiTyped, On
  <2>2. \A g \in Handlers : On(request[g], d) => ai_draft[d] \in AiDraftRows
    BY <2>1, WritesARow DEF DraftsInv, On
  <2> QED BY <1>5, <2>2, AiNullAssumption
<1>7. \A c \in WorkflowDrafts \ {d} : ~On(request[h], c) /\ ~On(m, c)
  BY <1>1, <1>2, OffDrafts DEF On
<1>8. On(m, d) /\ Written(m, ai_draft'[d], ai_version'[d]) BY <1>1 DEF On, Written
<1> QED BY <1>1, <1>4, <1>5, <1>6, <1>7, <1>8, DraftsWritten

(* goes on with it, *)
LEMMA DraftGoesOn ==
  ASSUME DraftsInv, AnswersInv', NEW h \in Handlers,
         \/ DrawNumber(h) \/ InsertAiVersion(h) \/ DeleteMissing(h)
         \/ \E field \in Fields : InsertMissing(h, field)
  PROVE  DraftsInv'
<1>0. AiTyped /\ AnswersInv BY DEF DraftsInv, AnswersInv
<1> DEFINE l == request[h]
           d == l.draft
<1>a. WritingLocal(l) BY <1>0, WriteMoves
<1>b. d \in WorkflowDrafts /\ ai_draft[d] \in AiDraftRows /\ On(l, d)
      /\ \A c \in WorkflowDrafts \ {d} : ~On(l, c)
  BY <1>0, <1>a, WritesARow DEF WritingLocal, On
<1>c. UNCHANGED disturbed BY DEF DrawNumber, InsertAiVersion, DeleteMissing, InsertMissing, aiTables
<1>d. d \notin disturbed => Written(l, ai_draft[d], ai_version[d])
  BY <1>b, AiNullAssumption DEF DraftsInv, DraftOK
<1>e. ASSUME NEW m, MovesTo(h, m), WritingLocal(m), SameDraft(m, l),
             \A c \in WorkflowDrafts \ {d} : ai_draft'[c] = ai_draft[c] /\ ai_version'[c] = ai_version[c],
             d \notin disturbed => Written(m, ai_draft'[d], ai_version'[d])
      PROVE  DraftsInv'
  <2>1. On(m, d) /\ \A c \in WorkflowDrafts \ {d} : ~On(m, c)
    BY <1>e DEF WritingLocal, SameDraft, On
  <2>2. ai_draft[d] # None BY <1>b, AiNullAssumption
  <2> HIDE DEF d
  <2> QED BY <1>b, <1>c, <1>e, <2>1, <2>2, DraftsWritten
<1>1. CASE DrawNumber(h)
  <2>1. PICK m : MovesTo(h, m) /\ WritingLocal(m) /\ SameDraft(m, l) /\ m.pc = "version"
    BY <1>0, <1>1, WriteMoves
  <2>2. UNCHANGED <<ai_draft, ai_version>> BY <1>1 DEF DrawNumber, aiTables
  <2>3. Written(m, ai_draft'[d], ai_version'[d]) BY <2>1 DEF Written
  <2> QED BY <1>e, <2>1, <2>2, <2>3
<1>2. CASE InsertAiVersion(h)
  <2>1. PICK m : MovesTo(h, m) /\ WritingLocal(m) /\ SameDraft(m, l) /\ m.pc = "clear" /\ m.no = l.no
    BY <1>0, <1>2, WriteMoves
  <2>2. UNCHANGED ai_draft BY <1>2 DEF InsertAiVersion
  <2>3. /\ \A c \in WorkflowDrafts \ {d} : ai_version'[c] = ai_version[c]
        /\ Len(ai_version'[d]) = l.no
    BY <1>0, <1>2, VersionAdded
  <2>4. Written(m, ai_draft'[d], ai_version'[d]) BY <2>1, <2>3 DEF Written
  <2> QED BY <1>e, <2>1, <2>2, <2>3, <2>4
<1>3. ASSUME NEW row \in AiDraftRows, ai_draft' = [ai_draft EXCEPT ![d] = row], UNCHANGED ai_version,
             l.pc \in {"clear", "ask"},
             NEW m, MovesTo(h, m), WritingLocal(m), SameDraft(m, l), m.no = l.no, m.pc = "ask",
             d \notin disturbed => row.missing = m.questions \ m.unasked
      PROVE  DraftsInv'
  <2>1. ai_draft'[d] = row /\ \A c \in WorkflowDrafts \ {d} : ai_draft'[c] = ai_draft[c]
    BY <1>0, <1>3, <1>b, DraftTypes
  <2>2. d \notin disturbed => Written(m, ai_draft'[d], ai_version'[d])
    BY <1>3, <1>d, <2>1 DEF Written
  <2> HIDE DEF d
  <2> QED BY <1>3, <1>e, <2>1, <2>2
<1>4. CASE DeleteMissing(h)
  <2>1. l.pc = "clear" /\ UNCHANGED ai_version BY <1>4 DEF DeleteMissing, At
  <2>2. PICK m : /\ MovesTo(h, m) /\ WritingLocal(m) /\ SameDraft(m, l) /\ m.pc = "ask"
                 /\ m.no = l.no /\ m.unasked = m.questions
    BY <1>0, <1>4, WriteMoves
  <2>3. PICK row \in AiDraftRows : /\ ai_draft' = [ai_draft EXCEPT ![d] = row] /\ row.missing = {}
    BY <1>0, <1>4, WriteRows
  <2>4. row.missing = m.questions \ m.unasked BY <2>2, <2>3
  <2> QED BY <1>3, <2>1, <2>2, <2>3, <2>4
<1>5. ASSUME NEW field \in Fields, InsertMissing(h, field) PROVE DraftsInv'
  <2>1. l.pc = "ask" /\ field \in l.unasked /\ UNCHANGED ai_version BY <1>5 DEF InsertMissing, At
  <2>2. PICK m : /\ MovesTo(h, m) /\ WritingLocal(m) /\ SameDraft(m, l) /\ m.pc = "ask"
                 /\ m.no = l.no /\ m.unasked = l.unasked \ {field}
    BY <1>0, <1>5, WriteMoves
  <2>3. PICK row \in AiDraftRows : /\ ai_draft' = [ai_draft EXCEPT ![d] = row]
                                   /\ row.missing = ai_draft[d].missing \cup {field}
    BY <1>0, <1>5, WriteRows
  <2>4. field \in l.questions BY <1>a, <2>1 DEF WritingLocal
  <2>5. d \notin disturbed => ai_draft[d].missing = l.questions \ l.unasked
    BY <1>d, <2>1 DEF Written
  <2>6. d \notin disturbed => row.missing = m.questions \ m.unasked
    BY <2>1, <2>2, <2>3, <2>4, <2>5 DEF SameDraft
  <2> QED BY <1>3, <2>1, <2>2, <2>3, <2>6
<1> QED BY <1>1, <1>2, <1>4, <1>5

(* and leaves it whole. *)
LEMMA DraftFinished ==
  ASSUME DraftsInv, AnswersInv', NEW h \in Handlers, UpdateAiDraft(h)
  PROVE  DraftsInv'
<1>0. AiTyped /\ AnswersInv BY DEF DraftsInv, AnswersInv
<1> DEFINE l == request[h]
           d == l.draft
<1>1. WritingLocal(l) /\ l.pc = "ask" BY <1>0, EndMoves
<1>2. PICK m : MovesTo(h, m) /\ (m = Idle \/ FinalLocal(m)) BY <1>0, EndMoves
<1>3. PICK row \in AiDraftRows :
        /\ ai_draft' = [ai_draft EXCEPT ![d] = row]
        /\ row.missing = ai_draft[d].missing
        /\ row.current = l.no /\ row.status = l.status
  BY <1>0, WriteRows
<1>4. /\ d \in WorkflowDrafts /\ ai_draft[d] \in AiDraftRows /\ On(l, d)
      /\ \A c \in WorkflowDrafts \ {d} : ~On(l, c)
  BY <1>0, <1>1, WritesARow DEF WritingLocal, On
<1>5. UNCHANGED <<ai_version, disturbed>> /\ l.unasked = {} BY DEF UpdateAiDraft
<1>6. d \notin disturbed => Written(l, ai_draft[d], ai_version[d])
  BY <1>4, AiNullAssumption DEF DraftsInv, DraftOK
<1>7. /\ ai_draft'[d] = row
      /\ \A c \in WorkflowDrafts \ {d} : ai_draft'[c] = ai_draft[c]
  BY <1>0, <1>3, <1>4, DraftTypes
<1>8. d \notin disturbed => Whole(ai_draft'[d], ai_version'[d])
  <2> SUFFICES ASSUME d \notin disturbed PROVE Whole(ai_draft'[d], ai_version'[d])
    OBVIOUS
  <2>1. l.no = Len(ai_version[d]) /\ ai_draft[d].missing = l.questions
    BY <1>1, <1>5, <1>6 DEF Written
  <2>2. l.no \in Nat /\ l.no > 0 BY <1>1 DEF WritingLocal
  <2>3. ai_version[d][l.no] = StoredBy(l)
    BY <1>0, <1>1 DEF AnswersInv, AnswersOK, AiLocalOK
  <2>4. ai_version[d][l.no].questions = l.questions /\ ai_version[d][l.no].valid = l.valid
    BY <2>3 DEF StoredBy
  <2>5. row.missing = l.questions /\ row.current = l.no BY <1>3, <2>1
  <2>6. /\ row.status = "clarification_required" <=> row.missing # {}
        /\ row.status \in {"ready_for_review", "saved"} <=> l.valid
    BY <1>1, <1>3, <2>5 DEF WritingLocal, Judged
  <2>7. Whole(row, ai_version[d]) BY <2>1, <2>2, <2>4, <2>5, <2>6 DEF Whole
  <2> QED BY <1>5, <1>7, <2>7
<1>9. \A c : ~On(m, c) BY <1>2, OffDrafts
<1> HIDE DEF d, l
<1>10. On(request[h], d) /\ \A c \in WorkflowDrafts \ {d} : ~On(request[h], c) BY <1>4 DEF l
<1> QED BY <1>2, <1>4, <1>5, <1>7, <1>8, <1>9, <1>10, AiNullAssumption, DraftsWritten

(* Every handler's step keeps undisturbed drafts whole. *)
LEMMA StepDrafts == ASSUME DraftsInv, NEW h \in Handlers, StepOf(h) PROVE DraftsInv'
<1>1. AnswersInv' BY StepAnswers DEF DraftsInv
<1>2. CASE \/ \E key \in AiKeys :
                SendPatch(h, key) \/ \E own \in {None, Fields} : SendMessage(h, key, own)
           \/ LookUpKey(h)
           \/ \E r \in AiRequests, questions \in SUBSET Fields : CreateAiRequest(h, r, questions)
           \/ BlockMessage(h) \/ ProviderAnswers(h) \/ RecordUsage(h)
           \/ \E linked \in BOOLEAN : CreateManualDraft(h, linked)
           \/ \E d \in WorkflowDrafts, answers, questions \in SUBSET Fields :
                UpdateDraftInputs(h, d, answers, questions)
           \/ MarkError(h) \/ RecordFinalResponse(h)
  BY <1>1, <1>2, AroundDrafts
<1>3. CASE UpdateContext(h) BY <1>1, <1>3, RevisingDrafts
<1>4. CASE \E d \in WorkflowDrafts : InsertAiDraft(h, d) BY <1>1, <1>4, NewDraft
<1>5. CASE \/ DrawNumber(h) \/ InsertAiVersion(h) \/ DeleteMissing(h)
           \/ \E field \in Fields : InsertMissing(h, field)
  BY <1>1, <1>5, DraftGoesOn
<1>6. CASE UpdateAiDraft(h) BY <1>1, <1>6, DraftFinished
<1>7. CASE Throws(h) \/ CutShort(h) BY <1>1, <1>7, LeavingDrafts
<1> QED BY <1>2, <1>3, <1>4, <1>5, <1>6, <1>7 DEF StepOf

(* There is no draft at first. *)
LEMMA InitDrafts == AiInit => DraftsInv
<1>1. AiInit => \A d \in WorkflowDrafts : ai_draft[d] = None BY DEF AiInit
<1> QED BY <1>1, InitAnswers DEF DraftsInv, DraftOK

(* A stuttering step changes nothing the drafts are judged by. *)
LEMMA DraftsStutter == DraftsInv /\ UNCHANGED aiVars => DraftsInv'
<1> SUFFICES ASSUME DraftsInv, UNCHANGED aiVars PROVE DraftsInv'
  OBVIOUS
<1>1. AnswersInv' BY AnswersStutter DEF DraftsInv
<1>2. /\ disturbed' = disturbed /\ request' = request /\ ai_draft' = ai_draft
      /\ ai_version' = ai_version
  BY DEF aiVars, aiTables
<1> QED BY <1>1, <1>2 DEF DraftsInv

(* The strengthened invariant holds in every reachable state.              *)
THEOREM DraftsInvariant == AiSpec => []DraftsInv
<1>1. DraftsInv /\ [AiNext]_aiVars => DraftsInv' BY DraftsStutter, AiNextByHandler, StepDrafts
<1> QED BY <1>1, InitDrafts, PTL DEF AiSpec

(* A draft nobody is on is whole. *)
LEMMA DraftsShown == DraftsInv => DraftsAgree
<1> SUFFICES ASSUME DraftsInv, NEW d \in WorkflowDrafts, ai_draft[d] # None, d \notin disturbed,
                    \A h \in Handlers : ~OnDraft(h, d)
             PROVE  Whole(ai_draft[d], ai_version[d])
  BY DEF DraftsAgree, Whole
<1>1. \A h \in Handlers : ~On(request[h], d) BY DEF OnDraft, On
<1> QED BY <1>1 DEF DraftsInv, DraftOK

(* persistDraftVersion has no transaction: still a draft that nobody is    *)
(* writing shows its last version, asks for what that version leaves open  *)
(* and is ready exactly when nothing is, whatever was done to it, as long  *)
(* as no two requests wrote it at once and none left it half written.      *)
THEOREM DraftsAreWhole == AiSpec => []DraftsAgree
BY DraftsShown, DraftsInvariant, PTL

-----------------------------------------------------------------------------
(* The entry checks.  A set of naturals that is not empty has a least      *)
(* element, and one that is bounded a greatest.                            *)
LEMMA Less == IsWellFoundedOn({p \in Nat \X Nat : p[1] < p[2]}, Nat)
<1>1. OpToRel(<, Nat) = {p \in Nat \X Nat : p[1] < p[2]}
  BY Zenon DEF OpToRel
<1> QED BY <1>1, NatLessThanWellFounded, Zenon

(* A set of natural numbers that is not empty has a least element. *)
LEMMA Least ==
  ASSUME NEW T \in SUBSET Nat, T # {} PROVE \E x \in T : \A y \in T : x <= y
<1> DEFINE R == {p \in Nat \X Nat : p[1] < p[2]}
<1>1. IsWellFoundedOn(R, Nat) BY Less
<1>2. \E x \in T : \A y \in T : ~(<<y, x>> \in R)
  <2> HIDE DEF R
  <2> QED BY <1>1, WFMin
<1>3. \A x, y \in Nat : y < x => <<y, x>> \in R BY DEF R
<1> HIDE DEF R
<1>4. PICK x \in T : \A y \in T : ~(<<y, x>> \in R) BY <1>2
<1>5. \A y \in T : ~ (y < x) BY <1>3, <1>4
<1> QED BY <1>5

(* One that is bounded as well has a greatest. *)
LEMMA Greatest ==
  ASSUME NEW T \in SUBSET Nat, T # {}, NEW n \in Nat, \A y \in T : y <= n
  PROVE  \E x \in T : \A y \in T : y <= x
<1> DEFINE U == {u \in Nat : \A y \in T : y <= u}
<1>1. PICK u \in U : \A v \in U : u <= v
  <2>1. U \in SUBSET Nat /\ U # {} OBVIOUS
  <2> HIDE DEF U
  <2> QED BY <2>1, Least
<1>2. u \in Nat /\ \A y \in T : y <= u OBVIOUS
<1>3. ASSUME u \notin T PROVE FALSE
  <2>1. PICK t \in T : TRUE OBVIOUS
  <2>2. \A y \in T : y \in Nat /\ y < u BY <1>2, <1>3
  <2>3. u - 1 \in Nat /\ u - 1 < u BY <1>2, <2>2
  <2>4. \A y \in T : y <= u - 1 BY <1>2, <2>2
  <2>5. u - 1 \in U BY <2>3, <2>4
  <2> QED BY <1>1, <1>2, <2>3, <2>5
<1> QED BY <1>2, <1>3

(* findIdempotentResponse finds the last request with the key. *)
LEMMA LastIsWithKey ==
  ASSUME NEW n \in Nat, \A r \in AiRequests : ai_request[r] # None => r <= n,
         NEW key, WithKey(key) # {}
  PROVE  LastWithKey(key) \in WithKey(key)
<1>1. WithKey(key) \in SUBSET Nat /\ \A r \in WithKey(key) : r <= n
  BY AiAssumption DEF WithKey
<1> DEFINE S == WithKey(key)
<1> HIDE DEF S
<1>2. \E x \in S : \A y \in S : y <= x BY <1>1, Greatest DEF S
<1>3. (CHOOSE x \in S : \A y \in S : y <= x) \in S BY <1>2
<1> QED BY <1>3 DEF LastWithKey, S

(* The requests with a key, as a function of the rows. *)
LEMMA KeyedIs == \A key : WithKey(key) = Keyed(ai_request, key)
  BY DEF WithKey, Keyed

(* A request that is not for the AI is bound by no check. *)
LEMMA NotForAi ==
  ASSUME NEW l, AiLocal(l), NEW rs, NEW charged
  PROVE  /\ ~ForAiLocal(l) => EntryOK(l, rs, charged)
         /\ \A r \in AiRequests : Holds(l, r) => ForAiLocal(l)
<1>1. ~ForAiLocal(l) => EntryOK(l, rs, charged) BY DEF ForAiLocal, EntryOK, Charging
<1>2. DOMAIN Idle = {"pc"} BY DEF Idle
<1>3. ASSUME NEW r \in AiRequests, Holds(l, r) PROVE ForAiLocal(l)
  <2>1. CASE l = Idle BY <1>2, <1>3, <2>1 DEF Holds
  <2>2. CASE EnteringLocal(l) BY <1>3, <2>2 DEF Holds, EnteringLocal
  <2>3. CASE RevisingLocal(l) BY <1>3, <2>3, AiNullAssumption DEF Holds, RevisingLocal
  <2>4. CASE PromptLocal(l) BY <1>3, <2>4, AiNullAssumption DEF Holds, PromptLocal, OwnerOf, ForAiLocal
  <2>5. CASE WritingLocal(l) BY <1>3, <2>5, AiNullAssumption DEF Holds, WritingLocal, OwnerOf, ForAiLocal
  <2>6. CASE FinalLocal(l) \/ CatchLocal(l) BY <2>6 DEF FinalLocal, CatchLocal, ForAiLocal
  <2> QED BY <2>1, <2>2, <2>3, <2>4, <2>5, <2>6 DEF AiLocal
<1> QED BY <1>1, <1>3

(* A step that stores no AI request and charges for none. *)
LEMMA EntriesQuiet ==
  ASSUME EntriesInv, AnswersInv', NEW h \in Handlers, NEW m, MovesTo(h, m), UNCHANGED usage,
         \A r \in AiRequests :
           /\ ai_request'[r] = None <=> ai_request[r] = None
           /\ ai_request[r] # None => /\ ai_request'[r].kind = ai_request[r].kind
                                      /\ ai_request'[r].key = ai_request[r].key
           /\ Holds(request[h], r) \/ ai_request'[r] = ai_request[r],
         m.pc \in {"provider", "usage"} => ai_request[m.id].kind = m.kind /\ m.id \in AiRequests,
         ~crowded' => /\ ~crowded
                      /\ ForAiLocal(m) => \/ ForAiLocal(request[h])
                                          \/ \A g \in Handlers \ {h} : ~ForAiLocal(request[g])
                      /\ \A r \in AiRequests : Holds(request[h], r) =>
                           Holds(m, r) \/ ai_request'[r].final # None
                      /\ EntryOK(m, ai_request, usage)
  PROVE  EntriesInv'
<1> DEFINE rs == ai_request
<1>1. MessagesOf(ai_request') = MessagesOf(rs) BY DEF MessagesOf
<1>2. \A key : Keyed(ai_request', key) = Keyed(rs, key) BY DEF Keyed
<1>3. \A l : EntryOK(l, ai_request', usage') <=> EntryOK(l, rs, usage)
  BY <1>1, <1>2 DEF EntryOK
<1>4. \A g \in Handlers : request'[g] = IF g = h THEN m ELSE request[g] BY DEF MovesTo
<1>5. \E n \in Nat : \A r \in AiRequests : ai_request'[r] # None => r <= n BY DEF EntriesInv
<1>6. \A r \in usage' : ai_request'[r] # None
  BY DEF EntriesInv, AnswersInv, AiTyped, AiTypeOK
<1>7. ASSUME NEW g \in Handlers, request'[g].pc \in {"provider", "usage"}
      PROVE  ai_request'[request'[g].id].kind = request'[g].kind
  <2>1. AiLocal(request'[g]) BY DEF AnswersInv, AiTyped
  <2>2. PromptLocal(request'[g]) BY <1>7, <2>1, AiLocalsByStep
  <2>3. Holds(request'[g], request'[g].id) /\ request'[g].id \in AiRequests
    BY <1>7, <2>2 DEF PromptLocal, OwnerOf, Holds
  <2>4. ai_request'[request'[g].id] \in AiRequestRows
    BY <2>3 DEF AnswersInv, AnswersOK, AiLocalOK
  <2>5. ai_request[request'[g].id] # None BY <2>3, <2>4, AiNullAssumption
  <2>6. ai_request[request'[g].id].kind = request'[g].kind
    BY <1>4, <1>7 DEF EntriesInv
  <2> QED BY <2>3, <2>5, <2>6
<1>8. ASSUME ~crowded' PROVE EntriesOK'
  <2>0. EntriesOK BY <1>8 DEF EntriesInv
  <2>1. \A g, f \in Handlers : ForAiLocal(request'[g]) /\ ForAiLocal(request'[f]) => g = f
    BY <1>4, <1>8, <2>0 DEF EntriesOK
  <2>2. ASSUME NEW r \in AiRequests, ai_request'[r] # None, ai_request'[r].final = None
        PROVE  \E g \in Handlers : Holds(request'[g], r)
    <3>1. CASE Holds(request[h], r) BY <1>4, <1>8, <2>2, <3>1
    <3>2. CASE ~Holds(request[h], r)
      <4>1. PICK g \in Handlers : Holds(request[g], r) BY <2>0, <2>2, <3>2 DEF EntriesOK
      <4> QED BY <1>4, <3>2, <4>1
    <3> QED BY <3>1, <3>2
  <2>3. Cardinality(usage' \cap MessagesOf(ai_request')) <= Budget
    BY <1>1, <2>0 DEF EntriesOK
  <2>4. \A key \in AiKeys \ {None} :
          \A r, s \in Keyed(ai_request', key) \cap MessagesOf(ai_request') : r = s
    BY <1>1, <1>2, <2>0 DEF EntriesOK
  <2>5. \A g \in Handlers : EntryOK(request'[g], ai_request', usage')
    BY <1>3, <1>4, <1>8, <2>0 DEF EntriesOK
  <2> QED BY <2>1, <2>2, <2>3, <2>4, <2>5 DEF EntriesOK
<1>9. IsFiniteSet(usage') BY DEF EntriesInv
<1> QED BY <1>5, <1>6, <1>7, <1>8, <1>9 DEF EntriesInv

(* A step that changes neither rows of AI requests nor charges. *)
LEMMA EntriesSameRows ==
  ASSUME EntriesInv, AnswersInv', NEW h \in Handlers, NEW m, MovesTo(h, m),
         UNCHANGED <<usage, ai_request>>, m.pc \notin {"provider", "usage"},
         ~crowded' => /\ ~crowded
                      /\ ForAiLocal(m) => \/ ForAiLocal(request[h])
                                          \/ \A g \in Handlers \ {h} : ~ForAiLocal(request[g])
                      /\ \A r \in AiRequests : Holds(request[h], r) => Holds(m, r)
                      /\ EntryOK(m, ai_request, usage)
  PROVE  EntriesInv'
  BY EntriesQuiet

(* Messages and patches come in; the budget is compared with what was      *)
(* charged.                                                                *)
LEMMA SendEntries ==
  ASSUME EntriesInv, AnswersInv', NEW h \in Handlers, NEW key \in AiKeys,
         SendPatch(h, key) \/ \E own \in {None, Fields} : SendMessage(h, key, own)
  PROVE  EntriesInv'
<1>0. AiTyped BY DEF EntriesInv, AnswersInv
<1>1. PICK m : /\ MovesTo(h, m) /\ EnteringLocal(m) /\ request[h] = Idle
               /\ \/ SendPatch(h, key) /\ m.pc = "create" /\ m.kind = "patch"
                  \/ /\ m.pc = "lookup" /\ m.kind = "message"
                     /\ \E own \in {None, Fields} : SendMessage(h, key, own)
  BY <1>0, SendMoves
<1>2. UNCHANGED <<usage, ai_request>> /\ NoteAi(h) BY DEF SendPatch, SendMessage
<1>3. ~crowded' => ~crowded /\ \A g \in Handlers \ {h} : ~ForAiLocal(request[g])
  BY <1>2 DEF NoteAi, ForAi, ForAiLocal
<1>4. \A r \in AiRequests : ~Holds(request[h], r) BY <1>1 DEF Idle, Holds
<1>5. EntryOK(m, ai_request, usage)
  <2>1. CASE m.kind = "patch" BY <2>1 DEF EntryOK, Charging
  <2>2. CASE m.pc = "lookup" /\ \E own \in {None, Fields} : SendMessage(h, key, own)
    <3>1. Cardinality(usage) < Budget BY <2>2 DEF SendMessage
    <3>2. usage \cap MessagesOf(ai_request) \in SUBSET usage /\ IsFiniteSet(usage)
      BY DEF EntriesInv
    <3>3. /\ Cardinality(usage \cap MessagesOf(ai_request)) <= Cardinality(usage)
          /\ Cardinality(usage \cap MessagesOf(ai_request)) \in Nat
          /\ Cardinality(usage) \in Nat
      BY <3>2, FS_Subset, FS_CardinalityType
    <3>4. Cardinality(usage \cap MessagesOf(ai_request)) < Budget
      BY <3>1, <3>3, AiAssumption
    <3> QED BY <2>2, <3>4 DEF EntryOK
  <2> QED BY <1>1, <2>1, <2>2
<1> QED BY <1>1, <1>2, <1>3, <1>4, <1>5, EntriesSameRows

(* The response of an earlier message with the key is looked for.  While   *)
(* AI requests follow each other, all of them are answered by now.         *)
LEMMA LookUpEntries ==
  ASSUME EntriesInv, AnswersInv', NEW h \in Handlers, LookUpKey(h)
  PROVE  EntriesInv'
<1>0. AiTyped BY DEF EntriesInv, AnswersInv
<1> DEFINE l == request[h]
<1>1. EnteringLocal(l) BY <1>0, EnterMoves
<1>2. PICK m : /\ MovesTo(h, m)
               /\ \/ m = Idle
                  \/ /\ EnteringLocal(m) /\ m.pc = "context" /\ m.kind = l.kind
                     /\ m.key = l.key /\ ~AnsweredWithKey(l.key)
  BY <1>0, EnterMoves
<1>3. UNCHANGED <<usage, ai_request, crowded>> BY DEF LookUpKey, aiTables
<1>4. /\ \A r \in AiRequests : ~Holds(l, r)
      /\ ForAiLocal(l)
  BY <1>1 DEF EnteringLocal, Holds, ForAiLocal
<1>5. ASSUME ~crowded, l.key # None, ~AnsweredWithKey(l.key) PROVE Keyed(ai_request, l.key) = {}
  <2>1. EntriesOK BY <1>5 DEF EntriesInv
  <2>2. \A r \in AiRequests : ai_request[r] # None => ai_request[r].final # None
    <3>1. ASSUME NEW r \in AiRequests, ai_request[r] # None, ai_request[r].final = None PROVE FALSE
      <4>1. PICK g \in Handlers : Holds(request[g], r) BY <2>1, <3>1 DEF EntriesOK
      <4>2. ForAiLocal(request[g]) BY <1>0, <4>1, NotForAi DEF AiTyped
      <4>3. g = h BY <1>4, <2>1, <4>2 DEF EntriesOK
      <4> QED BY <1>4, <4>1, <4>3
    <3> QED BY <3>1
  <2>3. ASSUME WithKey(l.key) # {} PROVE FALSE
    <3>1. PICK n \in Nat : \A r \in AiRequests : ai_request[r] # None => r <= n BY DEF EntriesInv
    <3>2. LastWithKey(l.key) \in WithKey(l.key) BY <2>3, <3>1, LastIsWithKey
    <3>3. ai_request[LastWithKey(l.key)].final # None BY <2>2, <3>2 DEF WithKey
    <3> QED BY <1>5, <2>3, <3>3 DEF AnsweredWithKey
  <2> QED BY <2>3, KeyedIs
<1>6. ASSUME ~crowded PROVE EntryOK(m, ai_request, usage)
  <2>1. CASE m = Idle
    <3>1. m.pc = "idle" BY <2>1 DEF Idle
    <3> QED BY <3>1 DEF EntryOK, Charging
  <2>2. CASE /\ EnteringLocal(m) /\ m.pc = "context" /\ m.kind = l.kind
             /\ m.key = l.key /\ ~AnsweredWithKey(l.key)
    <3>1. EntryOK(l, ai_request, usage) BY <1>6 DEF EntriesInv, EntriesOK
    <3>2. Charging(m) => Charging(l)
      <4>1. l.pc = "lookup" BY DEF LookUpKey, At
      <4> QED BY <2>2, <4>1 DEF Charging
    <3>3. m.key # None => Keyed(ai_request, m.key) = {} BY <1>5, <1>6, <2>2
    <3> QED BY <3>1, <3>2, <3>3 DEF EntryOK
  <2> QED BY <1>2, <2>1, <2>2
<1>7. m.pc \notin {"provider", "usage"} BY <1>2 DEF Idle
<1> QED BY <1>2, <1>3, <1>4, <1>6, <1>7, EntriesSameRows

(* Checking budget and key on the way in keeps the invariant of the entries. *)
LEMMA ContextEntries ==
  ASSUME EntriesInv, AnswersInv', NEW h \in Handlers, UpdateContext(h)
  PROVE  EntriesInv'
<1>0. AiTyped BY DEF EntriesInv, AnswersInv
<1> DEFINE l == request[h]
<1>1. PICK m : /\ MovesTo(h, m)
               /\ \/ /\ EnteringLocal(l) /\ EnteringLocal(m) /\ m.pc = "create"
                     /\ m.kind = l.kind /\ m.key = l.key
                  \/ /\ RevisingLocal(l) /\ WritingLocal(m) /\ m.pc = "number"
                     /\ m.id = None /\ m.kind = "manual"
  BY <1>0, EnterMoves
<1>2. UNCHANGED <<usage, ai_request, crowded>> /\ l.pc = "context" BY DEF UpdateContext, At
<1>3. \A r \in AiRequests : ~Holds(l, r)
  BY <1>1, AiNullAssumption DEF EnteringLocal, RevisingLocal, Holds
<1>4. ForAiLocal(m) => ForAiLocal(l)
  BY <1>1, <1>2 DEF ForAiLocal
<1>5. ASSUME ~crowded PROVE EntryOK(m, ai_request, usage)
  <2>1. CASE m.kind = "manual" BY <2>1 DEF EntryOK, Charging
  <2>2. CASE m.pc = "create" /\ m.kind = l.kind /\ m.key = l.key
    <3>1. EntryOK(l, ai_request, usage) BY <1>5 DEF EntriesInv, EntriesOK
    <3>2. Charging(m) => Charging(l) BY <1>2, <2>2 DEF Charging
    <3> QED BY <1>2, <2>2, <3>1, <3>2 DEF EntryOK
  <2> QED BY <1>1, <2>1, <2>2
<1>6. m.pc \notin {"provider", "usage"} BY <1>1
<1> QED BY <1>1, <1>2, <1>3, <1>4, <1>5, <1>6, EntriesSameRows

(* Manual work. *)
LEMMA ManualEntries ==
  ASSUME EntriesInv, AnswersInv', NEW h \in Handlers,
         \/ \E linked \in BOOLEAN : CreateManualDraft(h, linked)
         \/ \E d \in WorkflowDrafts, answers, questions \in SUBSET Fields :
              UpdateDraftInputs(h, d, answers, questions)
  PROVE  EntriesInv'
<1>0. AiTyped BY DEF EntriesInv, AnswersInv
<1>1. PICK m : /\ MovesTo(h, m) /\ request[h] = Idle
               /\ \/ PromptLocal(m) /\ m.pc = "draft" /\ m.kind = "manual"
                  \/ RevisingLocal(m)
  BY <1>0, PromptMoves
<1>2. UNCHANGED <<usage, ai_request, crowded>> BY DEF CreateManualDraft, UpdateDraftInputs, aiTables
<1>3. \A r \in AiRequests : ~Holds(request[h], r) BY <1>1 DEF Idle, Holds
<1>4. m.kind = "manual" /\ m.pc \notin {"provider", "usage"} BY <1>1 DEF RevisingLocal
<1>5. ~ForAiLocal(m) /\ EntryOK(m, ai_request, usage) BY <1>4 DEF ForAiLocal, EntryOK, Charging
<1> QED BY <1>1, <1>2, <1>3, <1>4, <1>5, EntriesSameRows

(* persistDraftVersion.  Its statements come after the charge. *)
LEMMA WriteEntries ==
  ASSUME EntriesInv, AnswersInv', NEW h \in Handlers,
         \/ \E d \in WorkflowDrafts : InsertAiDraft(h, d)
         \/ DrawNumber(h) \/ InsertAiVersion(h) \/ DeleteMissing(h)
         \/ \E field \in Fields : InsertMissing(h, field)
  PROVE  EntriesInv'
<1>0. AiTyped BY DEF EntriesInv, AnswersInv
<1>1. PICK m : /\ MovesTo(h, m) /\ WritingLocal(m) /\ m.id = request[h].id
               /\ m.kind = request[h].kind
  BY <1>0, WriteMoves DEF SameDraft
<1>2. UNCHANGED <<usage, ai_request, crowded>>
  BY DEF InsertAiDraft, DrawNumber, InsertAiVersion, DeleteMissing, InsertMissing, aiTables
<1>3. PromptLocal(request[h]) \/ WritingLocal(request[h]) BY <1>0, WriteMoves
<1>4. \A r \in AiRequests : Holds(request[h], r) => Holds(m, r)
  BY <1>1 DEF WritingLocal, Holds
<1>5. ForAiLocal(m) => ForAiLocal(request[h])
  BY <1>1, <1>3 DEF ForAiLocal, PromptLocal, WritingLocal
<1>6. m.pc \notin {"provider", "usage"} /\ EntryOK(m, ai_request, usage)
  BY <1>1 DEF WritingLocal, EntryOK, Charging
<1> QED BY <1>1, <1>2, <1>4, <1>5, <1>6, EntriesSameRows

(* Only the status or the final response of a held AI request changes. *)
LEMMA MarkEntries ==
  ASSUME EntriesInv, AnswersInv', NEW h \in Handlers, NEW m, MovesTo(h, m),
         NEW r \in AiRequests, r = request[h].id, Holds(request[h], r), UNCHANGED <<usage, crowded>>,
         \/ \E s \in {"queued", "completed", "blocked", "error"} :
              ai_request' = [ai_request EXCEPT ![r].status = s]
         \/ \E f \in FinalResponses : ai_request' = [ai_request EXCEPT ![r].final = f],
         Holds(m, r) \/ ai_request'[r].final # None,
         m.pc \in {"provider", "usage"} => ai_request[m.id].kind = m.kind /\ m.id \in AiRequests,
         ~crowded => EntryOK(m, ai_request, usage)
  PROVE  EntriesInv'
<1>0. AiTyped BY DEF EntriesInv, AnswersInv
<1>1. ai_request[r] \in AiRequestRows BY DEF EntriesInv, AnswersInv, AnswersOK, AiLocalOK
<1>2. ai_request'[r] \in AiRequestRows /\ \A s \in AiRequests \ {r} : ai_request'[s] = ai_request[s]
  <2>1. ai_request' \in [AiRequests -> {None} \cup AiRequestRows] BY <1>0, <1>1, CompleteTypes
  <2>2. \A s \in AiRequests \ {r} : ai_request'[s] = ai_request[s] BY <1>0 DEF AiTyped, AiTypeOK
  <2>3. \/ \E s \in {"queued", "completed", "blocked", "error"} :
             ai_request'[r] = [ai_request[r] EXCEPT !.status = s]
        \/ \E f \in FinalResponses : ai_request'[r] = [ai_request[r] EXCEPT !.final = f]
    BY <1>0 DEF AiTyped, AiTypeOK
  <2>4. /\ \A s \in {"queued", "completed", "blocked", "error"} :
             [ai_request[r] EXCEPT !.status = s] \in AiRequestRows
        /\ \A f \in FinalResponses : [ai_request[r] EXCEPT !.final = f] \in AiRequestRows
    BY <1>1, RequestRowTypes
  <2> QED BY <2>2, <2>3, <2>4
<1>3. ai_request'[r].kind = ai_request[r].kind /\ ai_request'[r].key = ai_request[r].key
  <2>1. \/ \E s \in {"queued", "completed", "blocked", "error"} :
             ai_request'[r] = [ai_request[r] EXCEPT !.status = s]
        \/ \E f \in FinalResponses : ai_request'[r] = [ai_request[r] EXCEPT !.final = f]
    BY <1>0 DEF AiTyped, AiTypeOK
  <2> QED BY <1>1, <2>1 DEF AiRequestRows
<1>4. ASSUME NEW s \in AiRequests
      PROVE  /\ ai_request'[s] = None <=> ai_request[s] = None
             /\ ai_request[s] # None => /\ ai_request'[s].kind = ai_request[s].kind
                                        /\ ai_request'[s].key = ai_request[s].key
             /\ Holds(request[h], s) \/ ai_request'[s] = ai_request[s]
  <2>1. CASE s = r BY <1>1, <1>2, <1>3, <2>1, AiNullAssumption
  <2>2. CASE s # r BY <1>2, <2>2
  <2> QED BY <2>1, <2>2
<1>5. \A s \in AiRequests : Holds(request[h], s) => s = r BY DEF Holds
<1>6. ForAiLocal(request[h]) BY <1>0, NotForAi DEF AiTyped
<1> QED BY <1>4, <1>5, <1>6, EntriesQuiet

(* Marking a request as blocked, answered or failed keeps it. *)
LEMMA MarkedEntries ==
  ASSUME EntriesInv, AnswersInv', NEW h \in Handlers,
         BlockMessage(h) \/ ProviderAnswers(h) \/ MarkError(h) \/ RecordFinalResponse(h)
  PROVE  EntriesInv'
<1>0. AiTyped /\ AnswersInv BY DEF EntriesInv, AnswersInv
<1> DEFINE l == request[h]
           r == l.id
<1>a. PromptLocal(l) \/ FinalLocal(l) \/ CatchLocal(l)
  BY <1>0, PromptMoves, EndMoves
<1>b. r \in AiRequests /\ Holds(l, r)
  <2>1. r \in AiRequests BY <1>0, PromptMoves, EndMoves DEF FinalLocal, CatchLocal
  <2> QED BY <1>0, <1>a, <2>1, WhatHolds
<1>c. UNCHANGED <<usage, crowded>>
  BY DEF BlockMessage, ProviderAnswers, MarkError, RecordFinalResponse, Complete
<1>1. CASE BlockMessage(h) \/ MarkError(h)
  <2>1. PICK m : MovesTo(h, m) /\ FinalLocal(m) /\ m.id = r
    <3>1. CASE BlockMessage(h) BY <1>0, <3>1, PromptMoves
    <3>2. CASE MarkError(h) BY <1>0, <3>2, EndMoves
    <3> QED BY <1>1, <3>1, <3>2
  <2>2. Holds(m, r) /\ m.pc = "final" BY <2>1 DEF FinalLocal, Holds
  <2>3. EntryOK(m, ai_request, usage) BY <2>2 DEF EntryOK, Charging
  <2>4. \E s \in {"queued", "completed", "blocked", "error"} :
          ai_request' = [ai_request EXCEPT ![r].status = s]
    BY <1>1 DEF BlockMessage, MarkError, Complete
  <2> HIDE DEF r, l
  <2>5. Holds(request[h], r) /\ r = request[h].id BY <1>b DEF r, l
  <2> QED BY <1>b, <1>c, <2>1, <2>2, <2>3, <2>4, <2>5, MarkEntries
<1>2. CASE ProviderAnswers(h)
  <2>1. PICK m : /\ MovesTo(h, m) /\ PromptLocal(m) /\ m.id = r /\ m.kind = l.kind
                 /\ l.pc = "provider" /\ m.pc = "usage"
    <3>1. ~RecordUsage(h) \/ l.pc = "provider" BY <1>2 DEF ProviderAnswers, RecordUsage, At
    <3>2. l.pc = "provider" BY <1>2 DEF ProviderAnswers, At
    <3>3. PICK m : /\ MovesTo(h, m) /\ PromptLocal(m) /\ m.id = r /\ m.kind = l.kind
                   /\ \/ l.pc = "provider" /\ m.pc = "usage"
                      \/ l.pc = "usage" /\ m.pc = "draft"
      BY <1>0, <1>2, PromptMoves
    <3> QED BY <3>2, <3>3
  <2>2. Holds(m, r) BY <2>1 DEF PromptLocal, Holds
  <2>3. ~crowded => EntryOK(m, ai_request, usage)
    BY <2>1 DEF EntriesInv, EntriesOK, EntryOK, Charging
  <2>4. ai_request' = [ai_request EXCEPT ![r].status = "completed"]
    BY <1>2 DEF ProviderAnswers, Complete
  <2>5. ai_request[m.id].kind = m.kind /\ m.id \in AiRequests BY <1>b, <2>1 DEF EntriesInv
  <2> HIDE DEF r, l
  <2>6. Holds(request[h], r) /\ r = request[h].id BY <1>b DEF r, l
  <2> QED BY <1>b, <1>c, <2>1, <2>2, <2>3, <2>4, <2>5, <2>6, MarkEntries
<1>3. CASE RecordFinalResponse(h)
  <2>1. PICK m : MovesTo(h, m) /\ (m = Idle \/ CatchLocal(m)) BY <1>0, <1>3, EndMoves
  <2>2. m.pc \in {"idle", "catch"} BY <2>1 DEF Idle, CatchLocal
  <2>3. EntryOK(m, ai_request, usage) BY <2>2 DEF EntryOK, Charging
  <2>4. l.final \in FinalResponses /\ ai_request' = [ai_request EXCEPT ![r].final = l.final]
    BY <1>0, <1>3, EndMoves DEF RecordFinalResponse, FinalLocal
  <2>5. ai_request'[r].final # None
    <3>1. ai_request[r] \in AiRequestRows BY <1>0, <1>b DEF AnswersInv, AnswersOK, AiLocalOK
    <3>2. ai_request'[r] = [ai_request[r] EXCEPT !.final = l.final]
      BY <1>0, <1>b, <2>4 DEF AiTyped, AiTypeOK
    <3>3. ai_request'[r].final = l.final BY <3>1, <3>2 DEF AiRequestRows
    <3> QED BY <2>4, <3>3, AiNullAssumption
  <2> HIDE DEF r
  <2>6. Holds(request[h], r) /\ r = request[h].id BY <1>b DEF r
  <2> QED BY <1>b, <1>c, <2>1, <2>2, <2>3, <2>4, <2>5, <2>6, MarkEntries
<1> QED BY <1>1, <1>2, <1>3

(* What was begun goes on to its answer, or was cut short. *)
LEMMA EndEntries ==
  ASSUME EntriesInv, AnswersInv', NEW h \in Handlers,
         UpdateAiDraft(h) \/ Throws(h) \/ CutShort(h)
  PROVE  EntriesInv'
<1>0. AiTyped BY DEF EntriesInv, AnswersInv
<1> DEFINE l == request[h]
<1>1. UNCHANGED <<usage, ai_request>> /\ (~crowded' => ~crowded)
  <2>1. UpdateAiDraft(h) \/ Throws(h) => UNCHANGED <<usage, ai_request, crowded>>
    BY DEF UpdateAiDraft, Throws
  <2>2. CutShort(h) => UNCHANGED <<usage, ai_request>> /\ crowded' = (crowded \/ ForAi(h))
    BY DEF CutShort
  <2>3. crowded \in BOOLEAN BY <1>0 DEF AiTyped, AiTypeOK
  <2>4. ASSUME CutShort(h), ~crowded' PROVE ~crowded
    <3>1. crowded' = (crowded \/ ForAi(h)) BY <2>2, <2>4
    <3> QED BY <2>4, <3>1
  <2> QED BY <2>1, <2>2, <2>3, <2>4
<1>2. ASSUME NEW m, MovesTo(h, m), m.pc \in {"idle", "final", "catch"},
             ~crowded' => /\ ForAiLocal(m) => ForAiLocal(l)
                          /\ \A r \in AiRequests : Holds(l, r) => Holds(m, r)
      PROVE  EntriesInv'
  <2>1. EntryOK(m, ai_request, usage) /\ m.pc \notin {"provider", "usage"}
    BY <1>2 DEF EntryOK, Charging
  <2> QED BY <1>1, <1>2, <2>1, EntriesSameRows
<1>3. CASE UpdateAiDraft(h)
  <2>1. PICK m : /\ MovesTo(h, m)
                 /\ \/ m = Idle /\ l.kind = "manual"
                    \/ FinalLocal(m) /\ m.id = l.id /\ m.kind = l.kind
    BY <1>0, <1>3, EndMoves
  <2>2. WritingLocal(l) BY <1>0, <1>3, EndMoves
  <2>3. CASE m = Idle /\ l.kind = "manual"
    <3>1. \A r \in AiRequests : ~Holds(l, r) BY <1>0, <2>3, NotForAi DEF AiTyped, ForAiLocal
    <3>2. m.pc = "idle" /\ ~ForAiLocal(m) BY <2>3 DEF Idle, ForAiLocal
    <3> QED BY <1>2, <2>1, <3>1, <3>2
  <2>4. CASE FinalLocal(m) /\ m.id = l.id /\ m.kind = l.kind
    <3>1. \A r \in AiRequests : Holds(l, r) => Holds(m, r) BY <2>4 DEF FinalLocal, Holds
    <3>2. m.pc = "final" /\ ForAiLocal(l)
      BY <2>2, <2>4 DEF FinalLocal, WritingLocal, ForAiLocal
    <3> QED BY <1>2, <2>1, <3>1, <3>2
  <2> QED BY <2>1, <2>3, <2>4
<1>4. CASE Throws(h)
  <2>1. PICK m : MovesTo(h, m) /\ CatchLocal(m) /\ m.id = l.id BY <1>0, <1>4, EndMoves
  <2>2. \A r \in AiRequests : Holds(l, r) => Holds(m, r) BY <2>1 DEF CatchLocal, Holds
  <2>3. m.pc = "catch" BY <2>1 DEF CatchLocal
  <2>4. ForAiLocal(l) BY <1>4 DEF Throws, InTryBlock, At, ForAiLocal
  <2> QED BY <1>2, <2>1, <2>2, <2>3, <2>4
<1>5. CASE CutShort(h)
  <2>1. MovesTo(h, Idle) /\ Idle.pc = "idle" BY <1>0, <1>5, EndMoves DEF Idle
  <2>2. ~crowded' => ~ForAiLocal(l) BY <1>5 DEF CutShort, ForAi, ForAiLocal
  <2>3. ~crowded' => \A r \in AiRequests : ~Holds(l, r) BY <1>0, <2>2, NotForAi DEF AiTyped
  <2>4. ~ForAiLocal(Idle) BY <2>1 DEF ForAiLocal
  <2> QED BY <1>2, <2>1, <2>3, <2>4
<1> QED BY <1>3, <1>4, <1>5

(* The one who steps is the only one for the AI, so that nothing that the  *)
(* others rely on can be disturbed.                                        *)
LEMMA AloneEntries ==
  ASSUME EntriesInv, ~crowded, NEW h \in Handlers, ForAiLocal(request[h]), NEW m, MovesTo(h, m),
         NEW rs, NEW charged, EntryOK(m, rs, charged)
  PROVE  /\ \A g, f \in Handlers : ForAiLocal(request'[g]) /\ ForAiLocal(request'[f]) => g = f
         /\ \A g \in Handlers : EntryOK(request'[g], rs, charged)
<1>1. \A g \in Handlers : request'[g] = IF g = h THEN m ELSE request[g] BY DEF MovesTo
<1>2. \A g \in Handlers \ {h} : ~ForAiLocal(request[g]) BY DEF EntriesInv, EntriesOK
<1>3. \A g \in Handlers : AiLocal(request[g]) BY DEF EntriesInv, AnswersInv, AiTyped
<1>4. \A g \in Handlers \ {h} : EntryOK(request[g], rs, charged) BY <1>2, <1>3, NotForAi
<1> QED BY <1>1, <1>2, <1>4

(* An AI request is stored: a message under a key nobody has used, and     *)
(* when what was charged so far is within the budget.                      *)
LEMMA CreateEntries ==
  ASSUME EntriesInv, AnswersInv', NEW h \in Handlers, NEW r \in AiRequests,
         NEW questions \in SUBSET Fields, CreateAiRequest(h, r, questions)
  PROVE  EntriesInv'
<1>0. AiTyped BY DEF EntriesInv, AnswersInv
<1> DEFINE l == request[h]
           row == [kind |-> l.kind, key |-> l.key, status |-> "queued", final |-> None]
<1>1. EnteringLocal(l) /\ l.pc = "create"
  BY <1>0, EnterMoves DEF CreateAiRequest, At
<1>2. PICK m : MovesTo(h, m) /\ PromptLocal(m) /\ m.pc = "provider" /\ m.id = r /\ m.kind = l.kind
  BY <1>0, EnterMoves
<1>3. /\ ai_request' = [ai_request EXCEPT ![r] = row] /\ ai_request[r] = None
      /\ UNCHANGED <<usage, crowded>>
  BY DEF CreateAiRequest
<1>4. row # None /\ row.kind = l.kind /\ row.key = l.key
  <2>1. row \in AiRequestRows BY <1>1 DEF EnteringLocal, AiRequestRows
  <2> QED BY <2>1, AiNullAssumption
<1> HIDE DEF row
<1>5. ai_request'[r] = row /\ \A s \in AiRequests \ {r} : ai_request'[s] = ai_request[s]
  BY <1>0, <1>3 DEF AiTyped, AiTypeOK
<1>6. \E n \in Nat : \A s \in AiRequests : ai_request'[s] # None => s <= n
  <2>1. PICK n \in Nat : \A s \in AiRequests : ai_request[s] # None => s <= n BY DEF EntriesInv
  <2>2. r \in Nat BY AiAssumption
  <2>3. CASE r <= n BY <1>5, <2>1, <2>3
  <2>4. CASE ~(r <= n)
    <3>1. \A s \in AiRequests : ai_request'[s] # None => s <= r
      BY <1>5, <2>1, <2>2, <2>4, AiAssumption
    <3> QED BY <2>2, <3>1
  <2> QED BY <2>3, <2>4
<1>7. r \notin usage /\ \A s \in usage' : ai_request'[s] # None
  BY <1>0, <1>3, <1>4, <1>5 DEF EntriesInv, AiTyped, AiTypeOK
<1>8. ASSUME NEW g \in Handlers, request'[g].pc \in {"provider", "usage"}
      PROVE  ai_request'[request'[g].id].kind = request'[g].kind
  <2>1. CASE g = h BY <1>2, <1>4, <1>5, <2>1 DEF MovesTo
  <2>2. CASE g # h
    <3>1. request'[g] = request[g] BY <1>2, <2>2 DEF MovesTo
    <3>2. PromptLocal(request[g]) BY <1>0, <1>8, <3>1, AiLocalsByStep DEF AiTyped
    <3>3. /\ request[g].id \in AiRequests /\ Holds(request[g], request[g].id)
      BY <1>8, <3>1, <3>2 DEF PromptLocal, OwnerOf, Holds
    <3>4. ai_request[request[g].id] \in AiRequestRows
      BY <3>3 DEF EntriesInv, AnswersInv, AnswersOK, AiLocalOK
    <3>5. request[g].id # r BY <1>3, <3>4, AiNullAssumption
    <3>6. ai_request[request[g].id].kind = request[g].kind
      BY <1>8, <3>1 DEF EntriesInv
    <3> QED BY <1>5, <3>1, <3>3, <3>5, <3>6
  <2> QED BY <2>1, <2>2
<1>9. ASSUME ~crowded' PROVE EntriesOK'
  <2>0. EntriesOK /\ ~crowded BY <1>3, <1>9 DEF EntriesInv
  <2>1. usage \cap MessagesOf(ai_request') = usage \cap MessagesOf(ai_request)
    BY <1>0, <1>5, <1>7 DEF MessagesOf, AiTyped, AiTypeOK
  <2>2. EntryOK(l, ai_request, usage) BY <2>0 DEF EntriesOK
  <2>3. EntryOK(m, ai_request', usage')
    BY <1>1, <1>2, <1>3, <2>1, <2>2 DEF EntryOK, Charging
  <2>4. ForAiLocal(l) BY <1>1 DEF EnteringLocal, ForAiLocal
  <2>5. /\ \A g, f \in Handlers : ForAiLocal(request'[g]) /\ ForAiLocal(request'[f]) => g = f
        /\ \A g \in Handlers : EntryOK(request'[g], ai_request', usage')
    BY <1>2, <2>0, <2>3, <2>4, AloneEntries
  <2>6. ASSUME NEW s \in AiRequests, ai_request'[s] # None, ai_request'[s].final = None
        PROVE  \E g \in Handlers : Holds(request'[g], s)
    <3>1. CASE s = r BY <1>2, <3>1 DEF MovesTo, PromptLocal, Holds
    <3>2. CASE s # r
      <4>1. PICK g \in Handlers : Holds(request[g], s) BY <1>5, <2>0, <2>6, <3>2 DEF EntriesOK
      <4>2. g # h BY <1>1, <4>1 DEF EnteringLocal, Holds
      <4> QED BY <1>2, <4>1, <4>2 DEF MovesTo
    <3> QED BY <3>1, <3>2
  <2>7. Cardinality(usage' \cap MessagesOf(ai_request')) <= Budget
    BY <1>3, <2>0, <2>1 DEF EntriesOK
  <2>8. ASSUME NEW key \in AiKeys \ {None},
               NEW s \in Keyed(ai_request', key) \cap MessagesOf(ai_request'),
               NEW t \in Keyed(ai_request', key) \cap MessagesOf(ai_request')
        PROVE  s = t
    <3>1. \A u \in AiRequests \ {r} :
            /\ u \in Keyed(ai_request', key) => u \in Keyed(ai_request, key)
            /\ u \in MessagesOf(ai_request') => u \in MessagesOf(ai_request)
      BY <1>5 DEF Keyed, MessagesOf
    <3>2. CASE s # r /\ t # r
      <4>1. s \in Keyed(ai_request, key) \cap MessagesOf(ai_request)
            /\ t \in Keyed(ai_request, key) \cap MessagesOf(ai_request)
        BY <3>1, <3>2 DEF Keyed
      <4> QED BY <2>0, <4>1 DEF EntriesOK
    <3>3. CASE s = r \/ t = r
      <4>1. row.kind = "message" /\ row.key = key BY <1>5, <3>3 DEF Keyed, MessagesOf
      <4>2. Keyed(ai_request, key) = {} BY <1>1, <1>4, <2>2, <4>1 DEF EntryOK
      <4>3. s = r /\ t = r BY <3>1, <4>2 DEF Keyed
      <4> QED BY <4>3
    <3> QED BY <3>2, <3>3
  <2> QED BY <2>5, <2>6, <2>7, <2>8 DEF EntriesOK
<1>10. IsFiniteSet(usage') BY <1>3 DEF EntriesInv
<1> QED BY <1>6, <1>7, <1>8, <1>9, <1>10 DEF EntriesInv

(* recordUsage: a message is charged while the budget still has room.      *)
LEMMA UsageEntries ==
  ASSUME EntriesInv, AnswersInv', NEW h \in Handlers, RecordUsage(h)
  PROVE  EntriesInv'
<1>0. AiTyped /\ AnswersInv BY DEF EntriesInv, AnswersInv
<1> DEFINE l == request[h]
           r == l.id
           charged == usage \cap MessagesOf(ai_request)
<1>1. /\ PromptLocal(l) /\ l.pc = "usage" /\ r \in AiRequests /\ l.kind \in {"message", "patch"}
      /\ Holds(l, r) /\ ai_request[r] \in AiRequestRows /\ ai_request[r].kind = l.kind
  <2>1. PromptLocal(l) /\ r \in AiRequests /\ l.kind \in {"message", "patch"} BY <1>0, PromptMoves
  <2>2. l.pc = "usage" BY DEF RecordUsage, At
  <2>3. Holds(l, r) /\ ai_request[r] \in AiRequestRows BY <1>0, <2>1, WhatHolds
  <2>4. ai_request[r].kind = l.kind BY <2>2 DEF EntriesInv
  <2> QED BY <2>1, <2>2, <2>3, <2>4
<1>2. PICK m : MovesTo(h, m) /\ PromptLocal(m) /\ m.id = r /\ m.kind = l.kind /\ m.pc = "draft"
  <2>1. ~ProviderAnswers(h) BY <1>1 DEF ProviderAnswers, At
  <2> QED BY <1>0, <2>1, PromptMoves
<1>3. usage' = usage \cup {r} /\ UNCHANGED <<ai_request, crowded>> BY DEF RecordUsage
<1>4. IsFiniteSet(usage') BY <1>3, FS_AddElement DEF EntriesInv
<1>5. \A s \in usage' : ai_request'[s] # None
  BY <1>1, <1>3, AiNullAssumption DEF EntriesInv
<1>6. ASSUME NEW g \in Handlers, request'[g].pc \in {"provider", "usage"}
      PROVE  ai_request'[request'[g].id].kind = request'[g].kind
  <2>1. g # h /\ request'[g] = request[g] BY <1>2, <1>6 DEF MovesTo
  <2> QED BY <1>3, <1>6, <2>1 DEF EntriesInv
<1>7. ASSUME ~crowded' PROVE EntriesOK'
  <2>0. EntriesOK /\ ~crowded BY <1>3, <1>7 DEF EntriesInv
  <2>1. EntryOK(m, ai_request', usage') BY <1>2 DEF EntryOK, Charging
  <2>2. ForAiLocal(l) BY <1>1 DEF ForAiLocal
  <2>3. /\ \A g, f \in Handlers : ForAiLocal(request'[g]) /\ ForAiLocal(request'[f]) => g = f
        /\ \A g \in Handlers : EntryOK(request'[g], ai_request', usage')
    BY <1>2, <2>0, <2>1, <2>2, AloneEntries
  <2>4. ASSUME NEW s \in AiRequests, ai_request'[s] # None, ai_request'[s].final = None
        PROVE  \E g \in Handlers : Holds(request'[g], s)
    <3>1. PICK g \in Handlers : Holds(request[g], s) BY <1>3, <2>0, <2>4 DEF EntriesOK
    <3>2. CASE g = h BY <1>2, <3>1, <3>2 DEF MovesTo, PromptLocal, Holds
    <3>3. CASE g # h BY <1>2, <3>1, <3>3 DEF MovesTo
    <3> QED BY <3>2, <3>3
  <2>5. Cardinality(usage' \cap MessagesOf(ai_request')) <= Budget
    <3>1. IsFiniteSet(charged) /\ Cardinality(charged) \in Nat /\ Cardinality(charged) <= Budget
      <4>1. IsFiniteSet(charged) BY FS_Subset DEF EntriesInv
      <4> QED BY <2>0, <4>1, FS_CardinalityType DEF EntriesOK
    <3>2. CASE l.kind = "patch"
      <4>1. r \notin MessagesOf(ai_request) BY <1>1, <3>2 DEF MessagesOf
      <4>2. usage' \cap MessagesOf(ai_request') = charged BY <1>3, <4>1
      <4> QED BY <3>1, <4>2
    <3>3. CASE l.kind = "message"
      <4>1. usage' \cap MessagesOf(ai_request') = charged \cup {r}
        BY <1>1, <1>3, <3>3, AiNullAssumption DEF MessagesOf
      <4>2. Cardinality(charged) < Budget
        BY <1>1, <2>0, <3>3 DEF EntriesOK, EntryOK, Charging
      <4> HIDE DEF charged
      <4>3. Cardinality(charged \cup {r}) = IF r \in charged THEN Cardinality(charged)
                                                             ELSE Cardinality(charged) + 1
        BY <3>1, FS_AddElement
      <4> QED BY <3>1, <4>1, <4>2, <4>3, AiAssumption
    <3> QED BY <1>1, <3>2, <3>3
  <2>6. \A key \in AiKeys \ {None} :
          \A s, t \in Keyed(ai_request', key) \cap MessagesOf(ai_request') : s = t
    BY <1>3, <2>0 DEF EntriesOK
  <2> QED BY <2>3, <2>4, <2>5, <2>6 DEF EntriesOK
<1>8. \E n \in Nat : \A s \in AiRequests : ai_request'[s] # None => s <= n
  BY <1>3 DEF EntriesInv
<1> QED BY <1>4, <1>5, <1>6, <1>7, <1>8 DEF EntriesInv

(* Every handler's step keeps the invariant of the entries. *)
LEMMA StepEntries == ASSUME EntriesInv, NEW h \in Handlers, StepOf(h) PROVE EntriesInv'
<1>1. AnswersInv' BY StepAnswers DEF EntriesInv
<1>2. CASE \E key \in AiKeys : SendPatch(h, key) \/ \E own \in {None, Fields} : SendMessage(h, key, own)
  BY <1>1, <1>2, SendEntries
<1>3. CASE LookUpKey(h) BY <1>1, <1>3, LookUpEntries
<1>4. CASE UpdateContext(h) BY <1>1, <1>4, ContextEntries
<1>5. CASE \E r \in AiRequests, questions \in SUBSET Fields : CreateAiRequest(h, r, questions)
  BY <1>1, <1>5, CreateEntries
<1>6. CASE BlockMessage(h) \/ ProviderAnswers(h) \/ MarkError(h) \/ RecordFinalResponse(h)
  BY <1>1, <1>6, MarkedEntries
<1>7. CASE RecordUsage(h) BY <1>1, <1>7, UsageEntries
<1>8. CASE \/ \E linked \in BOOLEAN : CreateManualDraft(h, linked)
           \/ \E d \in WorkflowDrafts, answers, questions \in SUBSET Fields :
                UpdateDraftInputs(h, d, answers, questions)
  BY <1>1, <1>8, ManualEntries
<1>9. CASE \/ \E d \in WorkflowDrafts : InsertAiDraft(h, d)
           \/ DrawNumber(h) \/ InsertAiVersion(h) \/ DeleteMissing(h)
           \/ \E field \in Fields : InsertMissing(h, field)
  BY <1>1, <1>9, WriteEntries
<1>10. CASE UpdateAiDraft(h) \/ Throws(h) \/ CutShort(h) BY <1>1, <1>10, EndEntries
<1> QED BY <1>2, <1>3, <1>4, <1>5, <1>6, <1>7, <1>8, <1>9, <1>10 DEF StepOf

(* No key is used and nothing is charged at first. *)
LEMMA InitEntries == AiInit => EntriesInv
<1> SUFFICES ASSUME AiInit PROVE EntriesInv
  OBVIOUS
<1>1. \A r \in AiRequests : ai_request[r] = None BY DEF AiInit
<1>2. usage = {} /\ IsFiniteSet({}) /\ Cardinality({}) = 0 BY FS_EmptySet DEF AiInit
<1>3. \A h \in Handlers : request[h].pc = "idle" BY DEF AiInit, RequestsInit, Idle
<1>4. Cardinality(usage \cap MessagesOf(ai_request)) <= Budget
  <2>1. usage \cap MessagesOf(ai_request) = {} BY <1>2
  <2> QED BY <1>2, <2>1, AiAssumption
<1>5. \A key : Keyed(ai_request, key) = {} BY <1>1 DEF Keyed
<1>6. EntriesOK
  BY <1>1, <1>3, <1>4, <1>5 DEF EntriesOK, EntryOK, Charging, ForAiLocal
<1> QED BY <1>1, <1>2, <1>3, <1>6, InitAnswers DEF EntriesInv

(* A stuttering step changes nothing the entry checks rely on. *)
LEMMA EntriesStutter == EntriesInv /\ UNCHANGED aiVars => EntriesInv'
<1> SUFFICES ASSUME EntriesInv, UNCHANGED aiVars PROVE EntriesInv'
  OBVIOUS
<1>1. AnswersInv' BY AnswersStutter DEF EntriesInv
<1>2. crowded' = crowded /\ request' = request /\ ai_request' = ai_request /\ usage' = usage
  BY DEF aiVars, aiTables
<1>3. EntriesOK => EntriesOK' BY <1>2 DEF EntriesOK
<1> QED BY <1>1, <1>2, <1>3 DEF EntriesInv

(* The strengthened invariant holds in every reachable state.              *)
THEOREM EntriesInvariant == AiSpec => []EntriesInv
<1>1. EntriesInv /\ [AiNext]_aiVars => EntriesInv' BY EntriesStutter, AiNextByHandler, StepEntries
<1> QED BY <1>1, InitEntries, PTL DEF AiSpec

(* One request per key, and a charge for each message within the budget.   *)
LEMMA EntriesEnough == EntriesInv => EntryChecksHold
<1> SUFFICES ASSUME EntriesInv, ~crowded
             PROVE  /\ Cardinality(usage \cap MessagesOf(ai_request)) <= Budget
                    /\ \A key \in AiKeys \ {None} :
                         Cardinality(Keyed(ai_request, key) \cap MessagesOf(ai_request)) <= 1
  BY KeyedIs DEF EntryChecksHold, MessagesOf
<1>1. EntriesOK BY DEF EntriesInv
<1>2. ASSUME NEW S, \A r, s \in S : r = s PROVE Cardinality(S) <= 1
  <2>1. CASE S = {} BY <2>1, FS_EmptySet
  <2>2. CASE S # {}
    <3>1. PICK x : S = {x} BY <1>2, <2>2
    <3>2. Cardinality({x}) = 1 BY FS_Singleton
    <3> QED BY <3>1, <3>2
  <2> QED BY <2>1, <2>2
<1> QED BY <1>1, <1>2 DEF EntriesOK

(* While messages and patches follow each other, sendMessage's own checks  *)
(* are enough: what was charged for messages stays within the budget, and  *)
(* a message sent twice under one key is one AI request.                   *)
THEOREM ChecksAreEnough == AiSpec => []EntryChecksHold
BY EntriesEnough, EntriesInvariant, PTL
===============================================================================
