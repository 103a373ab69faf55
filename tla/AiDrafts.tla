------------------------------- MODULE AiDrafts -------------------------------
(* One session of AiGatewayService.  A message or a patch instruction      *)
(* becomes an AI request, the provider is called, and the workflow that    *)
(* comes of it is kept as a version of a draft (persistDraftVersion).      *)
(* Users also store drafts of their own, and answer the questions a draft  *)
(* leaves open, which adds a version to it.                                *)
EXTENDS Requests, Naturals, Sequences, FiniteSets

CONSTANTS AiRequests,    \* ids of AI requests, in the order of created_at
          WorkflowDrafts, \* ids of drafts
          AiKeys,        \* idempotency keys, None for a request without one
          Fields,        \* what a workflow may ask for: documents, a template, a profile
          Budget,        \* how many requests the monthly budget pays for
          MaxAiVersions  \* bound on the versions of a draft

ASSUME AiAssumption == AiRequests \subseteq Nat /\ Budget \in Nat /\ MaxAiVersions \in Nat

VARIABLES selected,    \* ai_chat_sessions: what is selected in the session
          ai_request,  \* ai_requests, and the last 'final_response' of ai_request_events
          usage,       \* ai_cost_usage: the requests that were charged
          ai_draft,    \* workflow_drafts and workflow_draft_missing_fields
          ai_version,  \* workflow_draft_versions by draft, in the order of version_no
          crowded,     \* history: AI requests overlapped or one was cut short
          disturbed    \* history: drafts that requests wrote at once or left half written

aiTables == <<selected, ai_request, usage, ai_draft, ai_version, crowded, disturbed>>
aiVars == <<aiTables, request>>

FinalResponses == [kind : {"ready", "clarification_required"}, draft : WorkflowDrafts]
                    \cup [kind : {"error", "blocked_by_policy"}, draft : {None}]
AiRequestRows == [kind : {"message", "patch"}, key : AiKeys,
                  status : {"queued", "completed", "blocked", "error"},
                  final : {None} \cup FinalResponses]
DraftStatuses == {"ready_for_review", "clarification_required", "validation_failed", "saved"}
AiDraftRows == [status : DraftStatuses,
                current : 0 .. MaxAiVersions, missing : SUBSET Fields, linked : BOOLEAN]
AiVersionRows == [questions : SUBSET Fields, ai_request : AiRequests \cup {None},
                  valid : BOOLEAN]  \* do its validation and policy reports say so?

ASSUME AiNullAssumption ==
  None \notin AiRequests \cup WorkflowDrafts \cup FinalResponses \cup AiRequestRows \cup AiDraftRows

AiInit ==
  /\ RequestsInit
  /\ selected = {}
  /\ ai_request = [r \in AiRequests |-> None]
  /\ usage = {}
  /\ ai_draft = [d \in WorkflowDrafts |-> None]
  /\ ai_version = [d \in WorkflowDrafts |-> <<>>]
  /\ crowded = FALSE /\ disturbed = {}

(* A request learns the values of some more local variables.               *)
With(h, locals) ==
  Goto(h, [name \in DOMAIN locals \cup DOMAIN request[h] |->
             IF name \in DOMAIN locals THEN locals[name] ELSE request[h][name]])

-----------------------------------------------------------------------------
(* Histories.  A request is on a draft from its 'max(version_no)' to its   *)
(* last statement about it.                                                *)
OnDraft(h, d) == /\ request[h].pc \in {"number", "version", "clear", "ask"}
                 /\ request[h].draft = d
ForAi(h) == request[h].pc # "idle" /\ request[h].kind # "manual"
NoteAi(h) == crowded' = (crowded \/ \E other \in Handlers \ {h} : ForAi(other))
NoteDraft(h, d) ==
  disturbed' = IF \E other \in Handlers \ {h} : OnDraft(other, d) THEN disturbed \cup {d}
                                                                  ELSE disturbed
NoteLeft(h) == disturbed' = disturbed \cup {d \in WorkflowDrafts : OnDraft(h, d)}

-----------------------------------------------------------------------------
(* sendMessage: the budget, then the session; a message keeps what is      *)
(* selected there or brings a selection of its own, a complete one here.   *)
SendMessage(h, key, own) ==
  /\ At(h, "idle")
  /\ Cardinality(usage) < Budget
  /\ Goto(h, [pc |-> "lookup", kind |-> "message", key |-> key,
              selected |-> IF own = None THEN selected ELSE own])
  /\ NoteAi(h)
  /\ UNCHANGED <<selected, ai_request, usage, ai_draft, ai_version, disturbed>>

(* createWorkflowPatch asks neither for the budget nor for the key, and    *)
(* leaves the session as it is.                                            *)
SendPatch(h, key) ==
  /\ At(h, "idle")
  /\ Goto(h, [pc |-> "create", kind |-> "patch", key |-> key, selected |-> Fields])
  /\ NoteAi(h)
  /\ UNCHANGED <<selected, ai_request, usage, ai_draft, ai_version, disturbed>>

(* findIdempotentResponse: the response of the last request with the key.  *)
WithKey(key) == {r \in AiRequests : ai_request[r] # None /\ ai_request[r].key = key}
LastWithKey(key) == CHOOSE r \in WithKey(key) : \A other \in WithKey(key) : other <= r

(* Faulty: only a completed request counts.                                *)
CompletedWithKey(key) == /\ key # None /\ WithKey(key) # {}
                         /\ ai_request[LastWithKey(key)].status = "completed"

AnsweredWithKey(key) == /\ key # None /\ WithKey(key) # {}
                        /\ ai_request[LastWithKey(key)].final # None

LookUpKey(h) ==
  /\ At(h, "lookup")
  /\ IF AnsweredWithKey(request[h].key) THEN Return(h) ELSE Proceed(h, "context")
  /\ UNCHANGED aiTables

UpdateContext(h) ==
  /\ At(h, "context")
  /\ selected' = request[h].selected
  /\ IF request[h].kind = "manual"
     THEN Proceed(h, "number") /\ NoteDraft(h, request[h].draft)
     ELSE Proceed(h, "create") /\ UNCHANGED disturbed
  /\ UNCHANGED <<ai_request, usage, ai_draft, ai_version, crowded>>

(* createAiRequest.  Which of the fields that are not selected the message *)
(* calls for depends on its words and its mode.                            *)
CreateAiRequest(h, r, questions) ==
  /\ At(h, "create")
  /\ ai_request[r] = None /\ \A s \in AiRequests : s < r => ai_request[s] # None
  /\ questions \subseteq Fields \ request[h].selected
  /\ ai_request' = [ai_request EXCEPT ![r] =
       [kind |-> request[h].kind, key |-> request[h].key, status |-> "queued",
        final |-> None]]
  /\ Goto(h, [pc |-> "provider", kind |-> request[h].kind, id |-> r, linked |-> TRUE,
              questions |-> questions])
  /\ UNCHANGED <<selected, usage, ai_draft, ai_version, crowded, disturbed>>

(* completeAiRequest: the policy blocks a message, or the provider has     *)
(* answered, which is charged next (recordUsage).                          *)
Complete(h, status) ==
  /\ ai_request' = [ai_request EXCEPT ![request[h].id].status = status]
  /\ UNCHANGED <<selected, usage, ai_draft, ai_version, crowded, disturbed>>
Conclude(h, kind, final, d) ==
  Goto(h, [pc |-> "final", kind |-> kind, id |-> request[h].id,
           final |-> [kind |-> final, draft |-> d]])

BlockMessage(h) ==
  /\ At(h, "provider") /\ request[h].kind = "message"
  /\ Complete(h, "blocked")
  /\ Conclude(h, "blocked", "blocked_by_policy", None)

ProviderAnswers(h) == At(h, "provider") /\ Complete(h, "completed") /\ Proceed(h, "usage")

RecordUsage(h) ==
  /\ At(h, "usage")
  /\ usage' = usage \cup {request[h].id}
  /\ Proceed(h, "draft")
  /\ UNCHANGED <<selected, ai_request, ai_draft, ai_version, crowded, disturbed>>

-----------------------------------------------------------------------------
(* The reports on a workflow, both valid or not: a question that is open   *)
(* is an error of the report (withClarificationIssues).                    *)
Verdicts(questions) == IF questions = {} THEN BOOLEAN ELSE {FALSE}

(* resolveDraftStatus, and what createDraft passes instead.                *)
StatusFor(questions, valid) ==
  CASE questions # {} -> "clarification_required"
    [] questions = {} /\ ~valid -> "validation_failed"
    [] OTHER -> "ready_for_review"
SavedAs(valid) == IF valid THEN "saved" ELSE "validation_failed"

(* createDraft stores a workflow somebody made, with or without a session; *)
(* updateDraftInputs adds answers to the session of a draft and builds its *)
(* workflow anew.                                                          *)
CreateManualDraft(h, linked) ==
  /\ At(h, "idle")
  /\ Goto(h, [pc |-> "draft", kind |-> "manual", id |-> None, linked |-> linked,
              questions |-> {}])
  /\ UNCHANGED aiTables

UpdateDraftInputs(h, d, answers, questions) ==
  /\ At(h, "idle")
  /\ ai_draft[d] # None /\ ai_draft[d].linked
  /\ questions \subseteq Fields \ (selected \cup answers)
  /\ \E valid \in Verdicts(questions) :
       Goto(h, [pc |-> "context", kind |-> "manual", id |-> None, draft |-> d,
                selected |-> selected \cup answers, questions |-> questions,
                valid |-> valid, status |-> StatusFor(questions, valid)])
  /\ UNCHANGED aiTables

(* persistDraftVersion, statement by statement: a new draft, with the      *)
(* status its caller gives it,                                             *)
NewStatus(h, valid) ==
  IF request[h].kind = "manual" THEN SavedAs(valid) ELSE StatusFor(request[h].questions, valid)
InsertAiDraft(h, d) ==
  /\ At(h, "draft") /\ ai_draft[d] = None
  /\ \E valid \in Verdicts(request[h].questions) :
       /\ ai_draft' = [ai_draft EXCEPT ![d] =
            [status |-> NewStatus(h, valid), current |-> 0, missing |-> {},
             linked |-> request[h].linked]]
       /\ With(h, [pc |-> "number", draft |-> d, valid |-> valid,
                   status |-> NewStatus(h, valid)])
  /\ UNCHANGED <<selected, ai_request, usage, ai_version, crowded, disturbed>>

(* max(version_no) + 1,                                                    *)
DrawNumber(h) ==
  /\ At(h, "number")
  /\ With(h, [pc |-> "version", no |-> Len(ai_version[request[h].draft]) + 1])
  /\ UNCHANGED aiTables

(* which nobody else may have taken since,                                 *)
InsertAiVersion(h) ==
  LET d == request[h].draft
  IN /\ At(h, "version") /\ Len(ai_version[d]) < MaxAiVersions
     /\ request[h].no = Len(ai_version[d]) + 1
     /\ ai_version' = [ai_version EXCEPT ![d] =
          Append(@, [questions |-> request[h].questions, ai_request |-> request[h].id,
                     valid |-> request[h].valid])]
     /\ Proceed(h, "clear")
     /\ UNCHANGED <<selected, ai_request, usage, ai_draft, crowded, disturbed>>

(* the fields that are missing, one by one instead of the old ones,        *)
AskAll(h) == With(h, [pc |-> "ask", unasked |-> request[h].questions])

(* Faulty: the old ones stay.                                              *)
KeepMissing(h) == At(h, "clear") /\ AskAll(h) /\ UNCHANGED aiTables

DeleteMissing(h) ==
  /\ At(h, "clear")
  /\ ai_draft' = [ai_draft EXCEPT ![request[h].draft].missing = {}]
  /\ AskAll(h)
  /\ UNCHANGED <<selected, ai_request, usage, ai_version, crowded, disturbed>>

InsertMissing(h, field) ==
  /\ At(h, "ask") /\ field \in request[h].unasked
  /\ ai_draft' = [ai_draft EXCEPT ![request[h].draft].missing = @ \cup {field}]
  /\ Goto(h, [request[h] EXCEPT !.unasked = @ \ {field}])
  /\ UNCHANGED <<selected, ai_request, usage, ai_version, crowded, disturbed>>

(* and the draft's status and current version.                             *)
(* Faulty: the answer is judged by the session, not by the workflow.       *)
AnswerBySession(questions) ==
  IF selected = Fields THEN "ready" ELSE "clarification_required"
(* A message is answered by what is asked alone: a draft whose reports are *)
(* not valid is 'workflow_draft_ready' all the same.                       *)
AnswerFor(questions) == IF questions = {} THEN "ready" ELSE "clarification_required"

UpdateAiDraft(h) ==
  LET d == request[h].draft
  IN /\ At(h, "ask") /\ request[h].unasked = {}
     /\ ai_draft' = [ai_draft EXCEPT ![d].status = request[h].status,
                                     ![d].current = request[h].no]
     /\ IF request[h].kind = "manual"
        THEN Return(h)
        ELSE Conclude(h, request[h].kind, AnswerFor(request[h].questions), d)
     /\ UNCHANGED <<selected, ai_request, usage, ai_version, crowded, disturbed>>

-----------------------------------------------------------------------------
(* sendMessage catches whatever is thrown from the provider's call on,     *)
(* wherever the draft is by then.  A final response may be stored although *)
(* its statement is reported to have failed.                               *)
InTryBlock(h) == ~At(h, "idle") /\ request[h].kind = "message" /\ "id" \in DOMAIN request[h]
Catch(h) == Goto(h, [pc |-> "catch", kind |-> "caught", id |-> request[h].id])

Throws(h) ==
  /\ CanDie /\ InTryBlock(h)
  /\ Catch(h)
  /\ NoteLeft(h)
  /\ UNCHANGED <<selected, ai_request, usage, ai_draft, ai_version, crowded>>

MarkError(h) ==
  At(h, "catch") /\ Complete(h, "error") /\ Conclude(h, "caught", "error", None)

RecordFinalResponse(h) ==
  /\ At(h, "final")
  /\ ai_request' = [ai_request EXCEPT ![request[h].id].final = request[h].final]
  /\ Return(h) \/ (CanDie /\ InTryBlock(h) /\ Catch(h))
  /\ UNCHANGED <<selected, usage, ai_draft, ai_version, crowded, disturbed>>

(* Elsewhere the exception leaves the handler, which is then as good as    *)
(* one whose process died.                                                 *)
CutShort(h) ==
  /\ CanDie /\ ~At(h, "idle")
  /\ Return(h)
  /\ crowded' = (crowded \/ ForAi(h))
  /\ NoteLeft(h)
  /\ UNCHANGED <<selected, ai_request, usage, ai_draft, ai_version>>

(* Messages and patches with all that is done for them,                    *)
AiServes ==
  \/ \E h \in Handlers, key \in AiKeys :
       SendPatch(h, key) \/ \E own \in {None, Fields} : SendMessage(h, key, own)
  \/ \E h \in Handlers, r \in AiRequests, questions \in SUBSET Fields :
       CreateAiRequest(h, r, questions)
  \/ \E h \in Handlers, d \in WorkflowDrafts : InsertAiDraft(h, d)
  \/ \E h \in Handlers, field \in Fields : InsertMissing(h, field)
  \/ \E h \in Handlers :
       \/ LookUpKey(h) \/ UpdateContext(h) \/ BlockMessage(h) \/ ProviderAnswers(h)
       \/ RecordUsage(h) \/ DrawNumber(h) \/ InsertAiVersion(h) \/ DeleteMissing(h)
       \/ UpdateAiDraft(h) \/ MarkError(h) \/ RecordFinalResponse(h)

(* what people do with drafts themselves, and what may go wrong.           *)
PeopleWrite ==
  \E h \in Handlers :
    \/ \E linked \in BOOLEAN : CreateManualDraft(h, linked)
    \/ \E d \in WorkflowDrafts, answers, questions \in SUBSET Fields :
         UpdateDraftInputs(h, d, answers, questions)
AiFails == \E h \in Handlers : Throws(h) \/ CutShort(h)

AiNext == AiServes \/ PeopleWrite \/ AiFails

AiSpec == AiInit /\ [][AiNext]_aiVars

-----------------------------------------------------------------------------
AiTypeOK ==
  /\ selected \subseteq Fields /\ usage \subseteq AiRequests
  /\ ai_request \in [AiRequests -> {None} \cup AiRequestRows]
  /\ ai_draft \in [WorkflowDrafts -> {None} \cup AiDraftRows]
  /\ ai_version \in [WorkflowDrafts -> Seq(AiVersionRows)]
  /\ \A d \in WorkflowDrafts : Len(ai_version[d]) <= MaxAiVersions
  /\ crowded \in BOOLEAN /\ disturbed \subseteq WorkflowDrafts

(* Whatever a user was answered with is there: the draft has a version     *)
(* made for this request, which leaves questions open exactly if the       *)
(* answer says so, and the draft shows a version.  A message the policy    *)
(* blocked has made no draft.                                              *)
MadeFor(r, d) == {n \in DOMAIN ai_version[d] : ai_version[d][n].ai_request = r}
AnswersNameTheirDraft ==
  \A r \in AiRequests : ai_request[r] # None /\ ai_request[r].final # None =>
    LET final == ai_request[r].final IN
      /\ final.draft # None =>
           /\ ai_draft[final.draft].current > 0
           /\ \E n \in MadeFor(r, final.draft) :
                final.kind = "ready" <=> ai_version[final.draft][n].questions = {}
      /\ final.kind = "blocked_by_policy" =>
           \A d \in WorkflowDrafts : MadeFor(r, d) = {}

(* A draft nobody is writing shows its last version, asks for exactly what *)
(* that version leaves open, and its status tells of that version, whether *)
(* it asks and whether its reports are valid: unless two requests wrote it *)
(* at once or one left it half written.                                    *)
DraftsAgree ==
  \A d \in WorkflowDrafts :
    ai_draft[d] # None /\ d \notin disturbed /\ (\A h \in Handlers : ~OnDraft(h, d)) =>
      /\ ai_draft[d].current = Len(ai_version[d]) /\ ai_draft[d].current > 0
      /\ LET shown == ai_version[d][ai_draft[d].current]
             status == ai_draft[d].status
         IN /\ ai_draft[d].missing = shown.questions
            /\ status = "clarification_required" <=> ai_draft[d].missing # {}
            /\ status \in {"ready_for_review", "saved"} <=> shown.valid

(* Both checks of sendMessage are a statement of their own, so that they   *)
(* bind only requests that follow each other: then messages do not exceed  *)
(* the budget, and a message sent twice under one key is one request.      *)
EntryChecksHold ==
  ~crowded =>
    LET messages == {r \in AiRequests : /\ ai_request[r] # None
                                        /\ ai_request[r].kind = "message"}
    IN /\ Cardinality(usage \cap messages) <= Budget
       /\ \A key \in AiKeys \ {None} : Cardinality(WithKey(key) \cap messages) <= 1
=============================================================================
