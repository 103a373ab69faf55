------------------------------ MODULE MCServices ------------------------------
(* The safety of the services that have tables of their own: the live      *)
(* event outbox, the chat, the documents, the runtime sync, the canvas     *)
(* graph, the automation builder and the AI gateway.  As no step of one    *)
(* reads what another writes, a behaviour has one of them in focus and     *)
(* leaves the others as they began; the run explores all of them.  The AI  *)
(* gateway comes into focus twice, with requests that are cut short and    *)
(* with people who write drafts themselves.                                *)
EXTENDS LiveEvents, ChatThread, DocumentStore, RuntimeSync, WorkflowGraph,
        AutomationBuilder, AiDrafts, TLC

VARIABLE focus

tables == <<vars, chatTables, docTables, syncTables, graphTables, builderTables,
            aiTables>>

ServicesInit ==
  /\ focus \in {"live events", "chat", "documents", "sync", "graph", "builder",
               "ai requests", "ai drafts"}
  /\ Init /\ ChatInit /\ DocInit /\ SyncInit /\ GraphInit /\ BuilderInit /\ AiInit
  /\ focus # "builder" => intent.goal = CHOOSE goal \in Goals : TRUE
  /\ focus # "sync" => canvas.draft = CHOOSE source \in Sources : TRUE

(* What one service does while the others are out of focus.                *)
Alone(names, step, others) == focus \in names /\ step /\ UNCHANGED <<focus, others>>
(* Bound: of AI requests there is one where people write.                  *)
OneRequest == Cardinality({r \in AiRequests : ai_request[r] # None}) <= 1
AiOrPeople == \/ focus = "ai requests" /\ (AiServes \/ AiFails)
              \/ focus = "ai drafts" /\ (AiServes \/ PeopleWrite) /\ OneRequest'

ServicesNext ==
  \/ Alone({"live events"}, Next,
           <<chatTables, docTables, syncTables, graphTables, builderTables, aiTables, request>>)
  \/ Alone({"chat"}, ChatNext,
           <<vars, docTables, syncTables, graphTables, builderTables, aiTables>>)
  \/ Alone({"documents"}, DocNext,
           <<vars, chatTables, syncTables, graphTables, builderTables, aiTables>>)
  \/ Alone({"sync"}, SyncNext,
           <<vars, chatTables, docTables, graphTables, builderTables, aiTables>>)
  \/ Alone({"graph"}, GraphNext,
           <<vars, chatTables, docTables, syncTables, builderTables, aiTables, request>>)
  \/ Alone({"builder"}, BuilderNext,
           <<vars, chatTables, docTables, syncTables, graphTables, aiTables>>)
  \/ Alone({"ai requests", "ai drafts"}, AiOrPeople,
           <<vars, chatTables, docTables, syncTables, graphTables, builderTables>>)

ServicesSpec == ServicesInit /\ [][ServicesNext]_<<focus, request, tables>>

(* The types of every service.                                             *)
ServicesTypeOK == /\ TypeOK /\ ChatTypeOK /\ DocTypeOK
                  /\ SyncTypeOK /\ GraphTypeOK /\ BuilderTypeOK /\ AiTypeOK

(* The invariants of the graph are costly to evaluate and say nothing of   *)
(* the one graph the other services leave as it began.  The search finds   *)
(* exactly the cycles, and a workflow that may be published ends, is whole *)
(* and has its approvals;                                                  *)
GraphChecksAreRight == focus = "graph" => CycleCheckIsRight /\ PublishableIsSound
(* it can be compiled, approvals over data aside, and the compiled flow    *)
(* follows every connection.                                               *)
GraphsCompileInOrder == focus = "graph" => PublishableCompiles /\ CompiledInOrder

Symmetry == Permutations(Handlers) \cup Permutations(Sources)
              \cup Permutations(NodeIds \ {Start, Finish})
=============================================================================
