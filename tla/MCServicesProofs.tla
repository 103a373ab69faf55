--------------------------- MODULE MCServicesProofs ---------------------------
(***************************************************************************)
(* The services together: in every behaviour in which one of them is in    *)
(* focus all of them keep what they promise.  The service in focus takes   *)
(* the steps its own proofs are about and keeps its own invariant, which   *)
(* speaks of the requests too; of the others only the tables are left to   *)
(* speak of, and nobody touches those.                                     *)
(***************************************************************************)
EXTENDS MCServices, LiveEventsProofs, ServiceProofs, DraftingProofs, WorkflowGraphProofs

AiFoci == {"ai requests", "ai drafts"}
Unserved == {"live events", "graph"}

NoDrafts == \A d \in WorkflowDrafts : ai_draft[d] = None

(* The service in focus has its whole invariant, the others what it says   *)
(* of their tables.                                                        *)
ServicesInv ==
  /\ focus \in AiFoci \cup Unserved \cup {"chat", "documents", "sync", "builder"}
  /\ focus \in Unserved => \A h \in Handlers : At(h, "idle")
  /\ OutboxInv /\ GraphInv
  /\ IF focus = "chat" THEN ChatInv ELSE ChatTypeOK /\ SettledStreamIsWhole
  /\ IF focus = "documents" THEN DocInv ELSE DocTypeOK /\ ReadyIsTrue
  /\ IF focus = "sync" THEN SyncInv ELSE SyncTypeOK /\ StartedOncePerKey /\ RunsAreSynced
  /\ IF focus = "builder" THEN BuilderInv ELSE BuilderTypeOK /\ MadeOfApproved
  /\ IF focus \in AiFoci THEN DraftsInv /\ EntriesInv
     ELSE AiTypeOK /\ AnswersNameTheirDraft /\ EntryChecksHold /\ NoDrafts

-----------------------------------------------------------------------------
(* Each service has its own part of a step: it goes on if it is in focus,  *)
(* and else its tables stay.                                               *)
LEMMA StepOfServices ==
  ASSUME [ServicesNext]_<<focus, request, tables>>
  PROVE  /\ focus' = focus /\ [Next]_vars /\ [GraphNext]_graphTables
         /\ IF focus = "chat" THEN [ChatNext]_chatVars ELSE UNCHANGED chatTables
         /\ IF focus = "documents" THEN [DocNext]_docVars ELSE UNCHANGED docTables
         /\ IF focus = "sync" THEN [SyncNext]_syncVars ELSE UNCHANGED syncTables
         /\ IF focus = "builder" THEN [BuilderNext]_builderVars ELSE UNCHANGED builderTables
         /\ IF focus \in AiFoci THEN [AiNext]_aiVars ELSE UNCHANGED aiTables
         /\ focus \in Unserved => UNCHANGED request
<1>1. CASE UNCHANGED <<focus, request, tables>>
  BY <1>1 DEF tables, chatVars, docVars, syncVars, builderVars, aiVars
<1>2. CASE Alone({"live events"}, Next,
           <<chatTables, docTables, syncTables, graphTables, builderTables, aiTables, request>>)
  BY <1>2 DEF Alone, AiFoci
<1>3. CASE Alone({"chat"}, ChatNext,
           <<vars, docTables, syncTables, graphTables, builderTables, aiTables>>)
  BY <1>3 DEF Alone, AiFoci, Unserved
<1>4. CASE Alone({"documents"}, DocNext,
           <<vars, chatTables, syncTables, graphTables, builderTables, aiTables>>)
  BY <1>4 DEF Alone, AiFoci, Unserved
<1>5. CASE Alone({"sync"}, SyncNext,
           <<vars, chatTables, docTables, graphTables, builderTables, aiTables>>)
  BY <1>5 DEF Alone, AiFoci, Unserved
<1>6. CASE Alone({"graph"}, GraphNext,
           <<vars, chatTables, docTables, syncTables, builderTables, aiTables, request>>)
  BY <1>6 DEF Alone, AiFoci
<1>7. CASE Alone({"builder"}, BuilderNext,
           <<vars, chatTables, docTables, syncTables, graphTables, aiTables>>)
  BY <1>7 DEF Alone, AiFoci, Unserved
<1>8. CASE Alone({"ai requests", "ai drafts"}, AiOrPeople,
           <<vars, chatTables, docTables, syncTables, graphTables, builderTables>>)
  <2>1. AiOrPeople => AiNext BY DEF AiOrPeople, AiNext
  <2> QED BY <1>8, <2>1 DEF Alone, AiFoci, Unserved
<1> QED BY <1>1, <1>2, <1>3, <1>4, <1>5, <1>6, <1>7, <1>8 DEF ServicesNext

(* Every service begins with its invariant. *)
LEMMA ServicesStart == ServicesInit => ServicesInv
<1> SUFFICES ASSUME ServicesInit PROVE ServicesInv
  OBVIOUS
<1>1. OutboxInv /\ GraphInv BY InitOutbox, GraphStarts DEF ServicesInit
<1>2. ChatInv /\ DocInv /\ SyncInv /\ BuilderInv /\ DraftsInv /\ EntriesInv
  BY InitChat, InitDoc, InitSync, InitBuilder, InitDrafts, InitEntries DEF ServicesInit
<1>3. /\ ChatTypeOK /\ SettledStreamIsWhole /\ DocTypeOK /\ ReadyIsTrue
      /\ SyncTypeOK /\ StartedOncePerKey /\ RunsAreSynced
  BY <1>2 DEF ChatInv, DocInv, SyncInv
<1>4. BuilderTypeOK /\ MadeOfApproved BY <1>2, MadeWasApproved DEF BuilderInv
<1>5. AiTypeOK /\ AnswersNameTheirDraft /\ EntryChecksHold
  BY <1>2, AnswersNamed, EntriesEnough DEF DraftsInv, AnswersInv, AiTyped
<1>6. NoDrafts BY DEF ServicesInit, AiInit, NoDrafts
<1>7. \A h \in Handlers : At(h, "idle") BY DEF ServicesInit, ChatInit, RequestsInit, Idle, At
<1>8. focus \in AiFoci \cup Unserved \cup {"chat", "documents", "sync", "builder"}
  BY DEF ServicesInit, AiFoci, Unserved
<1> QED BY <1>1, <1>2, <1>3, <1>4, <1>5, <1>6, <1>7, <1>8 DEF ServicesInv

(* Tables that nobody touches stay as they are said to be. *)
LEMMA TablesStay ==
  /\ UNCHANGED chatTables /\ ChatTypeOK /\ SettledStreamIsWhole
       => ChatTypeOK' /\ SettledStreamIsWhole'
  /\ UNCHANGED docTables /\ DocTypeOK /\ ReadyIsTrue => DocTypeOK' /\ ReadyIsTrue'
  /\ UNCHANGED syncTables /\ SyncTypeOK /\ StartedOncePerKey /\ RunsAreSynced
       => SyncTypeOK' /\ StartedOncePerKey' /\ RunsAreSynced'
  /\ UNCHANGED builderTables /\ BuilderTypeOK /\ MadeOfApproved
       => BuilderTypeOK' /\ MadeOfApproved'
  /\ UNCHANGED aiTables /\ AiTypeOK /\ AnswersNameTheirDraft /\ EntryChecksHold
       => AiTypeOK' /\ AnswersNameTheirDraft' /\ EntryChecksHold'
<1>1. UNCHANGED chatTables /\ ChatTypeOK /\ SettledStreamIsWhole
        => ChatTypeOK' /\ SettledStreamIsWhole'
  BY DEF chatTables, ChatTypeOK, SettledStreamIsWhole
<1>2. UNCHANGED docTables /\ DocTypeOK /\ ReadyIsTrue => DocTypeOK' /\ ReadyIsTrue'
  BY DEF docTables, DocTypeOK, ReadyIsTrue, ReadyWasProcessed, CurrentIsShown
<1>3. UNCHANGED syncTables /\ SyncTypeOK /\ StartedOncePerKey /\ RunsAreSynced
        => SyncTypeOK' /\ StartedOncePerKey' /\ RunsAreSynced'
  BY DEF syncTables, SyncTypeOK, StartedOncePerKey, RunsAreSynced, UnsafeNeverRuns,
         RunsOnlySyncedVersions
<1>4. UNCHANGED builderTables /\ BuilderTypeOK /\ MadeOfApproved
        => BuilderTypeOK' /\ MadeOfApproved'
  BY DEF builderTables, BuilderTypeOK, MadeOfApproved
<1>5. UNCHANGED aiTables /\ AiTypeOK /\ AnswersNameTheirDraft /\ EntryChecksHold
        => AiTypeOK' /\ AnswersNameTheirDraft' /\ EntryChecksHold'
  <2> SUFFICES ASSUME UNCHANGED aiTables
               PROVE  /\ AiTypeOK => AiTypeOK'
                      /\ AnswersNameTheirDraft => AnswersNameTheirDraft'
                      /\ EntryChecksHold => EntryChecksHold'
    OBVIOUS
  <2>1. /\ selected' = selected /\ ai_request' = ai_request /\ usage' = usage
        /\ ai_draft' = ai_draft /\ ai_version' = ai_version /\ crowded' = crowded
        /\ disturbed' = disturbed
    BY DEF aiTables
  <2>2. AiTypeOK => AiTypeOK' BY <2>1 DEF AiTypeOK
  <2>3. AnswersNameTheirDraft => AnswersNameTheirDraft' BY <2>1 DEF AnswersNameTheirDraft, MadeFor
  <2>4. EntryChecksHold => EntryChecksHold' BY <2>1 DEF EntryChecksHold, WithKey
  <2> QED BY <2>2, <2>3, <2>4
<1> QED BY <1>1, <1>2, <1>3, <1>4, <1>5

(* The services keep all of this. *)
LEMMA ServicesKeep ==
  ASSUME ServicesInv, [ServicesNext]_<<focus, request, tables>> PROVE ServicesInv'
<1>1. focus' = focus /\ [Next]_vars /\ [GraphNext]_graphTables BY StepOfServices
<1>2. OutboxInv' /\ GraphInv' BY <1>1, StepOutbox, GraphKeeps DEF ServicesInv
<1>3. IF focus = "chat" THEN ChatInv' ELSE ChatTypeOK' /\ SettledStreamIsWhole'
  BY StepOfServices, StepChat, TablesStay DEF ServicesInv
<1>4. IF focus = "documents" THEN DocInv' ELSE DocTypeOK' /\ ReadyIsTrue'
  BY StepOfServices, StepDoc, TablesStay DEF ServicesInv
<1>5. IF focus = "sync" THEN SyncInv' ELSE SyncTypeOK' /\ StartedOncePerKey' /\ RunsAreSynced'
  BY StepOfServices, StepSync, TablesStay DEF ServicesInv
<1>6. IF focus = "builder" THEN BuilderInv' ELSE BuilderTypeOK' /\ MadeOfApproved'
  BY StepOfServices, StepBuilder, TablesStay DEF ServicesInv
<1>7. CASE focus \in AiFoci
  <2>1. DraftsInv /\ EntriesInv /\ [AiNext]_aiVars BY <1>7, StepOfServices DEF ServicesInv
  <2>2. DraftsInv' BY <2>1, DraftsStutter, AiNextByHandler, StepDrafts
  <2>3. EntriesInv' BY <2>1, EntriesStutter, AiNextByHandler, StepEntries
  <2>4. focus' \notin Unserved BY <1>1, <1>7 DEF AiFoci, Unserved
  <2> QED BY <1>1, <1>2, <1>3, <1>4, <1>5, <1>6, <1>7, <2>2, <2>3, <2>4 DEF ServicesInv
<1>8. CASE focus \notin AiFoci
  <2>1. UNCHANGED aiTables BY <1>8, StepOfServices
  <2>2. AiTypeOK' /\ AnswersNameTheirDraft' /\ EntryChecksHold'
    BY <1>8, <2>1, TablesStay DEF ServicesInv
  <2>3. NoDrafts' BY <1>8, <2>1 DEF ServicesInv, NoDrafts, aiTables
  <2>4. focus' \in Unserved => \A h \in Handlers : At(h, "idle")'
    <3>1. focus \in Unserved => request' = request BY StepOfServices
    <3> QED BY <1>1, <3>1 DEF ServicesInv, At
  <2> QED BY <1>1, <1>2, <1>3, <1>4, <1>5, <1>6, <1>8, <2>2, <2>3, <2>4 DEF ServicesInv
<1> QED BY <1>7, <1>8

(* It holds in every reachable state. *)
THEOREM ServicesInvariant == ServicesSpec => []ServicesInv
BY ServicesStart, ServicesKeep, PTL DEF ServicesSpec

(* A request that another service than the chat serves resumes no stream. *)
LEMMA ResumesForChat ==
  ASSUME ServicesInv, focus # "chat", NEW h \in Handlers PROVE ~At(h, "resumed")
<1>1. CASE focus \in Unserved BY <1>1 DEF ServicesInv, At
<1>2. CASE focus = "documents"
  <2>1. request[h] \in DocLocals BY <1>2 DEF ServicesInv, DocInv
  <2> QED BY <2>1 DEF At, DocLocals, Ended, InsertLocals, ContentLocals, VerifyLocals,
                      CurrentLocals, RestoreLocals
<1>3. CASE focus = "sync"
  <2>1. request[h] \in SyncLocals BY <1>3 DEF ServicesInv, SyncInv, RequestsOK
  <2> QED BY <2>1 DEF At, SyncLocals, Ended, SourceLocals, FlowLocals, PersistLocals, BindingLocals,
                      DriftLocals, RunInsertLocals
<1>4. CASE focus = "builder"
  <2>1. request[h] \in BuilderLocals BY <1>4 DEF ServicesInv, BuilderInv
  <2> QED BY <2>1 DEF At, BuilderLocals
<1>5. CASE focus \in AiFoci
  <2>1. AiLocal(request[h]) BY <1>5 DEF ServicesInv, EntriesInv, AnswersInv, AiTyped
  <2> QED BY <2>1 DEF At, AiLocal, Idle, EnteringLocal, RevisingLocal, PromptLocal, WritingLocal,
                      FinalLocal, CatchLocal
<1> QED BY <1>1, <1>2, <1>3, <1>4, <1>5 DEF ServicesInv

(* The types of every service, whichever of them is in focus. *)
THEOREM ServicesTypes == ServicesSpec => []ServicesTypeOK
<1>1. ServicesInv => ServicesTypeOK
  <2> SUFFICES ASSUME ServicesInv PROVE ServicesTypeOK
    OBVIOUS
  <2>1. TypeOK /\ GraphTypeOK BY DEF ServicesInv, OutboxInv, GraphInv
  <2>2. ChatTypeOK /\ DocTypeOK /\ SyncTypeOK BY DEF ServicesInv, ChatInv, DocInv, SyncInv
  <2>3. BuilderTypeOK BY DEF ServicesInv, BuilderInv
  <2>4. AiTypeOK BY DEF ServicesInv, DraftsInv, AnswersInv, AiTyped
  <2> QED BY <2>1, <2>2, <2>3, <2>4 DEF ServicesTypeOK
<1> QED BY <1>1, ServicesInvariant, PTL

(* hasUnsupportedCycle and the checks before publishing are right about    *)
(* every graph the operations on a canvas lead to.                         *)
THEOREM GraphChecksRight == ServicesSpec => []GraphChecksAreRight
<1>1. ServicesInv => GraphChecksAreRight
  BY CycleCheck, SoundGraph DEF ServicesInv, GraphChecksAreRight
<1> QED BY <1>1, ServicesInvariant, PTL

(* The order of WorkflowGraphValidator has every block of a graph that may *)
(* be published and follows its connections, for every such graph.         *)
THEOREM GraphsInOrder == ServicesSpec => []GraphsCompileInOrder
<1>1. ServicesInv => GraphsCompileInOrder
  BY OrderedGraph, CompilingGraph DEF ServicesInv, GraphsCompileInOrder
<1> QED BY <1>1, ServicesInvariant, PTL

(* What each service promises it keeps beside the others. *)
THEOREM ServicesKeepPromises ==
  ServicesSpec => [](/\ ExclusiveClaim /\ BroadcastsAreCounted /\ OverIsWhole /\ ReadyIsTrue
                     /\ StartedOncePerKey /\ RunsAreSynced /\ MadeOfApproved
                     /\ AnswersNameTheirDraft /\ DraftsAgree /\ EntryChecksHold)
<1>1. ServicesInv => ExclusiveClaim /\ BroadcastsAreCounted
  BY DEF ServicesInv, OutboxInv, BroadcastsAreCounted
<1>2. ServicesInv => OverIsWhole
  <2> SUFFICES ASSUME ServicesInv PROVE OverIsWhole
    OBVIOUS
  <2>1. CASE focus = "chat"
    <3>1. ChatInv BY <2>1 DEF ServicesInv
    <3> QED BY <3>1 DEF ChatInv, OverIsWhole, ResumedIsWhole, ResumeOK, At
  <2>2. CASE focus # "chat"
    <3>1. SettledStreamIsWhole BY <2>2 DEF ServicesInv
    <3>2. ResumedIsWhole BY <2>2, ResumesForChat DEF ResumedIsWhole
    <3> QED BY <3>1, <3>2 DEF OverIsWhole
  <2> QED BY <2>1, <2>2
<1>3. ServicesInv => ReadyIsTrue /\ StartedOncePerKey /\ RunsAreSynced
  BY DEF ServicesInv, DocInv, SyncInv
<1>4. ServicesInv => MadeOfApproved BY MadeWasApproved DEF ServicesInv
<1>5. ServicesInv => AnswersNameTheirDraft /\ EntryChecksHold
  BY AnswersNamed, EntriesEnough DEF ServicesInv, DraftsInv
<1>6. ServicesInv => DraftsAgree
  <2> SUFFICES ASSUME ServicesInv PROVE DraftsAgree
    OBVIOUS
  <2>1. CASE focus \in AiFoci BY <2>1, DraftsShown DEF ServicesInv
  <2>2. CASE focus \notin AiFoci
    <3>1. NoDrafts BY <2>2 DEF ServicesInv
    <3> QED BY <3>1 DEF NoDrafts, DraftsAgree
  <2> QED BY <2>1, <2>2
<1> QED BY <1>1, <1>2, <1>3, <1>4, <1>5, <1>6, ServicesInvariant, PTL

(* A deleted file stays deleted whatever else the services do. *)
THEOREM DeletedBesideOthers == ServicesSpec => DeletedFileStaysDeleted
<1>1. ServicesInv /\ [ServicesNext]_<<focus, request, tables>> =>
        [\A f \in Files : file[f].status = "deleted" => file'[f].status = "deleted"]_chatVars
  <2> SUFFICES ASSUME ServicesInv, [ServicesNext]_<<focus, request, tables>>,
                      NEW f \in Files, file[f].status = "deleted"
               PROVE  file'[f].status = "deleted"
    OBVIOUS
  <2>1. CASE focus = "chat"
    <3>1. ChatInv /\ [ChatNext]_chatVars BY <2>1, StepOfServices DEF ServicesInv
    <3> QED BY <3>1, DeletedStays
  <2>2. CASE focus # "chat"
    <3>1. UNCHANGED chatTables BY <2>2, StepOfServices
    <3> QED BY <3>1 DEF chatTables
  <2> QED BY <2>1, <2>2
<1> QED BY <1>1, ServicesInvariant, PTL DEF ServicesSpec, DeletedFileStaysDeleted

(* A version of a document never goes back, whatever else they do. *)
THEOREM AdvancesBesideOthers == ServicesSpec => VersionsAdvance
<1>1. ServicesInv /\ [ServicesNext]_<<focus, request, tables>> =>
        [\A v \in Versions : Rank(version[v].status) <= Rank(version'[v].status)]_docVars
  <2> SUFFICES ASSUME ServicesInv, [ServicesNext]_<<focus, request, tables>>,
                      NEW v \in Versions
               PROVE  Rank(version[v].status) <= Rank(version'[v].status)
    OBVIOUS
  <2>1. CASE focus = "documents"
    <3>1. DocInv /\ [DocNext]_docVars BY <2>1, StepOfServices DEF ServicesInv
    <3> QED BY <3>1, StepAdvances DEF Advances
  <2>2. CASE focus # "documents"
    <3>1. UNCHANGED docTables BY <2>2, StepOfServices
    <3>2. version' = version BY <3>1 DEF docTables
    <3>3. version[v].status \in VersionStatuses BY <2>2 DEF ServicesInv, DocTypeOK
    <3>4. Rank(version[v].status) \in Nat BY <3>3, RankFacts
    <3> QED BY <3>2, <3>4
  <2> QED BY <2>1, <2>2
<1> QED BY <1>1, ServicesInvariant, PTL DEF ServicesSpec, VersionsAdvance
=============================================================================
