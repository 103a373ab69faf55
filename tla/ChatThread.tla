----------------------------- MODULE ChatThread -----------------------------
(* One chat thread: ChatThreadService (apps/backend/src/modules/chat).     *)
(* A question is stored, an answer is opened and a stream job started, the *)
(* AI provider is called, and answer, events and job are settled by three  *)
(* statements.  Meanwhile users cancel and resume streams, make branches,  *)
(* archive the thread, and upload, attach and delete files.                *)
EXTENDS Requests, Naturals, Sequences

CONSTANTS Streams,      \* stream ids; each stands for its question and answer too
          Files,        \* attachment ids
          MaxBranches   \* bound on the branches of the thread

ASSUME ChatAssumption == MaxBranches \in Nat /\ None \notin 0 .. MaxBranches

VARIABLES thread,  \* chat_threads: status, current branch; and its chat_branches
          asked,   \* the user's message of each stream
          answer,  \* chat_messages.status of the assistant's message
          job,     \* chat_stream_jobs.status
          stream_events, \* chat_stream_events in the order of their sequence
          file     \* chat_attachments, and whether the object is in storage

chatTables == <<thread, asked, answer, job, stream_events, file>>
chatVars == <<chatTables, request>>

ThreadStatuses == {"active", "archived", "deleted"}
Outcomes == {"completed", "failed"}
JobStatuses == {"absent", "thinking", "cancelled"} \cup Outcomes
FileStatuses == {"absent", "pending_upload", "uploaded", "attached", "deleted"}
Branches == 0 .. MaxBranches  \* 0 is the trunk: current_branch_id is null

(* Of the events those that begin and end a stream: an error is told       *)
(* before the end that says failed.                                        *)
Event(type, status) == [type |-> type, status |-> status]
InitialEvents == <<Event("message_start", "thinking")>>
FinalEvent(outcome) == Event("message_done", outcome)
WithFinalEvents(told, outcome) ==
  Append(IF outcome = "failed" THEN Append(told, Event("error", outcome)) ELSE told,
         FinalEvent(outcome))

ChatInit ==
  /\ RequestsInit
  /\ thread = [status |-> "active", branch |-> 0, branches |-> 0]
  /\ asked = [s \in Streams |-> None]
  /\ answer = [s \in Streams |-> "absent"]
  /\ job = [s \in Streams |-> "absent"]
  /\ stream_events = [s \in Streams |-> <<>>]
  /\ file = [f \in Files |-> [status |-> "absent", message |-> None, stored |-> FALSE]]

(* A stream id nobody has drawn yet.                                       *)
Fresh(s) == /\ asked[s] = None
            /\ \A h \in Handlers : "stream" \in DOMAIN request[h] => request[h].stream # s

-----------------------------------------------------------------------------
(* streamMessage, and before it createMessageBranch when a message is      *)
(* edited or regenerated.                                                  *)

(* createUserMessage reads the thread; the branch is the one asked for or  *)
(* the thread's current one.                                               *)
Writable == thread.status = "active"
Question(pc, s, files, branch) ==
  [pc |-> pc, stream |-> s, files |-> files, branch |-> branch]

Ask(h, s, files) ==
  /\ At(h, "idle") /\ Fresh(s) /\ Writable
  /\ Goto(h, Question("question", s, files, thread.branch))
  /\ UNCHANGED chatTables

(* createMessageBranch looks whether the thread is deleted, not whether it *)
(* may be written.                                                         *)
Edit(h, s, files) ==
  /\ At(h, "idle") /\ Fresh(s) /\ thread.status # "deleted"
  /\ Goto(h, Question("branch", s, files, 0))
  /\ UNCHANGED chatTables

MakeBranch(h) ==
  /\ At(h, "branch") /\ thread.branches < MaxBranches
  /\ LET ordinal == thread.branches + 1 IN
       /\ thread' = [thread EXCEPT !.branches = ordinal, !.branch = ordinal]
       /\ Goto(h, [request[h] EXCEPT !.pc = "edit", !.branch = ordinal])
  /\ UNCHANGED <<asked, answer, job, stream_events, file>>

AskEdited(h) ==
  /\ At(h, "edit")
  /\ IF Writable THEN Proceed(h, "question") ELSE Return(h)
  /\ UNCHANGED chatTables

InsertQuestion(h) ==
  /\ At(h, "question")
  /\ asked' = [asked EXCEPT ![request[h].stream] = request[h].branch]
  /\ Proceed(h, IF request[h].files = {} THEN "answer" ELSE "files")
  /\ UNCHANGED <<thread, answer, job, stream_events, file>>

(* attachUploadedFilesToMessage takes files that were never uploaded, and  *)
(* files of other messages.                                                *)
Attachable(f) == file[f].status \in {"pending_upload", "uploaded", "attached"}
AttachFiles(h) ==
  /\ At(h, "files")
  /\ file' = [f \in Files |->
                IF f \in request[h].files /\ Attachable(f)
                THEN [file[f] EXCEPT !.status = "attached", !.message = request[h].stream]
                ELSE file[f]]
  /\ Proceed(h, "answer")
  /\ UNCHANGED <<thread, asked, answer, job, stream_events>>

InsertAnswer(h) ==
  /\ At(h, "answer")
  /\ answer' = [answer EXCEPT ![request[h].stream] = "streaming"]
  /\ Proceed(h, "job")
  /\ UNCHANGED <<thread, asked, job, stream_events, file>>

StartJob(h) ==
  /\ At(h, "job")
  /\ job' = [job EXCEPT ![request[h].stream] = "thinking"]
  /\ stream_events' = [stream_events EXCEPT ![request[h].stream] = InitialEvents]
  /\ Proceed(h, "provider")
  /\ UNCHANGED <<thread, asked, answer, file>>

(* Faulty: a refusal of the provider leaves the handler.                   *)
CallProviderUncaught(h) ==
  /\ At(h, "provider")
  /\ \/ Goto(h, [pc |-> "settleAnswer", stream |-> request[h].stream, outcome |-> "completed"])
     \/ Return(h)
  /\ UNCHANGED chatTables

(* The provider answers, or the policy, the route or the provider refuses, *)
(* which the handler catches; or the provider answers with no text, as the *)
(* local one always does, and is not refused for it.                       *)
CallProvider(h) ==
  /\ At(h, "provider")
  /\ \/ \E outcome \in Outcomes :
          Goto(h, [pc |-> "settleAnswer", stream |-> request[h].stream, outcome |-> outcome])
     \/ Proceed(h, "wordless")
  /\ UNCHANGED chatTables

(* Past the catch normalizeAssistantText throws, and nothing is settled.   *)
LeaveWordless(h) == At(h, "wordless") /\ Return(h) /\ UNCHANGED chatTables

(* The three statements that settle a stream, in this order.               *)
SettleAnswer(h) ==
  /\ At(h, "settleAnswer")
  /\ answer' = [answer EXCEPT ![request[h].stream] = request[h].outcome]
  /\ Proceed(h, "appendEvents")
  /\ UNCHANGED <<thread, asked, job, stream_events, file>>

AppendEvents(h) ==
  /\ At(h, "appendEvents")
  /\ stream_events' = [stream_events EXCEPT ![request[h].stream] =
                  WithFinalEvents(@, request[h].outcome)]
  /\ Proceed(h, "settleJob")
  /\ UNCHANGED <<thread, asked, answer, job, file>>

(* The update looks at the id only: it also settles a cancelled job.       *)
SettleJob(h) ==
  /\ At(h, "settleJob")
  /\ job' = [job EXCEPT ![request[h].stream] = request[h].outcome]
  /\ Return(h)
  /\ UNCHANGED <<thread, asked, answer, stream_events, file>>

-----------------------------------------------------------------------------
(* cancelStream: whatever the job's status is; the answer is left alone    *)
(* and the stream goes on.                                                 *)
CancelStream(s) ==
  /\ job[s] # "absent"
  /\ job' = [job EXCEPT ![s] = "cancelled"]
  /\ UNCHANGED <<thread, asked, answer, stream_events, file, request>>

(* resumeStream reads the job, then its events, and answers with both.     *)
ResumeStream(h, s) ==
  /\ At(h, "idle") /\ thread.status # "deleted" /\ job[s] # "absent"
  /\ Goto(h, [pc |-> "resume", resumed |-> s, status |-> job[s]])
  /\ UNCHANGED chatTables

(* Faulty: the events are read before the job.                             *)
ResumeEventsFirst(h) ==
  /\ At(h, "resume")
  /\ \E n \in 0 .. Len(stream_events[request[h].resumed]) :
       Goto(h, [pc |-> "resumed", status |-> job[request[h].resumed],
                events |-> SubSeq(stream_events[request[h].resumed], 1, n)])
  /\ UNCHANGED chatTables

ResumeEvents(h) ==
  /\ At(h, "resume")
  /\ Goto(h, [pc |-> "resumed", status |-> request[h].status,
              events |-> stream_events[request[h].resumed]])
  /\ UNCHANGED chatTables

Resumed(h) == At(h, "resumed") /\ Return(h) /\ UNCHANGED chatTables

-----------------------------------------------------------------------------
(* setThreadLifecycle does not look at the status: archiving takes a       *)
(* deleted thread back.                                                    *)
SetThreadLifecycle(status) ==
  /\ status \in {"archived", "deleted"}
  /\ thread' = [thread EXCEPT !.status = status]
  /\ UNCHANGED <<asked, answer, job, stream_events, file, request>>

(* updateThread and switchBranch look for a deleted thread first.          *)
ChangeThread(h) ==
  /\ At(h, "idle") /\ thread.status # "deleted"
  /\ \E pc \in {"update", "switch"} : Goto(h, [pc |-> pc])
  /\ UNCHANGED chatTables

UpdateThread(h) ==
  /\ At(h, "update")
  /\ \E status \in ThreadStatuses : thread' = [thread EXCEPT !.status = status]
  /\ Return(h)
  /\ UNCHANGED <<asked, answer, job, stream_events, file>>

SwitchBranch(h) ==
  /\ At(h, "switch")
  /\ \E b \in 1 .. thread.branches : thread' = [thread EXCEPT !.branch = b]
  /\ Return(h)
  /\ UNCHANGED <<asked, answer, job, stream_events, file>>

-----------------------------------------------------------------------------
(* Attachments: an intent, the client's upload to the storage service, and *)
(* the completion, which reads the row, then the object, then updates.     *)
CreateUploadIntent(f) ==
  /\ file[f].status = "absent" /\ thread.status # "deleted"
  /\ file' = [file EXCEPT ![f].status = "pending_upload"]
  /\ UNCHANGED <<thread, asked, answer, job, stream_events, request>>

PutObject(f) ==
  /\ file[f].status # "absent"
  /\ file' = [file EXCEPT ![f].stored = TRUE]
  /\ UNCHANGED <<thread, asked, answer, job, stream_events, request>>

CompleteStart(h, f) ==
  /\ At(h, "idle") /\ file[f].status # "absent" /\ file[f].stored
  /\ \E m \in {None} \cup {s \in Streams : asked[s] # None} :
       Goto(h, [pc |-> "complete", file |-> f, message |-> m])
  /\ UNCHANGED chatTables

Completed(f, m) ==
  LET message == IF m = None THEN file[f].message ELSE m
  IN [file EXCEPT ![f].status = IF m = None THEN "uploaded" ELSE "attached",
                  ![f].message = message]

(* Faulty: the completion trusts the row it read.                          *)
CompleteUploadUnchecked(h) ==
  /\ At(h, "complete")
  /\ file' = Completed(request[h].file, request[h].message)
  /\ Return(h)
  /\ UNCHANGED <<thread, asked, answer, job, stream_events>>

CompleteUpload(h) ==
  /\ At(h, "complete")
  /\ file' = IF file[request[h].file].status = "deleted"
             THEN file
             ELSE Completed(request[h].file, request[h].message)
  /\ Return(h)
  /\ UNCHANGED <<thread, asked, answer, job, stream_events>>

DeleteFile(f) ==
  /\ file[f].status \notin {"absent", "deleted"}
  /\ file' = [file EXCEPT ![f].status = "deleted"]
  /\ UNCHANGED <<thread, asked, answer, job, stream_events, request>>

-----------------------------------------------------------------------------
ChatCall(h) ==
  \/ \E s \in Streams, files \in SUBSET Files : Ask(h, s, files) \/ Edit(h, s, files)
  \/ \E s \in Streams : ResumeStream(h, s)
  \/ \E f \in Files : CompleteStart(h, f)
  \/ ChangeThread(h)

ChatContinue(h) ==
  \/ MakeBranch(h) \/ AskEdited(h) \/ InsertQuestion(h) \/ AttachFiles(h)
  \/ InsertAnswer(h) \/ StartJob(h) \/ CallProvider(h) \/ LeaveWordless(h)
  \/ SettleAnswer(h) \/ AppendEvents(h) \/ SettleJob(h)
  \/ ResumeEvents(h) \/ Resumed(h)
  \/ UpdateThread(h) \/ SwitchBranch(h) \/ CompleteUpload(h)

ChatNext ==
  \/ \E h \in Handlers : ChatCall(h) \/ ChatContinue(h)
                         \/ (Dies(h) /\ UNCHANGED chatTables)
  \/ \E s \in Streams : CancelStream(s)
  \/ \E status \in ThreadStatuses : SetThreadLifecycle(status)
  \/ \E f \in Files : CreateUploadIntent(f) \/ PutObject(f) \/ DeleteFile(f)

ChatSpec == ChatInit /\ [][ChatNext]_chatVars

(* Every await of a request comes back, the call to the provider within    *)
(* its time limit; nobody is obliged to ask, resume or cancel.             *)
ChatFairness == \A h \in Handlers : WF_chatVars(ChatContinue(h))

-----------------------------------------------------------------------------
StreamEvents == [type : {"message_start", "error", "message_done"},
                 status : {"thinking"} \cup Outcomes]
ChatTypeOK ==
  /\ thread \in [status : ThreadStatuses, branch : Branches, branches : Branches]
  /\ asked \in [Streams -> Branches \cup {None}]
  /\ answer \in [Streams -> {"absent", "streaming"} \cup Outcomes]
  /\ job \in [Streams -> JobStatuses]
  /\ stream_events \in [Streams -> Seq(StreamEvents)]
  /\ file \in [Files -> [status : FileStatuses, message : Streams \cup {None},
                         stored : BOOLEAN]]

(* A stream job that says completed or failed is settled as a whole: the   *)
(* answer has the same outcome and the events end with the one that tells  *)
(* it.  streamMessage writes the three one after the other.                *)
Tells(told, outcome) == told # <<>> /\ told[Len(told)] = FinalEvent(outcome)
SettledStreamIsWhole ==
  \A s \in Streams : job[s] \in Outcomes => answer[s] = job[s] /\ Tells(stream_events[s], job[s])

(* A client that resumes a stream and is told that it is over has got all  *)
(* of it: resumeStream reads the job and the events by two statements, and *)
(* the stream may be settled in between.                                   *)
ResumedIsWhole ==
  \A h \in Handlers :
    At(h, "resumed") /\ request[h].status \in Outcomes =>
      Tells(request[h].events, request[h].status)

(* Over means all of it, in the tables and for whoever resumes.            *)
OverIsWhole == SettledStreamIsWhole /\ ResumedIsWhole

(* A deleted file never comes back: neither the completion of an upload    *)
(* that looked at it before, nor a message that names it.                  *)
DeletedFileStaysDeleted ==
  [][\A f \in Files : file[f].status = "deleted" => file'[f].status = "deleted"]_chatVars

(* While a request serves a stream, its answer and its job are settled in  *)
(* the end, whatever the provider does and cancelled or not: unless the    *)
(* answer of the provider had no text, or a request died.  Nothing else    *)
(* settles a stream, so that either leaves it streaming for good.          *)
Serves(h, s) == "stream" \in DOMAIN request[h] /\ request[h].stream = s
AnswersSettle ==
  \A s \in Streams :
    answer[s] = "streaming" /\ (\E h \in Handlers : Serves(h, s)) ~>
      \/ answer[s] \in Outcomes /\ job[s] # "thinking"
      \/ \E h \in Handlers : (At(h, "wordless") /\ Serves(h, s)) \/ At(h, "dead")
=============================================================================
