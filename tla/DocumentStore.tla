--------------------------- MODULE DocumentStore ---------------------------
(* One document and its versions: DocumentsService (modules/documents).    *)
(* A version is announced (intent), its content received, its object in    *)
(* the storage service verified and processed; meanwhile other requests    *)
(* announce, complete, choose the current version, archive and restore.    *)
(* The object is put by the client, at any time after the intent.          *)
EXTENDS Requests, Naturals

CONSTANTS Versions,  \* document_versions ids
          Contents   \* what a client may send, each with its hash

ASSUME DocumentAssumption == None \notin Versions

VARIABLES document,  \* app.documents; its status is "absent" before it exists
          version,   \* app.document_versions
          object,    \* storage.objects: does what it tells match the intent?
          verified   \* history: versions whose object was found as announced, or for
                     \* which a client's word was taken while there was no object

docTables == <<document, version, object, verified>>
docVars == <<docTables, request>>

VersionStatuses == {"absent", "upload_pending", "uploaded", "processing", "ready"}
DocumentStatuses == VersionStatuses \cup {"archived", "soft_deleted"}
NoVersion == [status |-> "absent", no |-> 0, sha256 |-> None, jobs |-> FALSE]

DocInit ==
  /\ RequestsInit
  /\ document = [status |-> "absent", current |-> None, archived |-> FALSE, deleted |-> FALSE]
  /\ version = [v \in Versions |-> NoVersion]
  /\ object = [v \in Versions |-> "absent"]
  /\ verified = {}

DocumentExists == document.status # "absent"
Announced == {v \in Versions : version[v].status # "absent"}
VersionDrawn(v) == v \in Announced \/ \E h \in Handlers : At(h, "insertVersion") /\ request[h].version = v

(* createUploadIntent: document and first version in one transaction.      *)
CreateDocument(v) ==
  /\ ~DocumentExists
  /\ document' = [document EXCEPT !.status = "upload_pending"]
  /\ version' = [version EXCEPT ![v] = [@ EXCEPT !.status = "upload_pending", !.no = 1]]
  /\ UNCHANGED <<object, verified, request>>

(* createRunArtifact: a document that is current before it has content.    *)
CreateRunArtifact(v) ==
  /\ ~DocumentExists
  /\ document' = [document EXCEPT !.status = "processing", !.current = v]
  /\ version' = [version EXCEPT ![v] = [@ EXCEPT !.status = "processing", !.no = 1]]
  /\ UNCHANGED <<object, verified, request>>

(* createVersionUploadIntent: the number is drawn by one statement, the    *)
(* row inserted by another; (document_id, version_no) is unique.           *)
NextVersionNumber ==
  LET numbers == {version[v].no : v \in Versions}
  IN 1 + CHOOSE n \in numbers : \A m \in numbers : m <= n
AnnounceVersion(h, v) ==
  /\ At(h, "idle") /\ DocumentExists /\ ~VersionDrawn(v)
  /\ Goto(h, [pc |-> "insertVersion", version |-> v, no |-> NextVersionNumber])
  /\ UNCHANGED docTables

NumberIsFree(no) == \A v \in Announced : version[v].no # no
InsertVersion(h) ==
  /\ At(h, "insertVersion")
  /\ version' = IF NumberIsFree(request[h].no)
                THEN [version EXCEPT ![request[h].version] =
                        [@ EXCEPT !.status = "upload_pending", !.no = request[h].no]]
                ELSE version
  /\ Return(h) /\ UNCHANGED <<document, object, verified>>

(* The client puts an object where the signed URL points.                  *)
PutDocumentObject(v) ==
  /\ v \in Announced
  /\ \E found \in {"matching", "other"} : object' = [object EXCEPT ![v] = found]
  /\ UNCHANGED <<document, version, verified, request>>

-----------------------------------------------------------------------------
(* uploadVersionContent looks at the version, then records the hash.       *)
AcceptsContent(v) == version[v].status = "upload_pending"
UploadContent(h, v, content) ==
  /\ At(h, "idle") /\ AcceptsContent(v)
  /\ Goto(h, [pc |-> "content", version |-> v, sha256 |-> content])
  /\ UNCHANGED docTables

(* Faulty: the update looks at the id only.                                *)
RecordContentAnyway(h) ==
  /\ At(h, "content")
  /\ version' = [version EXCEPT ![request[h].version] =
                   [@ EXCEPT !.status = "uploaded", !.sha256 = request[h].sha256]]
  /\ Return(h) /\ UNCHANGED <<document, object, verified>>

RecordContent(h) ==
  /\ At(h, "content")
  /\ LET v == request[h].version IN
       version' = IF version[v].status = "upload_pending"
                  THEN [version EXCEPT ![v] = [@ EXCEPT !.status = "uploaded",
                                                        !.sha256 = request[h].sha256]]
                  ELSE version
  /\ Return(h) /\ UNCHANGED <<document, object, verified>>

(* completeUpload: the version must have its content; the hash is optional *)
(* in the request, and compared when it is given.                          *)
ReadyForCompletion(v, sha256) ==
  version[v].status = "uploaded" /\ sha256 \in {None, version[v].sha256}
CompleteVersion(h, v) ==
  /\ At(h, "idle") /\ v \in Announced
  /\ \E sha256 \in Contents \cup {None} :
       /\ ReadyForCompletion(v, sha256)
       /\ Goto(h, [pc |-> "verify", version |-> v, sha256 |-> sha256])
  /\ UNCHANGED docTables

(* Faulty: an object is enough, it need not be the one announced.          *)
VerifyExists(h) ==
  /\ At(h, "verify")
  /\ LET v == request[h].version IN
       /\ IF object[v] = "absent" THEN Return(h) ELSE Proceed(h, "process")
       /\ verified' = IF object[v] = "matching" THEN verified \cup {v} ELSE verified
  /\ UNCHANGED <<document, version, object>>

(* verifyUploadedObject.  With no object at all the client's own report is *)
(* taken for one, if the token of the request is one for development,      *)
(* which every environment accepts.                                        *)
VerifyObject(h) ==
  /\ At(h, "verify")
  /\ LET v == request[h].version IN
       \/ /\ object[v] \in {"matching", "absent"}
          /\ Proceed(h, "process") /\ verified' = verified \cup {v}
       \/ object[v] # "matching" /\ Return(h) /\ UNCHANGED verified
  /\ UNCHANGED <<document, version, object>>

(* One transaction: row, storage objects, jobs, chunks, and in the end the *)
(* version is ready and current and the document ready, whatever they were.*)
(* The hash is the request's, and null when it had none.                   *)
ProcessVersion(h) ==
  /\ At(h, "process")
  /\ LET v == request[h].version IN
       /\ version' = [version EXCEPT ![v] = [@ EXCEPT !.status = "ready", !.jobs = TRUE,
                                                      !.sha256 = request[h].sha256]]
       /\ document' = [document EXCEPT !.status = "ready", !.current = v]
  /\ Return(h) /\ UNCHANGED <<object, verified>>

-----------------------------------------------------------------------------
(* makeCurrent: checked on one statement, written by the next.             *)
MayBeCurrent(v) == version[v].status \in {"uploaded", "processing", "ready", "archived"}
MakeCurrent(h, v) ==
  /\ At(h, "idle") /\ MayBeCurrent(v)
  /\ Goto(h, [pc |-> "makeCurrent", version |-> v])
  /\ UNCHANGED docTables

SetCurrent(h) ==
  /\ At(h, "makeCurrent")
  /\ document' = [document EXCEPT !.current = request[h].version]
  /\ Return(h) /\ UNCHANGED <<version, object, verified>>

Archive ==
  /\ DocumentExists
  /\ document' = [document EXCEPT !.status = "archived", !.archived = TRUE]
  /\ UNCHANGED <<version, object, verified, request>>

SoftDelete ==
  /\ DocumentExists
  /\ document' = [document EXCEPT !.status = "soft_deleted", !.deleted = TRUE]
  /\ UNCHANGED <<version, object, verified, request>>

(* restore: the next status follows from the current version read before.  *)
RestoredStatus == IF document.current = None THEN "upload_pending" ELSE "ready"
Restore(h) ==
  /\ At(h, "idle") /\ DocumentExists
  /\ Goto(h, [pc |-> "restore", status |-> RestoredStatus])
  /\ UNCHANGED docTables

RestoreDocument(h) ==
  /\ At(h, "restore")
  /\ document' = [document EXCEPT !.status = request[h].status,
                                  !.archived = FALSE, !.deleted = FALSE]
  /\ Return(h) /\ UNCHANGED <<version, object, verified>>

-----------------------------------------------------------------------------
DocCall(h) ==
  \/ \E v \in Versions : AnnounceVersion(h, v) \/ CompleteVersion(h, v) \/ MakeCurrent(h, v)
  \/ \E v \in Versions, content \in Contents : UploadContent(h, v, content)
  \/ Restore(h)

DocContinue(h) ==
  \/ InsertVersion(h) \/ RecordContent(h) \/ VerifyObject(h) \/ ProcessVersion(h)
  \/ SetCurrent(h) \/ RestoreDocument(h)

DocNext ==
  \/ \E h \in Handlers : DocCall(h) \/ DocContinue(h) \/ (Dies(h) /\ UNCHANGED docTables)
  \/ \E v \in Versions : CreateDocument(v) \/ CreateRunArtifact(v) \/ PutDocumentObject(v)
  \/ Archive \/ SoftDelete

DocSpec == DocInit /\ [][DocNext]_docVars

-----------------------------------------------------------------------------
DocTypeOK ==
  /\ document \in [status : DocumentStatuses, current : Versions \cup {None},
                   archived : BOOLEAN, deleted : BOOLEAN]
  /\ version \in [Versions -> [status : VersionStatuses, no : Nat,
                               sha256 : Contents \cup {None}, jobs : BOOLEAN]]
  /\ object \in [Versions -> {"absent", "matching", "other"}]
  /\ verified \subseteq Versions

(* A version is ready only if its jobs are done and its object was found   *)
(* as announced, in whatever order contents and completions of the version *)
(* came; or if a client with a development token vouched for it while      *)
(* there was no object.  An object other than the announced one never does.*)
ReadyWasProcessed ==
  \A v \in Versions : version[v].status = "ready" => version[v].jobs /\ v \in verified

(* What is processed stays processed: a content that arrives late, from a  *)
(* request that saw the version pending, does not take it back.            *)
Rank(status) == CASE status = "absent" -> 0 [] status = "upload_pending" -> 1
                  [] status = "uploaded" -> 2 [] OTHER -> 3
VersionsAdvance ==
  [][\A v \in Versions : Rank(version[v].status) <= Rank(version'[v].status)]_docVars

(* A document that is shown as ready has a version to show, and the one it *)
(* shows has content or is a run's artifact, however it became current:    *)
(* restores that decided on an older reading included.                     *)
CurrentIsShown ==
  /\ document.status = "ready" => document.current # None
  /\ document.current # None => Rank(version[document.current].status) >= 2

(* Ready is never said too early, of a version or of the document.         *)
ReadyIsTrue == ReadyWasProcessed /\ CurrentIsShown
=============================================================================
