----------------------------- MODULE ServiceProofs -----------------------------
(***************************************************************************)
(* Documents and chat threads, for any number of requests, versions,       *)
(* streams and files: ready is never said too early, versions never go     *)
(* back, a stream that is over is whole, a deleted file stays deleted.     *)
(*                                                                         *)
(* Both services check something in one statement and rely on it in a      *)
(* later one.  The invariants say, for each statement a request may be at, *)
(* what of its earlier reading still holds, and why no other request takes *)
(* it away: statuses only advance, and an id that was drawn has one owner. *)
(***************************************************************************)
EXTENDS DocumentStore, ChatThread, RuntimeSync, FiniteSetTheorems, TLAPS

Ended == [pc : {"idle", "dead"}]

(* One request moves and the others stay where they are.                   *)
LEMMA OneMoves ==
  ASSUME NEW Locals, request \in [Handlers -> Locals], NEW h \in Handlers, NEW next \in Locals,
         Goto(h, next)
  PROVE  /\ request' \in [Handlers -> Locals] /\ request'[h] = next
         /\ \A g \in Handlers \ {h} : request'[g] = request[g]
BY DEF Goto

-----------------------------------------------------------------------------
(* Documents: the local variables of a request, by the statement that      *)
(* comes next.                                                             *)
InsertLocals == [pc : {"insertVersion"}, version : Versions, no : Nat]
ContentLocals == [pc : {"content"}, version : Versions, sha256 : Contents]
VerifyLocals == [pc : {"verify", "process"}, version : Versions, sha256 : Contents \cup {None}]
CurrentLocals == [pc : {"makeCurrent"}, version : Versions]
RestoreLocals == [pc : {"restore"}, status : {"upload_pending", "ready"}]
DocLocals == Ended \cup InsertLocals \cup ContentLocals \cup VerifyLocals \cup CurrentLocals
               \cup RestoreLocals

(* What a request may still rely on.                                       *)
DocRequestOK(h) ==
  /\ request[h].pc \notin {"idle", "dead"} => DocumentExists
  /\ request[h].pc = "insertVersion" =>
       /\ version[request[h].version].status = "absent"
       /\ \A g \in Handlers : g # h /\ request[g].pc = "insertVersion"
            => request[g].version # request[h].version
  /\ request[h].pc \in {"content", "verify", "process"} =>
       version[request[h].version].status # "absent"
  /\ request[h].pc = "process" => request[h].version \in verified
  /\ request[h].pc = "makeCurrent" => Rank(version[request[h].version].status) >= 2
  /\ request[h].pc = "restore" /\ request[h].status = "ready" => document.current # None

(* Before the document there is no version, before a version no number.    *)
NothingBefore ==
  /\ ~DocumentExists => Announced = {}
  /\ \A v \in Versions : version[v].status = "absent" => version[v].no = 0

(* Some version has the highest number, which the next one is drawn from.  *)
HasLatest ==
  Versions # {} => \E w \in Versions : \A u \in Versions : version[u].no <= version[w].no

DocInv == /\ DocTypeOK /\ request \in [Handlers -> DocLocals]
          /\ NothingBefore /\ HasLatest /\ ReadyIsTrue
          /\ \A h \in Handlers : DocRequestOK(h)

Advances == \A v \in Versions : Rank(version[v].status) <= Rank(version'[v].status)

(* The order of a version's statuses, spelt out. *)
LEMMA RankFacts ==
  /\ Rank("absent") = 0 /\ Rank("upload_pending") = 1 /\ Rank("uploaded") = 2
  /\ Rank("processing") = 3 /\ Rank("ready") = 3
  /\ \A s \in VersionStatuses : Rank(s) \in 0 .. 3 /\ (s # "absent" => Rank(s) > 0)
BY DEF Rank, VersionStatuses

(* At each statement a request has the locals of its operation. *)
LEMMA DocLocalsByStep ==
  ASSUME request \in [Handlers -> DocLocals], NEW h \in Handlers
  PROVE  /\ request[h].pc = "insertVersion" => request[h] \in InsertLocals
         /\ request[h].pc = "content" => request[h] \in ContentLocals
         /\ request[h].pc \in {"verify", "process"} => request[h] \in VerifyLocals
         /\ request[h].pc = "makeCurrent" => request[h] \in CurrentLocals
         /\ request[h].pc = "restore" => request[h] \in RestoreLocals
         /\ request[h].pc \in {"idle", "dead"} => request[h] \in Ended
<1>1. request[h] \in DocLocals
  OBVIOUS
<1> QED BY <1>1 DEF DocLocals, Ended, InsertLocals, ContentLocals, VerifyLocals, CurrentLocals,
                    RestoreLocals

(* The invariant of the documents holds at first. *)
LEMMA InitDoc == DocInit => DocInv
<1> SUFFICES ASSUME DocInit PROVE DocInv
  OBVIOUS
<1>1. DocTypeOK
  BY DEF DocInit, DocTypeOK, NoVersion, VersionStatuses, DocumentStatuses
<1>2. request \in [Handlers -> DocLocals] /\ \A h \in Handlers : request[h].pc = "idle"
  BY DEF DocInit, RequestsInit, Idle, DocLocals, Ended
<1>3. \A v \in Versions : version[v].status = "absent" /\ version[v].no = 0
  BY DEF DocInit, NoVersion
<1>4. document.status = "absent" /\ document.current = None
  BY DEF DocInit
<1>5. NothingBefore /\ HasLatest
  BY <1>3 DEF NothingBefore, HasLatest, Announced
<1>6. ReadyIsTrue
  BY <1>3, <1>4 DEF ReadyIsTrue, ReadyWasProcessed, CurrentIsShown
<1>7. \A h \in Handlers : DocRequestOK(h)
  BY <1>2 DEF DocRequestOK
<1> QED BY <1>1, <1>2, <1>5, <1>6, <1>7 DEF DocInv

(* A request that does not move still has what it relies on, if versions   *)
(* only advance and no version it has drawn appears.                       *)
LEMMA OthersKeepDoc ==
  ASSUME DocInv, DocTypeOK', Advances, verified \subseteq verified',
         DocumentExists => DocumentExists', document.current # None => document'.current # None,
         NEW g \in Handlers, request'[g] = request[g],
         request[g].pc = "insertVersion" =>
           /\ version'[request[g].version].status = "absent"
           /\ \A f \in Handlers : f # g /\ request'[f].pc = "insertVersion"
                => request'[f].version # request[g].version
  PROVE  DocRequestOK(g)'
<1>1. DocRequestOK(g) /\ request \in [Handlers -> DocLocals]
  BY DEF DocInv
<1>2. request[g].pc \in {"content", "verify", "process", "makeCurrent"} =>
        request[g].version \in Versions
  BY <1>1, DocLocalsByStep DEF ContentLocals, VerifyLocals, CurrentLocals
<1>3. \A v \in Versions : /\ version[v].status \in VersionStatuses
                         /\ version'[v].status \in VersionStatuses
  BY DEF DocInv, DocTypeOK
<1>4. \A v \in Versions :
        /\ Rank(version[v].status) \in 0 .. 3 /\ Rank(version'[v].status) \in 0 .. 3
        /\ Rank(version[v].status) >= 2 => Rank(version'[v].status) >= 2
        /\ version[v].status # "absent" => version'[v].status # "absent"
  BY <1>3, RankFacts DEF Advances
<1> QED BY <1>1, <1>2, <1>4 DEF DocRequestOK

(* A request moves, and the drawn versions of the others do not appear.    *)
LEMMA DocMove ==
  ASSUME DocInv, DocTypeOK', NothingBefore', HasLatest', ReadyIsTrue', Advances,
         verified \subseteq verified', DocumentExists => DocumentExists',
         document.current # None => document'.current # None,
         NEW h \in Handlers, NEW next \in DocLocals, Goto(h, next), DocRequestOK(h)',
         \A g \in Handlers \ {h} : request[g].pc = "insertVersion" =>
           /\ version'[request[g].version].status = "absent"
           /\ next.pc = "insertVersion" => next.version # request[g].version
  PROVE  DocInv'
<1>1. /\ request' \in [Handlers -> DocLocals] /\ request'[h] = next
      /\ \A g \in Handlers \ {h} : request'[g] = request[g]
  BY OneMoves DEF DocInv
<1>2. \A f, g \in Handlers : f # g /\ request[f].pc = "insertVersion"
        /\ request[g].pc = "insertVersion" => request[f].version # request[g].version
  BY DEF DocInv, DocRequestOK
<1>3. ASSUME NEW g \in Handlers \ {h} PROVE DocRequestOK(g)'
  <2>1. request[g].pc = "insertVersion" =>
          /\ version'[request[g].version].status = "absent"
          /\ \A f \in Handlers : f # g /\ request'[f].pc = "insertVersion"
               => request'[f].version # request[g].version
    BY <1>1, <1>2
  <2> QED BY <1>1, <2>1, OthersKeepDoc
<1> QED BY <1>1, <1>3 DEF DocInv

(* The tables change and no request moves.                                 *)
LEMMA DocTablesMove ==
  ASSUME DocInv, DocTypeOK', NothingBefore', HasLatest', ReadyIsTrue', Advances,
         verified \subseteq verified', DocumentExists => DocumentExists',
         document.current # None => document'.current # None, UNCHANGED request,
         \A g \in Handlers : request[g].pc = "insertVersion" =>
           version'[request[g].version].status = "absent"
  PROVE  DocInv'
<1>1. \A f, g \in Handlers : f # g /\ request[f].pc = "insertVersion"
        /\ request[g].pc = "insertVersion" => request[f].version # request[g].version
  BY DEF DocInv, DocRequestOK
<1>2. ASSUME NEW g \in Handlers PROVE DocRequestOK(g)'
  <2>1. request'[g] = request[g]
    OBVIOUS
  <2> QED BY <1>1, <2>1, OthersKeepDoc
<1> QED BY <1>2 DEF DocInv

(* Tables that stay as they are keep what is true of them.                 *)
LEMMA DocTablesStay ==
  ASSUME DocInv, UNCHANGED <<document, version, object>>,
         verified \subseteq verified', verified' \subseteq Versions
  PROVE  /\ DocTypeOK' /\ NothingBefore' /\ HasLatest' /\ ReadyIsTrue' /\ Advances
         /\ DocumentExists => DocumentExists'
         /\ document.current # None => document'.current # None
<1>1. DocTypeOK' /\ NothingBefore' /\ HasLatest' /\ ReadyIsTrue'
  BY DEF DocInv, DocTypeOK, NothingBefore, HasLatest, ReadyIsTrue, ReadyWasProcessed,
         CurrentIsShown, Announced, DocumentExists
<1>2. Advances
  BY RankFacts DEF Advances, DocInv, DocTypeOK
<1> QED BY <1>1, <1>2 DEF DocumentExists

(* The number drawn next is a number.                                      *)
LEMMA NumberIsDrawn == ASSUME DocTypeOK, HasLatest, Versions # {} PROVE NextVersionNumber \in Nat
<1> DEFINE numbers == {version[v].no : v \in Versions}
<1>1. \A n \in numbers : n \in Nat
  BY DEF DocTypeOK
<1>2. \E n \in numbers : \A m \in numbers : m <= n
  BY DEF HasLatest
<1> QED BY <1>1, <1>2 DEF NextVersionNumber

(* Requests arrive, look at the tables and remember what they saw.         *)
LEMMA DocCallKeepsInv == ASSUME DocInv, NEW h \in Handlers, DocCall(h) PROVE DocInv'
<1>0. DocTypeOK /\ NothingBefore /\ UNCHANGED <<document, version, object, verified>>
  BY DEF DocInv, DocCall, AnnounceVersion, CompleteVersion, MakeCurrent, UploadContent, Restore,
         docTables
<1>1. /\ DocTypeOK' /\ NothingBefore' /\ HasLatest' /\ ReadyIsTrue' /\ Advances
      /\ DocumentExists => DocumentExists'
      /\ document.current # None => document'.current # None
  BY <1>0, DocTablesStay DEF DocTypeOK
<1>2. \A g \in Handlers \ {h} : request[g].pc = "insertVersion" =>
        version'[request[g].version].status = "absent"
  BY <1>0 DEF DocInv, DocRequestOK
<1>3. ASSUME NEW next \in DocLocals, Goto(h, next), DocRequestOK(h)',
             \A g \in Handlers \ {h} : request[g].pc = "insertVersion" =>
               (next.pc = "insertVersion" => next.version # request[g].version)
      PROVE  DocInv'
  BY <1>0, <1>1, <1>2, <1>3, DocMove
<1>4. ASSUME NEW next \in DocLocals, Goto(h, next) PROVE request'[h] = next /\
             \A g \in Handlers \ {h} : request'[g] = request[g]
  BY <1>4, OneMoves DEF DocInv
<1>5. ASSUME NEW v \in Versions, AnnounceVersion(h, v) PROVE DocInv'
  <2> DEFINE next == [pc |-> "insertVersion", version |-> v, no |-> NextVersionNumber]
  <2>1. NextVersionNumber \in Nat
    BY NumberIsDrawn DEF DocInv
  <2>2. next \in DocLocals /\ next.pc = "insertVersion" /\ next.version = v
    BY <2>1 DEF DocLocals, InsertLocals
  <2>3. Goto(h, next) /\ DocumentExists /\ version[v].status = "absent"
        /\ \A g \in Handlers : request[g].pc = "insertVersion" => request[g].version # v
    BY <1>5 DEF AnnounceVersion, VersionDrawn, Announced, At
  <2> HIDE DEF next
  <2>4. DocRequestOK(h)'
    BY <1>0, <1>4, <2>2, <2>3 DEF DocRequestOK, DocumentExists
  <2> QED BY <1>3, <2>2, <2>3, <2>4
<1>6. ASSUME NEW v \in Versions, CompleteVersion(h, v) PROVE DocInv'
  <2>1. PICK sha256 \in Contents \cup {None} :
          Goto(h, [pc |-> "verify", version |-> v, sha256 |-> sha256])
    BY <1>6 DEF CompleteVersion
  <2> DEFINE next == [pc |-> "verify", version |-> v, sha256 |-> sha256]
  <2>2. next \in DocLocals /\ next.pc = "verify" /\ next.version = v /\ Goto(h, next)
    BY <2>1 DEF DocLocals, VerifyLocals
  <2>3. version[v].status # "absent" /\ DocumentExists
    BY <1>0, <1>6 DEF CompleteVersion, Announced, NothingBefore
  <2> HIDE DEF next
  <2>4. DocRequestOK(h)'
    BY <1>0, <1>4, <2>2, <2>3 DEF DocRequestOK, DocumentExists
  <2> QED BY <1>3, <2>2, <2>4
<1>7. ASSUME NEW v \in Versions, MakeCurrent(h, v) PROVE DocInv'
  <2> DEFINE next == [pc |-> "makeCurrent", version |-> v]
  <2>1. next \in DocLocals /\ next.pc = "makeCurrent" /\ next.version = v /\ Goto(h, next)
    BY <1>7 DEF DocLocals, CurrentLocals, MakeCurrent
  <2>2. version[v].status \in {"uploaded", "processing", "ready"} /\ DocumentExists
    BY <1>0, <1>7 DEF MakeCurrent, MayBeCurrent, Announced, NothingBefore, DocTypeOK,
                      VersionStatuses
  <2> HIDE DEF next
  <2>3. Rank(version[v].status) >= 2
    BY <2>2, RankFacts
  <2>4. DocRequestOK(h)'
    BY <1>0, <1>4, <2>1, <2>2, <2>3 DEF DocRequestOK, DocumentExists
  <2> QED BY <1>3, <2>1, <2>4
<1>8. ASSUME NEW v \in Versions, NEW content \in Contents, UploadContent(h, v, content)
      PROVE  DocInv'
  <2> DEFINE next == [pc |-> "content", version |-> v, sha256 |-> content]
  <2>1. next \in DocLocals /\ next.pc = "content" /\ next.version = v /\ Goto(h, next)
    BY <1>8 DEF DocLocals, ContentLocals, UploadContent
  <2>2. version[v].status # "absent" /\ DocumentExists
    BY <1>0, <1>8 DEF UploadContent, AcceptsContent, Announced, NothingBefore
  <2> HIDE DEF next
  <2>3. DocRequestOK(h)'
    BY <1>0, <1>4, <2>1, <2>2 DEF DocRequestOK, DocumentExists
  <2> QED BY <1>3, <2>1, <2>3
<1>9. ASSUME Restore(h) PROVE DocInv'
  <2> DEFINE next == [pc |-> "restore", status |-> RestoredStatus]
  <2>1. /\ next \in DocLocals /\ next.pc = "restore" /\ next.status = RestoredStatus
        /\ Goto(h, next) /\ DocumentExists
    BY <1>9 DEF DocLocals, RestoreLocals, Restore, RestoredStatus
  <2> HIDE DEF next
  <2>2. DocRequestOK(h)'
    BY <1>0, <1>4, <2>1 DEF DocRequestOK, DocumentExists, RestoredStatus
  <2> QED BY <1>3, <2>1, <2>2
<1> QED BY <1>5, <1>6, <1>7, <1>8, <1>9 DEF DocCall

(* A request ends: it relies on nothing any more.                          *)
LEMMA DocEnd ==
  ASSUME DocInv, DocTypeOK', NothingBefore', HasLatest', ReadyIsTrue', Advances,
         verified \subseteq verified', DocumentExists => DocumentExists',
         document.current # None => document'.current # None,
         NEW h \in Handlers, Return(h) \/ Dies(h),
         \A g \in Handlers \ {h} : request[g].pc = "insertVersion" =>
           version'[request[g].version].status = "absent"
  PROVE  DocInv'
<1>1. PICK next \in Ended : Goto(h, next)
  BY DEF Return, Dies, Idle, Ended
<1>2. next \in DocLocals /\ next.pc \in {"idle", "dead"}
  BY DEF DocLocals, Ended
<1>3. request' = [request EXCEPT ![h] = next] /\ request \in [Handlers -> DocLocals]
  BY <1>1 DEF DocInv, Goto
<1>4. request'[h] = next
  BY <1>3
<1>5. DocRequestOK(h)'
  BY <1>2, <1>4 DEF DocRequestOK
<1> QED BY <1>1, <1>2, <1>5, DocMove

(* One version's row changes and its number stays, or it gets its first.   *)
LEMMA RowMoves ==
  ASSUME DocInv, NEW v \in Versions, NEW row,
         row \in [status : VersionStatuses, no : Nat, sha256 : Contents \cup {None}, jobs : BOOLEAN],
         row.status # "absent", Rank(version[v].status) <= Rank(row.status),
         row.no = version[v].no \/ version[v].status = "absent",
         row.status = "ready" => row.jobs /\ v \in verified',
         version' = [version EXCEPT ![v] = row], verified \subseteq verified',
         DocumentExists'
  PROVE  /\ version' \in [Versions -> [status : VersionStatuses, no : Nat,
                                       sha256 : Contents \cup {None}, jobs : BOOLEAN]]
         /\ NothingBefore' /\ HasLatest' /\ ReadyWasProcessed' /\ Advances
<1>1. /\ version'[v] = row /\ \A u \in Versions \ {v} : version'[u] = version[u]
      /\ \A u \in Versions : version[u].status \in VersionStatuses /\ version[u].no \in Nat
      /\ row.no \in Nat
  BY DEF DocInv, DocTypeOK
<1>2. version' \in [Versions -> [status : VersionStatuses, no : Nat,
                                 sha256 : Contents \cup {None}, jobs : BOOLEAN]]
  BY DEF DocInv, DocTypeOK
<1>3. NothingBefore'
  <2>1. \A u \in Versions : version'[u].status = "absent" => version'[u].no = 0
    BY <1>1 DEF NothingBefore, DocInv
  <2> QED BY <2>1 DEF NothingBefore
<1>4. HasLatest'
  <2>1. PICK w \in Versions : \A u \in Versions : version[u].no <= version[w].no
    BY DEF DocInv, HasLatest
  <2>2. row.no >= version[v].no
    BY <1>1 DEF DocInv, NothingBefore
  <2>3. CASE row.no <= version'[w].no
    BY <1>1, <2>1, <2>2, <2>3 DEF HasLatest
  <2>4. CASE row.no > version'[w].no
    <3>1. \A u \in Versions : version'[u].no <= version'[v].no
      BY <1>1, <2>1, <2>2, <2>4
    <3> QED BY <3>1 DEF HasLatest
  <2>5. version'[w].no \in Nat
    BY <1>1
  <2> QED BY <1>1, <2>3, <2>4, <2>5
<1>5. ReadyWasProcessed'
  BY <1>1 DEF DocInv, ReadyIsTrue, ReadyWasProcessed
<1>6. Advances
  <2>1. \A u \in Versions : Rank(version[u].status) \in 0 .. 3
    BY <1>1, RankFacts
  <2> QED BY <1>1, <2>1 DEF Advances
<1> QED BY <1>2, <1>3, <1>4, <1>5, <1>6

(* The current version keeps its content while versions advance.           *)
LEMMA CurrentStaysShown ==
  ASSUME DocInv, DocTypeOK', Advances, document' = document
  PROVE  CurrentIsShown'
<1>1. \A v \in Versions : version[v].status \in VersionStatuses /\ version'[v].status \in VersionStatuses
  BY DEF DocInv, DocTypeOK
<1>2. \A v \in Versions : /\ Rank(version[v].status) \in 0 .. 3 /\ Rank(version'[v].status) \in 0 .. 3
                         /\ Rank(version[v].status) <= Rank(version'[v].status)
  BY <1>1, RankFacts DEF Advances
<1>3. document.current \in Versions \cup {None}
  BY DEF DocInv, DocTypeOK
<1> QED BY <1>2, <1>3 DEF DocInv, ReadyIsTrue, CurrentIsShown

(* The insert of a drawn version: it was absent, and others drew others.   *)
LEMMA InsertVersionKeepsInv == ASSUME DocInv, NEW h \in Handlers, InsertVersion(h) PROVE DocInv'
<1> DEFINE v == request[h].version
           row == [version[v] EXCEPT !.status = "upload_pending", !.no = request[h].no]
<1>1. /\ v \in Versions /\ request[h].no \in Nat /\ version[v].status = "absent"
      /\ DocumentExists /\ DocTypeOK
      /\ \A g \in Handlers \ {h} : request[g].pc = "insertVersion" =>
           request[g].version # v /\ version[request[g].version].status = "absent"
  BY DocLocalsByStep DEF DocInv, InsertVersion, At, DocRequestOK, InsertLocals
<1>2. Return(h) /\ UNCHANGED <<document, object, verified>>
  BY DEF InsertVersion
<1>3. verified' \subseteq Versions
  BY <1>1, <1>2 DEF DocTypeOK
<1>4. CASE version' = version
  <2>1. \A g \in Handlers \ {h} : request[g].pc = "insertVersion" =>
          version'[request[g].version].status = "absent"
    BY <1>1, <1>4
  <2> QED BY <1>2, <1>3, <1>4, <2>1, DocTablesStay, DocEnd
<1>5. CASE version' = [version EXCEPT ![v] = row]
  <2>1. /\ row \in [status : VersionStatuses, no : Nat, sha256 : Contents \cup {None}, jobs : BOOLEAN]
        /\ row.status = "upload_pending"
    BY <1>1 DEF DocTypeOK, VersionStatuses
  <2> HIDE DEF row
  <2>2. Rank(version[v].status) <= Rank(row.status) /\ row.status # "absent"
    BY <1>1, <2>1, RankFacts
  <2>3. /\ version' \in [Versions -> [status : VersionStatuses, no : Nat,
                                      sha256 : Contents \cup {None}, jobs : BOOLEAN]]
        /\ NothingBefore' /\ HasLatest' /\ ReadyWasProcessed' /\ Advances
    BY <1>1, <1>2, <1>5, <2>1, <2>2, RowMoves DEF DocumentExists
  <2>4. DocTypeOK'
    BY <1>1, <1>2, <2>3 DEF DocTypeOK
  <2>5. ReadyIsTrue'
    BY <1>2, <2>3, <2>4, CurrentStaysShown DEF ReadyIsTrue
  <2>6. \A g \in Handlers \ {h} : request[g].pc = "insertVersion" =>
          version'[request[g].version] = version[request[g].version]
    BY <1>1, <1>5, DocLocalsByStep DEF DocInv, InsertLocals, DocTypeOK
  <2>7. \A g \in Handlers \ {h} : request[g].pc = "insertVersion" =>
          version'[request[g].version].status = "absent"
    BY <1>1, <2>6
  <2> QED BY <1>1, <1>2, <2>3, <2>4, <2>5, <2>7, DocEnd DEF DocumentExists
<1> QED BY <1>4, <1>5 DEF InsertVersion

(* A version that is announced is none of those that are drawn.            *)
LEMMA DrawnStayAbsent ==
  ASSUME DocInv, NEW v \in Versions, version[v].status # "absent",
         \A u \in Versions \ {v} : version'[u] = version[u]
  PROVE  \A g \in Handlers : request[g].pc = "insertVersion" =>
           version'[request[g].version].status = "absent"
<1>1. \A g \in Handlers : request[g].pc = "insertVersion" =>
        request[g].version \in Versions /\ version[request[g].version].status = "absent"
  BY DocLocalsByStep DEF DocInv, DocRequestOK, InsertLocals
<1> QED BY <1>1

(* Content that comes late finds the version no longer pending.            *)
LEMMA RecordContentKeepsInv == ASSUME DocInv, NEW h \in Handlers, RecordContent(h) PROVE DocInv'
<1> DEFINE v == request[h].version
           row == [version[v] EXCEPT !.status = "uploaded", !.sha256 = request[h].sha256]
<1>1. /\ v \in Versions /\ request[h].sha256 \in Contents /\ version[v].status # "absent"
      /\ DocumentExists /\ DocTypeOK
  BY DocLocalsByStep DEF DocInv, RecordContent, At, DocRequestOK, ContentLocals
<1>2. /\ Return(h) /\ UNCHANGED <<document, object, verified>>
      /\ verified' \subseteq Versions
  BY <1>1 DEF RecordContent, DocTypeOK
<1>3. version' = version \/ (version[v].status = "upload_pending" /\ version' = [version EXCEPT ![v] = row])
  BY DEF RecordContent
<1>4. \A g \in Handlers : request[g].pc = "insertVersion" =>
        version'[request[g].version].status = "absent"
  <2>1. \A u \in Versions \ {v} : version'[u] = version[u]
    BY <1>1, <1>3 DEF DocTypeOK
  <2> QED BY <1>1, <2>1, DrawnStayAbsent
<1>5. CASE version' = version
  BY <1>2, <1>4, <1>5, DocTablesStay, DocEnd
<1>6. CASE version[v].status = "upload_pending" /\ version' = [version EXCEPT ![v] = row]
  <2>1. /\ row \in [status : VersionStatuses, no : Nat, sha256 : Contents \cup {None}, jobs : BOOLEAN]
        /\ row.status = "uploaded" /\ row.no = version[v].no
    BY <1>1 DEF DocTypeOK, VersionStatuses
  <2> HIDE DEF row
  <2>2. Rank(version[v].status) <= Rank(row.status)
    BY <1>6, <2>1, RankFacts
  <2>3. /\ version' \in [Versions -> [status : VersionStatuses, no : Nat,
                                      sha256 : Contents \cup {None}, jobs : BOOLEAN]]
        /\ NothingBefore' /\ HasLatest' /\ ReadyWasProcessed' /\ Advances
    BY <1>1, <1>2, <1>6, <2>1, <2>2, RowMoves DEF DocumentExists
  <2>4. DocTypeOK'
    BY <1>1, <1>2, <2>3 DEF DocTypeOK
  <2>5. ReadyIsTrue'
    BY <1>2, <2>3, <2>4, CurrentStaysShown DEF ReadyIsTrue
  <2> QED BY <1>1, <1>2, <1>4, <2>3, <2>4, <2>5, DocEnd DEF DocumentExists
<1> QED BY <1>3, <1>5, <1>6

(* A completion goes on with the object announced, or on a client's word.  *)
LEMMA VerifyKeepsInv == ASSUME DocInv, NEW h \in Handlers, VerifyObject(h) PROVE DocInv'
<1> DEFINE v == request[h].version
<1>1. /\ request[h] \in VerifyLocals /\ v \in Versions /\ version[v].status # "absent"
      /\ DocumentExists /\ DocTypeOK
  BY DocLocalsByStep DEF DocInv, VerifyObject, At, DocRequestOK, VerifyLocals
<1>2. /\ UNCHANGED <<document, version, object>>
      /\ verified \subseteq verified' /\ verified' \subseteq Versions
  BY <1>1 DEF VerifyObject, DocTypeOK
<1>3. \A g \in Handlers : request[g].pc = "insertVersion" =>
        version'[request[g].version].status = "absent"
  BY <1>1, <1>2, DrawnStayAbsent
<1>4. CASE Return(h)
  BY <1>2, <1>3, <1>4, DocTablesStay, DocEnd
<1>5. CASE Proceed(h, "process") /\ v \in verified'
  <2> DEFINE next == [request[h] EXCEPT !.pc = "process"]
  <2>1. next \in DocLocals /\ next.pc = "process" /\ next.version = v
    BY <1>1 DEF VerifyLocals, DocLocals
  <2>2. Goto(h, next) /\ request' = [request EXCEPT ![h] = next]
    BY <1>5 DEF Proceed, Goto
  <2> HIDE DEF next
  <2>3. request'[h] = next
    BY <2>2 DEF DocInv
  <2>4. DocRequestOK(h)'
    BY <1>1, <1>2, <1>5, <2>1, <2>3 DEF DocRequestOK, DocumentExists
  <2> QED BY <1>2, <1>3, <2>1, <2>2, <2>4, DocTablesStay, DocMove
<1> QED BY <1>4, <1>5 DEF VerifyObject

(* The completed version becomes ready and current.                        *)
LEMMA ProcessKeepsInv == ASSUME DocInv, NEW h \in Handlers, ProcessVersion(h) PROVE DocInv'
<1> DEFINE v == request[h].version
           row == [version[v] EXCEPT !.status = "ready", !.jobs = TRUE, !.sha256 = request[h].sha256]
<1>1. /\ v \in Versions /\ request[h].sha256 \in Contents \cup {None} /\ v \in verified
      /\ version[v].status # "absent" /\ DocumentExists /\ DocTypeOK
  BY DocLocalsByStep DEF DocInv, ProcessVersion, At, DocRequestOK, VerifyLocals
<1>2. /\ Return(h) /\ UNCHANGED <<object, verified>>
      /\ version' = [version EXCEPT ![v] = row]
      /\ document' = [document EXCEPT !.status = "ready", !.current = v]
  BY DEF ProcessVersion
<1>3. \A g \in Handlers : request[g].pc = "insertVersion" =>
        version'[request[g].version].status = "absent"
  <2>1. \A u \in Versions \ {v} : version'[u] = version[u]
    BY <1>1, <1>2 DEF DocTypeOK
  <2> QED BY <1>1, <2>1, DrawnStayAbsent
<1>4. document'.status = "ready" /\ document'.current = v /\ DocumentExists'
  BY <1>1, <1>2 DEF DocTypeOK, DocumentExists
<1>5. /\ row \in [status : VersionStatuses, no : Nat, sha256 : Contents \cup {None}, jobs : BOOLEAN]
      /\ row.status = "ready" /\ row.no = version[v].no /\ row.jobs
  BY <1>1 DEF DocTypeOK, VersionStatuses
<1> HIDE DEF row
<1>6. Rank(version[v].status) <= Rank(row.status) /\ Rank(row.status) = 3
  <2>1. Rank(row.status) = 3
    BY <1>5, RankFacts
  <2>2. Rank(version[v].status) \in 0 .. 3
    BY <1>1, RankFacts DEF DocTypeOK
  <2> QED BY <2>1, <2>2
<1>7. /\ version' \in [Versions -> [status : VersionStatuses, no : Nat,
                                    sha256 : Contents \cup {None}, jobs : BOOLEAN]]
      /\ NothingBefore' /\ HasLatest' /\ ReadyWasProcessed' /\ Advances
  BY <1>1, <1>2, <1>4, <1>5, <1>6, RowMoves
<1>8. DocTypeOK'
  BY <1>1, <1>2, <1>7 DEF DocTypeOK, DocumentStatuses, VersionStatuses
<1>9. ReadyIsTrue'
  <2>1. version'[v].status = row.status
    BY <1>1, <1>2 DEF DocTypeOK
  <2>2. document'.current # None /\ Rank(version'[document'.current].status) >= 2
    BY <1>1, <1>4, <1>6, <2>1, DocumentAssumption
  <2> QED BY <1>7, <2>2 DEF ReadyIsTrue, CurrentIsShown
<1>10. document'.current # None
  BY <1>1, <1>4, DocumentAssumption
<1> QED BY <1>1, <1>2, <1>3, <1>4, <1>7, <1>8, <1>9, <1>10, DocEnd

(* The document's row changes alone.                                       *)
LEMMA DocumentMoves ==
  ASSUME DocInv, UNCHANGED <<version, verified>>, DocumentExists => DocumentExists',
         document'.status = "ready" => document'.current # None,
         document'.current # None => Rank(version[document'.current].status) >= 2
  PROVE  /\ NothingBefore' /\ HasLatest' /\ ReadyIsTrue' /\ Advances
         /\ \A g \in Handlers : request[g].pc = "insertVersion" =>
              version'[request[g].version].status = "absent"
<1>1. NothingBefore' /\ HasLatest' /\ ReadyIsTrue'
  BY DEF DocInv, NothingBefore, HasLatest, ReadyIsTrue, ReadyWasProcessed, CurrentIsShown,
         Announced, DocumentExists
<1>2. Advances
  BY RankFacts DEF Advances, DocInv, DocTypeOK
<1>3. \A g \in Handlers : request[g].pc = "insertVersion" =>
        version'[request[g].version].status = "absent"
  BY DEF DocInv, DocRequestOK
<1> QED BY <1>1, <1>2, <1>3

(* makeCurrent and restore write what they decided one statement earlier.  *)
LEMMA DocumentStepKeepsInv ==
  ASSUME DocInv, NEW h \in Handlers, SetCurrent(h) \/ RestoreDocument(h)
  PROVE  DocInv'
<1>1. DocTypeOK /\ DocRequestOK(h) /\ DocumentExists /\ CurrentIsShown
  BY DEF DocInv, SetCurrent, RestoreDocument, At, DocRequestOK, ReadyIsTrue
<1>2. Return(h) /\ UNCHANGED <<version, object, verified>>
  BY DEF SetCurrent, RestoreDocument
<1>3. CASE SetCurrent(h)
  <2> DEFINE v == request[h].version
  <2>1. v \in Versions /\ Rank(version[v].status) >= 2
    BY <1>1, <1>3, DocLocalsByStep DEF DocInv, SetCurrent, At, CurrentLocals, DocRequestOK
  <2>2. DocTypeOK' /\ document'.current = v /\ document'.status = document.status
    BY <1>1, <1>2, <1>3, <2>1 DEF SetCurrent, DocTypeOK
  <2>3. /\ DocumentExists' /\ document'.current # None
        /\ Rank(version[document'.current].status) >= 2
    BY <1>1, <2>1, <2>2, DocumentAssumption DEF DocumentExists
  <2> QED BY <1>2, <2>2, <2>3, DocumentMoves, DocEnd
<1>4. CASE RestoreDocument(h)
  <2>1. /\ request[h].status \in {"upload_pending", "ready"}
        /\ request[h].status = "ready" => document.current # None
    BY <1>1, <1>4, DocLocalsByStep DEF DocInv, RestoreDocument, At, RestoreLocals, DocRequestOK
  <2>2. /\ DocTypeOK' /\ document'.current = document.current
        /\ document'.status = request[h].status
    BY <1>1, <1>2, <1>4, <2>1 DEF RestoreDocument, DocTypeOK, DocumentStatuses, VersionStatuses
  <2>3. /\ DocumentExists' /\ (document'.status = "ready" => document'.current # None)
        /\ document'.current # None => Rank(version[document'.current].status) >= 2
    BY <1>1, <2>1, <2>2 DEF DocumentExists, CurrentIsShown
  <2>4. document.current # None => document'.current # None
    BY <2>2
  <2> QED BY <1>2, <2>2, <2>3, <2>4, DocumentMoves, DocEnd
<1> QED BY <1>3, <1>4

(* Archiving, deleting and what clients put change no version.             *)
LEMMA ArchiveKeepsInv ==
  ASSUME DocInv, Archive \/ SoftDelete \/ \E v \in Versions : PutDocumentObject(v)
  PROVE  DocInv'
<1>1. DocTypeOK /\ CurrentIsShown /\ UNCHANGED <<version, verified, request>>
  BY DEF DocInv, ReadyIsTrue, Archive, SoftDelete, PutDocumentObject
<1>2. CASE Archive \/ SoftDelete
  <2>1. /\ DocTypeOK' /\ document'.current = document.current
        /\ document'.status \in {"archived", "soft_deleted"}
    BY <1>1, <1>2 DEF Archive, SoftDelete, DocTypeOK, DocumentStatuses
  <2>2. /\ DocumentExists' /\ document'.status # "ready"
        /\ document'.current # None => Rank(version[document'.current].status) >= 2
    BY <1>1, <2>1 DEF DocumentExists, CurrentIsShown
  <2> QED BY <1>1, <2>1, <2>2, DocumentMoves, DocTablesMove
<1>3. CASE \E v \in Versions : PutDocumentObject(v)
  <2>1. DocTypeOK' /\ document' = document
    BY <1>1, <1>3 DEF PutDocumentObject, DocTypeOK
  <2>2. /\ document'.status = "ready" => document'.current # None
        /\ document'.current # None => Rank(version[document'.current].status) >= 2
    BY <1>1, <2>1 DEF CurrentIsShown
  <2> QED BY <1>1, <2>1, <2>2, DocumentMoves, DocTablesMove DEF DocumentExists
<1> QED BY <1>2, <1>3

(* The first version comes with its document, before any request.          *)
LEMMA CreateKeepsInv ==
  ASSUME DocInv, NEW v \in Versions, CreateDocument(v) \/ CreateRunArtifact(v)
  PROVE  DocInv'
<1>1. DocTypeOK /\ NothingBefore /\ ~DocumentExists /\ CurrentIsShown
  BY DEF DocInv, CreateDocument, CreateRunArtifact, ReadyIsTrue
<1>2. \A u \in Versions : version[u].status = "absent" /\ Rank(version[u].status) = 0
  BY <1>1, RankFacts DEF NothingBefore, Announced
<1>3. document.current = None
  BY <1>1, <1>2 DEF CurrentIsShown, DocTypeOK
<1>4. \A g \in Handlers : request[g].pc # "insertVersion"
  BY <1>1 DEF DocInv, DocRequestOK
<1>5. PICK status \in {"upload_pending", "processing"} :
        /\ version' = [version EXCEPT ![v] = [version[v] EXCEPT !.status = status, !.no = 1]]
        /\ status = "upload_pending" => document' = [document EXCEPT !.status = status]
        /\ status = "processing" => document' = [document EXCEPT !.status = status, !.current = v]
        /\ UNCHANGED <<object, verified, request>>
  BY DEF CreateDocument, CreateRunArtifact
<1> DEFINE row == [version[v] EXCEPT !.status = status, !.no = 1]
<1>6. /\ row \in [status : VersionStatuses, no : Nat, sha256 : Contents \cup {None}, jobs : BOOLEAN]
      /\ row.status = status /\ version' = [version EXCEPT ![v] = row]
  <2>1. version[v] \in [status : VersionStatuses, no : Nat, sha256 : Contents \cup {None},
                        jobs : BOOLEAN]
    BY <1>1 DEF DocTypeOK
  <2>2. status \in VersionStatuses
    BY DEF VersionStatuses
  <2> QED BY <1>5, <2>1, <2>2
<1>7. /\ document'.status = status /\ document' \in [status : DocumentStatuses,
           current : Versions \cup {None}, archived : BOOLEAN, deleted : BOOLEAN]
      /\ document'.current = IF status = "processing" THEN v ELSE None
  BY <1>1, <1>3, <1>5 DEF DocTypeOK, DocumentStatuses, VersionStatuses
<1> HIDE DEF row
<1>8. Rank(version[v].status) <= Rank(row.status) /\ (status = "processing" => Rank(row.status) = 3)
  BY <1>2, <1>6, RankFacts
<1>9. /\ version' \in [Versions -> [status : VersionStatuses, no : Nat,
                                    sha256 : Contents \cup {None}, jobs : BOOLEAN]]
      /\ NothingBefore' /\ HasLatest' /\ ReadyWasProcessed' /\ Advances
  BY <1>2, <1>5, <1>6, <1>7, <1>8, RowMoves DEF DocumentExists
<1>10. DocTypeOK'
  BY <1>1, <1>5, <1>7, <1>9 DEF DocTypeOK
<1>11. ReadyIsTrue'
  <2>1. version'[v] = row
    BY <1>1, <1>6 DEF DocTypeOK
  <2> QED BY <1>6, <1>7, <1>8, <1>9, <2>1 DEF ReadyIsTrue, CurrentIsShown
<1> QED BY <1>3, <1>4, <1>5, <1>7, <1>9, <1>10, <1>11, DocTablesMove DEF DocumentExists

(* Every step keeps the invariant of the documents. *)
LEMMA StepDoc == DocInv /\ [DocNext]_docVars => DocInv'
<1> SUFFICES ASSUME DocInv, [DocNext]_docVars PROVE DocInv'
  OBVIOUS
<1>0. UNCHANGED docTables =>
        /\ DocTypeOK' /\ NothingBefore' /\ HasLatest' /\ ReadyIsTrue' /\ Advances
        /\ DocumentExists => DocumentExists'
        /\ document.current # None => document'.current # None
        /\ verified \subseteq verified'
        /\ \A g \in Handlers : request[g].pc = "insertVersion" =>
             version'[request[g].version].status = "absent"
  BY DocTablesStay DEF docTables, DocInv, DocTypeOK, DocRequestOK
<1>1. CASE UNCHANGED docVars
  <2>1. UNCHANGED docTables /\ UNCHANGED request
    BY <1>1 DEF docVars
  <2> QED BY <1>0, <2>1, DocTablesMove
<1>2. ASSUME NEW h \in Handlers, Dies(h) /\ UNCHANGED docTables PROVE DocInv'
  BY <1>0, <1>2, DocEnd
<1>3. ASSUME NEW h \in Handlers, DocContinue(h) PROVE DocInv'
  BY <1>3, InsertVersionKeepsInv, RecordContentKeepsInv, VerifyKeepsInv, ProcessKeepsInv,
     DocumentStepKeepsInv DEF DocContinue
<1> QED BY <1>1, <1>2, <1>3, DocCallKeepsInv, CreateKeepsInv, ArchiveKeepsInv DEF DocNext

(* A request relies on nothing another request takes away.                 *)
THEOREM DocumentInvariant == DocSpec => []DocInv
BY InitDoc, StepDoc, PTL DEF DocSpec

(* completeUpload, makeCurrent, restore: a version is ready only after its *)
(* object was found as announced and its jobs were done, and a document    *)
(* that is ready shows a version with content.                             *)
THEOREM ReadyIsNeverTooEarly == DocSpec => []ReadyIsTrue
<1>1. DocInv => ReadyIsTrue
  BY DEF DocInv
<1> QED BY <1>1, DocumentInvariant, PTL

(* Writing a later status into one version is an advance. *)
LEMMA OneAdvances ==
  ASSUME DocTypeOK, NEW v \in Versions, NEW row, version' = [version EXCEPT ![v] = row],
         Rank(version[v].status) <= Rank(row.status)
  PROVE  Advances
<1>1. /\ version'[v] = row /\ \A u \in Versions \ {v} : version'[u] = version[u]
      /\ \A u \in Versions : version[u].status \in VersionStatuses
  BY DEF DocTypeOK
<1>2. \A u \in Versions : Rank(version[u].status) \in 0 .. 3
  BY <1>1, RankFacts
<1> QED BY <1>1, <1>2 DEF Advances

(* No step takes a version back. *)
LEMMA StepAdvances == ASSUME DocInv, [DocNext]_docVars PROVE Advances
<1>0. DocTypeOK /\ \A v \in Versions : Rank(version[v].status) \in 0 .. 3
  BY RankFacts DEF DocInv, DocTypeOK
<1>1. CASE UNCHANGED version
  BY <1>0, <1>1 DEF Advances
<1>2. ASSUME NEW h \in Handlers, InsertVersion(h) PROVE Advances
  <2> DEFINE v == request[h].version
             row == [version[v] EXCEPT !.status = "upload_pending", !.no = request[h].no]
  <2>1. v \in Versions /\ version[v].status = "absent"
    BY <1>2, DocLocalsByStep DEF DocInv, InsertVersion, At, DocRequestOK, InsertLocals
  <2>2. Rank(version[v].status) <= Rank(row.status)
    <3>1. row.status = "upload_pending"
      BY <1>0, <2>1 DEF DocTypeOK
    <3> QED BY <2>1, <3>1, RankFacts
  <2>3. version' = version \/ version' = [version EXCEPT ![v] = row]
    BY <1>2 DEF InsertVersion
  <2> QED BY <1>0, <1>1, <2>1, <2>2, <2>3, OneAdvances
<1>3. ASSUME NEW h \in Handlers, RecordContent(h) PROVE Advances
  <2> DEFINE v == request[h].version
             row == [version[v] EXCEPT !.status = "uploaded", !.sha256 = request[h].sha256]
  <2>1. v \in Versions
    BY <1>3, DocLocalsByStep DEF DocInv, RecordContent, At, ContentLocals
  <2>2. version[v].status = "upload_pending" => Rank(version[v].status) <= Rank(row.status)
    <3>1. row.status = "uploaded"
      BY <1>0, <2>1 DEF DocTypeOK
    <3> QED BY <2>1, <3>1, RankFacts
  <2>3. version' = version
        \/ (version[v].status = "upload_pending" /\ version' = [version EXCEPT ![v] = row])
    BY <1>3 DEF RecordContent
  <2> QED BY <1>0, <1>1, <2>1, <2>2, <2>3, OneAdvances
<1>4. ASSUME NEW h \in Handlers, ProcessVersion(h) PROVE Advances
  <2> DEFINE v == request[h].version
             row == [version[v] EXCEPT !.status = "ready", !.jobs = TRUE,
                                       !.sha256 = request[h].sha256]
  <2>1. v \in Versions
    BY <1>4, DocLocalsByStep DEF DocInv, ProcessVersion, At, VerifyLocals
  <2>2. row.status = "ready"
    BY <1>0, <2>1 DEF DocTypeOK
  <2>3. version' = [version EXCEPT ![v] = row]
    BY <1>4 DEF ProcessVersion
  <2> HIDE DEF row
  <2>4. Rank(version[v].status) <= Rank(row.status)
    BY <1>0, <2>1, <2>2, RankFacts
  <2> QED BY <1>0, <2>1, <2>3, <2>4, OneAdvances
<1>5. ASSUME NEW v \in Versions, CreateDocument(v) \/ CreateRunArtifact(v) PROVE Advances
  <2>1. PICK status \in {"upload_pending", "processing"} :
          version' = [version EXCEPT ![v] = [version[v] EXCEPT !.status = status, !.no = 1]]
    BY <1>5 DEF CreateDocument, CreateRunArtifact
  <2>2. version[v].status = "absent"
    BY <1>5 DEF DocInv, NothingBefore, CreateDocument, CreateRunArtifact, Announced
  <2> DEFINE row == [version[v] EXCEPT !.status = status, !.no = 1]
  <2>3. row.status = status
    BY <1>0 DEF DocTypeOK
  <2>4. version' = [version EXCEPT ![v] = row]
    BY <2>1
  <2> HIDE DEF row
  <2>5. Rank(version[v].status) <= Rank(row.status)
    BY <2>2, <2>3, RankFacts
  <2> QED BY <1>0, <2>4, <2>5, OneAdvances
<1>6. ASSUME NEW h \in Handlers, DocCall(h) \/ VerifyObject(h) \/ SetCurrent(h)
                                 \/ RestoreDocument(h) \/ (Dies(h) /\ UNCHANGED docTables)
      PROVE  UNCHANGED version
  BY <1>6 DEF DocCall, AnnounceVersion, CompleteVersion, MakeCurrent, UploadContent, Restore,
              VerifyObject, SetCurrent, RestoreDocument, docTables
<1>7. CASE Archive \/ SoftDelete \/ \E v \in Versions : PutDocumentObject(v)
  BY <1>1, <1>7 DEF Archive, SoftDelete, PutDocumentObject
<1> QED BY <1>1, <1>2, <1>3, <1>4, <1>5, <1>6, <1>7 DEF DocNext, DocContinue, docVars, docTables

(* recordContent, completeUpload: what was processed is never taken back   *)
(* by a content that arrives late.                                         *)
THEOREM VersionsNeverGoBack == DocSpec => VersionsAdvance
<1>1. DocInv /\ [DocNext]_docVars =>
        [\A v \in Versions : Rank(version[v].status) <= Rank(version'[v].status)]_docVars
  BY StepAdvances DEF Advances
<1> QED BY <1>1, DocumentInvariant, PTL DEF DocSpec, VersionsAdvance

-----------------------------------------------------------------------------
(* Chat: the local variables of a request.                                 *)
FileRow == [status : FileStatuses, message : Streams \cup {None}, stored : BOOLEAN]
AskSteps == {"branch", "edit", "question"}
OpenSteps == {"files", "answer", "job", "provider", "wordless"}
SettleSteps == {"settleAnswer", "appendEvents", "settleJob"}
StreamSteps == AskSteps \cup OpenSteps \cup SettleSteps

QuestionLocals == [pc : AskSteps \cup OpenSteps, stream : Streams, files : SUBSET Files,
                   branch : Branches]
SettleLocals == [pc : SettleSteps, stream : Streams, outcome : Outcomes]
ResumeLocals == [pc : {"resume"}, resumed : Streams, status : JobStatuses]
ResumedLocals == [pc : {"resumed"}, status : JobStatuses, events : Seq(StreamEvents)]
ThreadLocals == [pc : {"update", "switch"}]
CompleteLocals == [pc : {"complete"}, file : Files, message : Streams \cup {None}]
ChatLocals == Ended \cup QuestionLocals \cup SettleLocals \cup ResumeLocals \cup ResumedLocals
                \cup ThreadLocals \cup CompleteLocals

HoldsStream(h, s) == request[h].pc \in StreamSteps /\ request[h].stream = s

(* No request will ever touch the stream again.                            *)
Over(s) == asked[s] # None /\ \A g \in Handlers : ~HoldsStream(g, s)

(* What the request that answers a stream may rely on ...                  *)
StreamOK(h) ==
  LET s == request[h].stream
  IN request[h].pc \in StreamSteps =>
       /\ asked[s] = None <=> request[h].pc \in AskSteps
       /\ job[s] \notin Outcomes
       /\ request[h].pc \in {"appendEvents", "settleJob"} => answer[s] = request[h].outcome
       /\ request[h].pc = "settleJob" => Tells(stream_events[s], request[h].outcome)

(* ... and the one that resumes it.                                        *)
ResumeOK(h) ==
  /\ request[h].pc = "resume" /\ request[h].status \in Outcomes =>
       /\ Over(request[h].resumed)
       /\ Tells(stream_events[request[h].resumed], request[h].status)
  /\ request[h].pc = "resumed" /\ request[h].status \in Outcomes =>
       Tells(request[h].events, request[h].status)

OwnStreams == \A g, h \in Handlers : \A s \in Streams : HoldsStream(g, s) /\ HoldsStream(h, s) => g = h
NothingUnasked == \A s \in Streams : asked[s] = None => job[s] = "absent"

ChatInv == /\ ChatTypeOK /\ request \in [Handlers -> ChatLocals]
           /\ OwnStreams /\ NothingUnasked /\ SettledStreamIsWhole
           /\ \A h \in Handlers : StreamOK(h) /\ ResumeOK(h)

StreamKept(s) ==
  /\ asked'[s] = asked[s] /\ answer'[s] = answer[s]
  /\ stream_events'[s] = stream_events[s]
  /\ job'[s] = job[s] \/ (job[s] # "absent" /\ job'[s] = "cancelled")

(* At each statement a request has the locals of its operation. *)
LEMMA ChatLocalsByStep ==
  ASSUME request \in [Handlers -> ChatLocals], NEW h \in Handlers
  PROVE  /\ request[h].pc \in AskSteps \cup OpenSteps => request[h] \in QuestionLocals
         /\ request[h].pc \in SettleSteps => request[h] \in SettleLocals
         /\ request[h].pc \in StreamSteps =>
              request[h].stream \in Streams /\ "stream" \in DOMAIN request[h]
         /\ request[h].pc = "resume" => request[h] \in ResumeLocals
         /\ request[h].pc = "resumed" => request[h] \in ResumedLocals
         /\ request[h].pc = "complete" => request[h] \in CompleteLocals
<1>1. request[h] \in ChatLocals
  OBVIOUS
<1>2. /\ request[h].pc \in AskSteps \cup OpenSteps => request[h] \in QuestionLocals
      /\ request[h].pc \in SettleSteps => request[h] \in SettleLocals
      /\ request[h].pc = "resume" => request[h] \in ResumeLocals
      /\ request[h].pc = "resumed" => request[h] \in ResumedLocals
      /\ request[h].pc = "complete" => request[h] \in CompleteLocals
  BY <1>1 DEF ChatLocals, Ended, QuestionLocals, SettleLocals, ResumeLocals, ResumedLocals,
              ThreadLocals, CompleteLocals, AskSteps, OpenSteps, SettleSteps
<1>3. request[h].pc \in StreamSteps =>
        request[h].stream \in Streams /\ "stream" \in DOMAIN request[h]
  BY <1>2 DEF StreamSteps, QuestionLocals, SettleLocals
<1> QED BY <1>2, <1>3

(* The invariant of the chat holds at first. *)
LEMMA InitChat == ChatInit => ChatInv
<1> SUFFICES ASSUME ChatInit PROVE ChatInv
  OBVIOUS
<1>1. ChatTypeOK
  BY ChatAssumption DEF ChatInit, ChatTypeOK, Branches, ThreadStatuses, JobStatuses, FileStatuses
<1>2. request \in [Handlers -> ChatLocals] /\ \A h \in Handlers : request[h].pc = "idle"
  BY DEF ChatInit, RequestsInit, Idle, ChatLocals, Ended
<1>3. OwnStreams /\ \A h \in Handlers : StreamOK(h) /\ ResumeOK(h)
  BY <1>2 DEF OwnStreams, HoldsStream, StreamOK, ResumeOK, StreamSteps, AskSteps, OpenSteps, SettleSteps
<1>4. NothingUnasked /\ SettledStreamIsWhole
  BY DEF ChatInit, NothingUnasked, SettledStreamIsWhole, Outcomes
<1> QED BY <1>1, <1>2, <1>3, <1>4 DEF ChatInv

(* A step that no request makes.                                           *)
LEMMA ChatTablesMove ==
  ASSUME ChatInv, ChatTypeOK', UNCHANGED request, \A s \in Streams : StreamKept(s)
  PROVE  ChatInv'
<1>1. OwnStreams'
  BY DEF ChatInv, OwnStreams, HoldsStream
<1>2. NothingUnasked' /\ SettledStreamIsWhole'
  BY DEF ChatInv, NothingUnasked, SettledStreamIsWhole, StreamKept, Outcomes
<1>3. ASSUME NEW h \in Handlers PROVE StreamOK(h)' /\ ResumeOK(h)'
  <2>1. StreamOK(h) /\ ResumeOK(h) /\ request'[h] = request[h]
    BY DEF ChatInv
  <2>2. /\ request[h].pc \in StreamSteps => request[h].stream \in Streams
        /\ request[h].pc = "resume" => request[h].resumed \in Streams
    BY ChatLocalsByStep DEF ChatInv, ResumeLocals
  <2>3. StreamOK(h)'
    BY <2>1, <2>2 DEF StreamOK, StreamKept, Outcomes
  <2>4. request[h].pc = "resume" /\ Over(request[h].resumed) => Over(request[h].resumed)'
    BY <2>2 DEF Over, HoldsStream, StreamKept
  <2>5. ResumeOK(h)'
    BY <2>1, <2>2, <2>4 DEF ResumeOK, Over, StreamKept
  <2> QED BY <2>3, <2>5
<1> QED BY <1>1, <1>2, <1>3 DEF ChatInv

(* A request moves: it touches no stream but its own, and takes on only a  *)
(* fresh one.                                                              *)
LEMMA ChatMove ==
  ASSUME ChatInv, ChatTypeOK', NEW h \in Handlers, NEW next \in ChatLocals, Goto(h, next),
         StreamOK(h)', ResumeOK(h)',
         \A s \in Streams :
           \/ StreamKept(s)
           \/ /\ HoldsStream(h, s) /\ asked'[s] # None
              /\ job'[s] \in Outcomes => answer'[s] = job'[s] /\ Tells(stream_events'[s], job'[s]),
         next.pc \in StreamSteps => HoldsStream(h, next.stream) \/ Fresh(next.stream)
  PROVE  ChatInv'
<1>1. /\ request' \in [Handlers -> ChatLocals] /\ request'[h] = next
      /\ \A g \in Handlers \ {h} : request'[g] = request[g]
  BY OneMoves DEF ChatInv
<1>2. \A g \in Handlers, s \in Streams : HoldsStream(g, s) => "stream" \in DOMAIN request[g]
  BY ChatLocalsByStep DEF ChatInv, HoldsStream
<1>3. \A s \in Streams : Fresh(s) => asked[s] = None /\ \A g \in Handlers : ~HoldsStream(g, s)
  BY <1>2 DEF Fresh, HoldsStream
<1>4. OwnStreams'
  <2>1. \A g \in Handlers \ {h}, s \in Streams : ~(HoldsStream(g, s) /\ request'[h].pc \in StreamSteps
                                                    /\ request'[h].stream = s)
    BY <1>1, <1>3 DEF ChatInv, OwnStreams
  <2>2. \A f, g \in Handlers \ {h}, s \in Streams : HoldsStream(f, s) /\ HoldsStream(g, s) => f = g
    BY DEF ChatInv, OwnStreams
  <2> QED BY <1>1, <2>1, <2>2 DEF OwnStreams, HoldsStream
<1>5. NothingUnasked' /\ SettledStreamIsWhole'
  BY DEF ChatInv, NothingUnasked, SettledStreamIsWhole, StreamKept, Outcomes
<1>6. ASSUME NEW g \in Handlers \ {h} PROVE StreamOK(g)' /\ ResumeOK(g)'
  <2>1. StreamOK(g) /\ ResumeOK(g) /\ request'[g] = request[g]
    BY <1>1 DEF ChatInv
  <2>2. StreamOK(g)'
    <3>1. CASE request[g].pc \in StreamSteps
      <4> DEFINE s == request[g].stream
      <4>1. s \in Streams /\ HoldsStream(g, s)
        BY <3>1, ChatLocalsByStep DEF ChatInv, HoldsStream
      <4>2. StreamKept(s)
        BY <4>1 DEF ChatInv, OwnStreams
      <4>3. /\ asked'[s] = asked[s] /\ answer'[s] = answer[s]
            /\ stream_events'[s] = stream_events[s]
            /\ job[s] \notin Outcomes => job'[s] \notin Outcomes
        BY <4>2 DEF StreamKept, Outcomes
      <4>4. request'[g].stream = s
        BY <2>1
      <4> HIDE DEF s
      <4> QED BY <2>1, <4>3, <4>4 DEF StreamOK, s
    <3>2. CASE request[g].pc \notin StreamSteps
      BY <2>1, <3>2 DEF StreamOK
    <3> QED BY <3>1, <3>2
  <2>3. ASSUME request[g].pc = "resume", request[g].status \in Outcomes
        PROVE  Over(request[g].resumed)' /\ stream_events'[request[g].resumed]
                                              = stream_events[request[g].resumed]
    <3> DEFINE r == request[g].resumed
    <3>1. r \in Streams /\ asked[r] # None /\ \A f \in Handlers : ~HoldsStream(f, r)
      BY <2>1, <2>3, ChatLocalsByStep DEF ChatInv, ResumeLocals, ResumeOK, Over
    <3>2. StreamKept(r)
      BY <3>1
    <3>3. ~(request'[h].pc \in StreamSteps /\ request'[h].stream = r)
      BY <1>1, <1>3, <3>1
    <3>4. \A f \in Handlers \ {h} : ~(request'[f].pc \in StreamSteps /\ request'[f].stream = r)
      BY <1>1, <3>1 DEF HoldsStream
    <3>5. /\ request'[g].resumed = r /\ stream_events'[r] = stream_events[r] /\ asked'[r] # None
          /\ \A f \in Handlers : ~(request'[f].pc \in StreamSteps /\ request'[f].stream = r)
      BY <2>1, <3>1, <3>2, <3>3, <3>4 DEF StreamKept
    <3> HIDE DEF r
    <3> QED BY <3>5 DEF Over, HoldsStream, r
  <2>4. ResumeOK(g)'
    BY <2>1, <2>3 DEF ResumeOK, Over
  <2> QED BY <2>2, <2>4
<1> QED BY <1>1, <1>4, <1>5, <1>6 DEF ChatInv

(* A request ends, or goes on to look at no stream.                        *)
LEMMA ChatAside ==
  ASSUME ChatInv, ChatTypeOK', \A s \in Streams : StreamKept(s), NEW h \in Handlers,
         NEW next \in Ended \cup ThreadLocals \cup CompleteLocals, Goto(h, next)
  PROVE  ChatInv'
<1>1. next \in ChatLocals /\ next.pc \in {"idle", "dead", "update", "switch", "complete"}
  BY DEF ChatLocals, Ended, ThreadLocals, CompleteLocals
<1>2. request' = [request EXCEPT ![h] = next] /\ request \in [Handlers -> ChatLocals]
  BY DEF ChatInv, Goto
<1>3. request'[h] = next
  BY <1>2
<1>4. StreamOK(h)' /\ ResumeOK(h)' /\ next.pc \notin StreamSteps
  BY <1>1, <1>3 DEF StreamOK, ResumeOK, StreamSteps, AskSteps, OpenSteps, SettleSteps
<1> QED BY <1>1, <1>4, ChatMove

(* Cancelling, the thread's life and the files touch no request.           *)
LEMMA ChatOthersKeepInv ==
  ASSUME ChatInv,
         \/ \E s \in Streams : CancelStream(s)
         \/ \E status \in ThreadStatuses : SetThreadLifecycle(status)
         \/ \E f \in Files : CreateUploadIntent(f) \/ PutObject(f) \/ DeleteFile(f)
  PROVE  ChatInv'
<1>0. ChatTypeOK
  BY DEF ChatInv
<1>1. CASE \E s \in Streams : CancelStream(s)
  <2>1. PICK s \in Streams : CancelStream(s)
    BY <1>1
  <2>2. ChatTypeOK' /\ UNCHANGED request
    BY <1>0, <2>1 DEF CancelStream, ChatTypeOK, JobStatuses
  <2>3. \A u \in Streams : StreamKept(u)
    BY <1>0, <2>1 DEF CancelStream, ChatTypeOK, StreamKept
  <2> QED BY <2>2, <2>3, ChatTablesMove
<1>2. CASE \E status \in ThreadStatuses : SetThreadLifecycle(status)
  <2>1. ChatTypeOK' /\ UNCHANGED request
    BY <1>0, <1>2 DEF SetThreadLifecycle, ChatTypeOK, ThreadStatuses
  <2>2. \A u \in Streams : StreamKept(u)
    BY <1>2 DEF SetThreadLifecycle, StreamKept
  <2> QED BY <2>1, <2>2, ChatTablesMove
<1>3. ASSUME NEW f \in Files, CreateUploadIntent(f) \/ PutObject(f) \/ DeleteFile(f)
      PROVE  ChatInv'
  <2>0. file \in [Files -> FileRow] /\ "deleted" \in FileStatuses /\ "pending_upload" \in FileStatuses
    BY <1>0 DEF ChatTypeOK, FileRow, FileStatuses
  <2>1. file' \in [Files -> FileRow]
    <3>1. CASE PutObject(f)
      BY <2>0, <3>1 DEF PutObject, FileRow
    <3>2. CASE CreateUploadIntent(f)
      BY <2>0, <3>2 DEF CreateUploadIntent, FileRow
    <3>3. CASE DeleteFile(f)
      BY <2>0, <3>3 DEF DeleteFile, FileRow
    <3> QED BY <1>3, <3>1, <3>2, <3>3
  <2>2. UNCHANGED <<thread, asked, answer, job, stream_events, request>>
    BY <1>3 DEF CreateUploadIntent, PutObject, DeleteFile
  <2>3. ChatTypeOK' /\ \A u \in Streams : StreamKept(u)
    BY <1>0, <2>1, <2>2 DEF ChatTypeOK, StreamKept, FileRow
  <2> QED BY <2>2, <2>3, ChatTablesMove
<1> QED BY <1>1, <1>2, <1>3

(* Statements about the thread and the files, and ends of a request.       *)
LEMMA ChatAsideKeepsInv ==
  ASSUME ChatInv, NEW h \in Handlers,
         \/ ChangeThread(h) \/ UpdateThread(h) \/ SwitchBranch(h) \/ Resumed(h)
         \/ LeaveWordless(h) \/ \E f \in Files : CompleteStart(h, f)
         \/ CompleteUpload(h) \/ (Dies(h) /\ UNCHANGED chatTables)
  PROVE  ChatInv'
<1>0. ChatTypeOK /\ UNCHANGED <<asked, answer, job, stream_events>>
  BY DEF ChatInv, ChangeThread, UpdateThread, SwitchBranch, CompleteStart, CompleteUpload,
         Resumed, LeaveWordless, chatTables
<1>1. \A s \in Streams : StreamKept(s)
  BY <1>0 DEF StreamKept
<1>2. thread' \in [status : ThreadStatuses, branch : Branches, branches : Branches]
  <2>1. thread \in [status : ThreadStatuses, branch : Branches, branches : Branches]
    BY <1>0 DEF ChatTypeOK
  <2>2. CASE UpdateThread(h)
    BY <2>1, <2>2 DEF UpdateThread
  <2>3. CASE SwitchBranch(h)
    BY <2>1, <2>3, ChatAssumption DEF SwitchBranch, Branches
  <2>4. CASE UNCHANGED thread
    BY <2>1, <2>4
  <2> QED BY <2>2, <2>3, <2>4 DEF ChangeThread, CompleteStart, CompleteUpload, Resumed,
                                  LeaveWordless, chatTables
<1>3. file' \in [Files -> FileRow]
  <2>1. file \in [Files -> FileRow]
    BY <1>0 DEF ChatTypeOK, FileRow
  <2>2. CASE CompleteUpload(h)
    <3> DEFINE f == request[h].file
               m == request[h].message
               row == [file[f] EXCEPT !.status = IF m = None THEN "uploaded" ELSE "attached",
                                      !.message = IF m = None THEN file[f].message ELSE m]
    <3>1. f \in Files /\ m \in Streams \cup {None}
      BY <2>2, ChatLocalsByStep DEF ChatInv, CompleteUpload, At, CompleteLocals
    <3>2. row \in FileRow
      <4>1. file[f] \in FileRow /\ file[f].message \in Streams \cup {None}
        BY <2>1, <3>1 DEF FileRow
      <4>2. "uploaded" \in FileStatuses /\ "attached" \in FileStatuses
        BY DEF FileStatuses
      <4> QED BY <3>1, <4>1, <4>2 DEF FileRow
    <3>3. file' = file \/ file' = [file EXCEPT ![f] = row]
      <4>1. file' = file \/ file' = Completed(f, m)
        BY <2>2 DEF CompleteUpload
      <4>2. Completed(f, m) = [file EXCEPT ![f] = row]
        BY <2>1, <3>1 DEF Completed, FileRow
      <4> QED BY <4>1, <4>2
    <3> HIDE DEF row
    <3> QED BY <2>1, <3>2, <3>3
  <2>3. CASE UNCHANGED file
    BY <2>1, <2>3
  <2> QED BY <2>2, <2>3 DEF ChangeThread, UpdateThread, SwitchBranch, CompleteStart, Resumed,
                            LeaveWordless, chatTables
<1>4. ChatTypeOK'
  BY <1>0, <1>2, <1>3 DEF ChatTypeOK, FileRow
<1>5. \E next \in Ended \cup ThreadLocals \cup CompleteLocals : Goto(h, next)
  <2>1. CASE \E f \in Files : CompleteStart(h, f)
    <3>1. PICK f \in Files, m \in {None} \cup {s \in Streams : asked[s] # None} :
            Goto(h, [pc |-> "complete", file |-> f, message |-> m])
      BY <2>1 DEF CompleteStart
    <3>2. [pc |-> "complete", file |-> f, message |-> m] \in CompleteLocals
      BY DEF CompleteLocals
    <3> QED BY <3>1, <3>2
  <2>2. CASE ChangeThread(h)
    <3>1. PICK pc \in {"update", "switch"} : Goto(h, [pc |-> pc])
      BY <2>2 DEF ChangeThread
    <3>2. [pc |-> pc] \in ThreadLocals
      BY DEF ThreadLocals
    <3> QED BY <3>1, <3>2
  <2>3. CASE Return(h) \/ Dies(h)
    <3>1. Goto(h, Idle) \/ Goto(h, [pc |-> "dead"])
      BY <2>3 DEF Return, Dies
    <3>2. Idle \in Ended /\ [pc |-> "dead"] \in Ended
      BY DEF Idle, Ended
    <3> QED BY <3>1, <3>2
  <2> QED BY <2>1, <2>2, <2>3 DEF UpdateThread, SwitchBranch, CompleteUpload, Resumed,
                                  LeaveWordless
<1> QED BY <1>1, <1>4, <1>5, ChatAside

(* Questions arrive with a fresh stream; resumes look at what there is.    *)
LEMMA ChatCallKeepsInv == ASSUME ChatInv, NEW h \in Handlers, ChatCall(h) PROVE ChatInv'
<1>0. ChatTypeOK /\ request \in [Handlers -> ChatLocals]
  BY DEF ChatInv
<1>1. ASSUME NEW s \in Streams, NEW files \in SUBSET Files, Ask(h, s, files) \/ Edit(h, s, files)
      PROVE  ChatInv'
  <2>1. PICK pc \in {"question", "branch"}, branch \in Branches :
          Goto(h, Question(pc, s, files, branch))
    BY <1>0, <1>1, ChatAssumption DEF Ask, Edit, ChatTypeOK, Branches
  <2> DEFINE next == Question(pc, s, files, branch)
  <2>2. /\ next \in QuestionLocals /\ next.pc \in AskSteps /\ next.pc # "settleJob"
        /\ next.pc \notin {"appendEvents", "settleJob", "resume", "resumed"} /\ next.stream = s
    BY DEF Question, QuestionLocals, AskSteps
  <2>3. Goto(h, next)
    BY <2>1
  <2> HIDE DEF next
  <2>4. ChatTypeOK' /\ Fresh(s) /\ UNCHANGED <<asked, answer, job, stream_events>>
    BY <1>0, <1>1 DEF Ask, Edit, chatTables, ChatTypeOK
  <2>5. request'[h] = next /\ next \in ChatLocals
    BY <1>0, <2>2, <2>3 DEF Goto, ChatLocals
  <2>6. job[s] = "absent" /\ asked[s] = None
    BY <2>4 DEF ChatInv, NothingUnasked, Fresh
  <2>7. StreamOK(h)'
    BY <2>2, <2>4, <2>5, <2>6 DEF StreamOK, Outcomes
  <2>8. ResumeOK(h)'
    BY <2>2, <2>5 DEF ResumeOK
  <2>9. \A u \in Streams : StreamKept(u)
    BY <2>4 DEF StreamKept
  <2> QED BY <2>2, <2>3, <2>4, <2>5, <2>7, <2>8, <2>9, ChatMove
<1>2. ASSUME NEW s \in Streams, ResumeStream(h, s) PROVE ChatInv'
  <2> DEFINE next == [pc |-> "resume", resumed |-> s, status |-> job[s]]
  <2>1. next \in ResumeLocals /\ next.pc = "resume" /\ next.resumed = s /\ next.status = job[s]
    BY <1>0 DEF ResumeLocals, ChatTypeOK
  <2>2. Goto(h, next) /\ UNCHANGED <<asked, answer, job, stream_events>>
    BY <1>2 DEF ResumeStream, chatTables
  <2>3. ChatTypeOK' /\ request[h].pc = "idle"
    BY <1>0, <1>2 DEF ResumeStream, chatTables, ChatTypeOK, At
  <2> HIDE DEF next
  <2>4. next \in ChatLocals /\ request'[h] = next /\ \A g \in Handlers \ {h} : request'[g] = request[g]
    BY <1>0, <2>1, <2>2 DEF Goto, ChatLocals
  <2>5. next.pc \notin StreamSteps
    BY <2>1 DEF StreamSteps, AskSteps, OpenSteps, SettleSteps
  <2>6. StreamOK(h)'
    BY <2>4, <2>5 DEF StreamOK
  <2>7. job[s] \in Outcomes =>
          asked[s] # None /\ Tells(stream_events[s], job[s]) /\ \A g \in Handlers : ~HoldsStream(g, s)
    BY DEF ChatInv, NothingUnasked, Outcomes, SettledStreamIsWhole, StreamOK, HoldsStream
  <2>8. ResumeOK(h)'
    <3>1. job[s] \in Outcomes => \A g \in Handlers : ~(request'[g].pc \in StreamSteps /\ request'[g].stream = s)
      BY <2>4, <2>5, <2>7 DEF HoldsStream
    <3> QED BY <2>1, <2>2, <2>4, <2>7, <3>1 DEF ResumeOK, Over, HoldsStream
  <2>9. \A u \in Streams : StreamKept(u)
    BY <2>2 DEF StreamKept
  <2> QED BY <2>2, <2>3, <2>4, <2>5, <2>6, <2>8, <2>9, ChatMove
<1>3. CASE ChangeThread(h) \/ \E f \in Files : CompleteStart(h, f)
  BY <1>3, ChatAsideKeepsInv
<1> QED BY <1>1, <1>2, <1>3 DEF ChatCall

(* A request goes on with its stream and the same local variables.         *)
LEMMA ChatProceeds ==
  ASSUME ChatInv, ChatTypeOK', NEW h \in Handlers, request[h] \in QuestionLocals,
         NEW pc \in AskSteps \cup OpenSteps, NEW branch \in Branches,
         Goto(h, [request[h] EXCEPT !.pc = pc, !.branch = branch]) \/ Proceed(h, pc),
         LET s == request[h].stream
         IN /\ \A u \in Streams \ {s} : StreamKept(u)
            /\ asked'[s] = None <=> pc \in AskSteps
            /\ job'[s] \notin Outcomes
            /\ StreamKept(s) \/ asked'[s] # None
  PROVE  ChatInv'
<1> DEFINE s == request[h].stream
<1>1. s \in Streams /\ request[h].pc \in StreamSteps /\ HoldsStream(h, s)
  BY DEF QuestionLocals, StreamSteps, HoldsStream
<1>2. PICK next \in QuestionLocals : Goto(h, next) /\ next.pc = pc /\ next.stream = s
  <2>1. CASE Proceed(h, pc)
    <3>1. [request[h] EXCEPT !.pc = pc] \in QuestionLocals
      BY DEF QuestionLocals
    <3>2. [request[h] EXCEPT !.pc = pc].pc = pc /\ [request[h] EXCEPT !.pc = pc].stream = s
      BY DEF QuestionLocals
    <3> QED BY <2>1, <3>1, <3>2 DEF Proceed
  <2>2. CASE Goto(h, [request[h] EXCEPT !.pc = pc, !.branch = branch])
    <3> DEFINE next == [request[h] EXCEPT !.pc = pc, !.branch = branch]
    <3>1. next \in QuestionLocals /\ next.pc = pc /\ next.stream = s
      BY DEF QuestionLocals
    <3> QED BY <2>2, <3>1
  <2> QED BY <2>1, <2>2
<1>3. next \in ChatLocals /\ request'[h] = next
  BY <1>2 DEF ChatInv, Goto, ChatLocals
<1>4. StreamOK(h)'
  <2>1. pc \notin {"appendEvents", "settleJob"}
    BY DEF AskSteps, OpenSteps
  <2> QED BY <1>2, <1>3, <2>1 DEF StreamOK
<1>5. ResumeOK(h)'
  <2>1. pc \notin {"resume", "resumed"}
    BY DEF AskSteps, OpenSteps
  <2> QED BY <1>2, <1>3, <2>1 DEF ResumeOK
<1>6. \A u \in Streams :
        \/ StreamKept(u)
        \/ /\ HoldsStream(h, u) /\ asked'[u] # None
           /\ job'[u] \in Outcomes => answer'[u] = job'[u] /\ Tells(stream_events'[u], job'[u])
  BY <1>1
<1> QED BY <1>1, <1>2, <1>3, <1>4, <1>5, <1>6, ChatMove

(* The branch, the question, its files, the answer and the job.            *)
LEMMA ChatOpensKeepInv ==
  ASSUME ChatInv, NEW h \in Handlers,
         \/ MakeBranch(h) \/ AskEdited(h) \/ InsertQuestion(h) \/ AttachFiles(h)
         \/ InsertAnswer(h) \/ StartJob(h)
  PROVE  ChatInv'
<1> DEFINE s == request[h].stream
<1>0. ChatTypeOK /\ request \in [Handlers -> ChatLocals]
  BY DEF ChatInv
<1>1. request[h].pc \in AskSteps \cup OpenSteps /\ request[h] \in QuestionLocals
  <2>1. request[h].pc \in AskSteps \cup OpenSteps
    BY DEF MakeBranch, AskEdited, InsertQuestion, AttachFiles, InsertAnswer, StartJob, At, AskSteps,
           OpenSteps
  <2> QED BY <1>0, <2>1, ChatLocalsByStep
<1>2. s \in Streams /\ request[h].branch \in Branches /\ 0 \in Branches /\ None \notin Branches
  BY <1>1, ChatAssumption DEF QuestionLocals, Branches
<1>3. /\ job[s] \notin Outcomes
      /\ asked[s] = None <=> request[h].pc \in AskSteps
  BY <1>1 DEF ChatInv, StreamOK, StreamSteps
<1>4. CASE MakeBranch(h)
  <2> DEFINE ordinal == thread.branches + 1
  <2>1. /\ thread.branches < MaxBranches /\ request[h].pc = "branch"
        /\ thread' = [thread EXCEPT !.branches = ordinal, !.branch = ordinal]
        /\ Goto(h, [request[h] EXCEPT !.pc = "edit", !.branch = ordinal])
        /\ UNCHANGED <<asked, answer, job, stream_events, file>>
    BY <1>4 DEF MakeBranch, At
  <2>2. ordinal \in Branches
    BY <1>0, <2>1, ChatAssumption DEF ChatTypeOK, Branches
  <2> HIDE DEF ordinal
  <2>3. ChatTypeOK'
    <3>1. thread' \in [status : ThreadStatuses, branch : Branches, branches : Branches]
      BY <1>0, <2>1, <2>2 DEF ChatTypeOK
    <3> QED BY <1>0, <2>1, <3>1 DEF ChatTypeOK
  <2>4. \A u \in Streams : StreamKept(u)
    BY <2>1 DEF StreamKept
  <2>5. "edit" \in AskSteps /\ request[h].pc \in AskSteps
    BY <2>1 DEF AskSteps
  <2>6. asked'[s] = asked[s] /\ job'[s] = job[s]
    BY <2>1
  <2> QED BY <1>1, <1>2, <1>3, <2>1, <2>2, <2>3, <2>4, <2>5, <2>6, ChatProceeds
<1>5. CASE AskEdited(h)
  <2>1. UNCHANGED <<thread, asked, answer, job, stream_events, file>> /\ request[h].pc = "edit"
    BY <1>5 DEF AskEdited, chatTables, At
  <2>2. ChatTypeOK' /\ \A u \in Streams : StreamKept(u)
    BY <1>0, <2>1 DEF ChatTypeOK, StreamKept
  <2>3. CASE Proceed(h, "question")
    <3>1. "question" \in AskSteps /\ request[h].pc \in AskSteps
      BY <2>1 DEF AskSteps
    <3>2. asked'[s] = asked[s] /\ job'[s] = job[s]
      BY <2>1
    <3> QED BY <1>1, <1>2, <1>3, <2>2, <2>3, <3>1, <3>2, ChatProceeds
  <2>4. CASE Return(h)
    <3>1. Idle \in Ended /\ Goto(h, Idle)
      BY <2>4 DEF Idle, Ended, Return
    <3> QED BY <2>2, <3>1, ChatAside
  <2> QED BY <1>5, <2>3, <2>4 DEF AskEdited
<1>6. CASE InsertQuestion(h)
  <2>1. PICK pc \in {"answer", "files"} : Proceed(h, pc)
    BY <1>6 DEF InsertQuestion
  <2>2. /\ asked' = [asked EXCEPT ![s] = request[h].branch]
        /\ UNCHANGED <<thread, answer, job, stream_events, file>>
    BY <1>6 DEF InsertQuestion
  <2>3. ChatTypeOK' /\ asked'[s] # None /\ job'[s] = job[s] /\ \A u \in Streams \ {s} : StreamKept(u)
    BY <1>0, <1>2, <2>2 DEF ChatTypeOK, StreamKept
  <2>4. pc \in OpenSteps /\ pc \notin AskSteps
    BY DEF AskSteps, OpenSteps
  <2> QED BY <1>1, <1>2, <1>3, <2>1, <2>3, <2>4, ChatProceeds
<1>7. CASE AttachFiles(h)
  <2>1. Proceed(h, "answer") /\ UNCHANGED <<thread, asked, answer, job, stream_events>>
    BY <1>7 DEF AttachFiles
  <2>2. file' \in [Files -> FileRow]
    <3>1. \A f \in Files : [file[f] EXCEPT !.status = "attached", !.message = s] \in FileRow
      BY <1>0, <1>2 DEF ChatTypeOK, FileRow, FileStatuses
    <3>2. \A f \in Files : file[f] \in FileRow
      BY <1>0 DEF ChatTypeOK, FileRow
    <3> QED BY <1>7, <3>1, <3>2 DEF AttachFiles
  <2>3. ChatTypeOK' /\ \A u \in Streams : StreamKept(u)
    BY <1>0, <2>1, <2>2 DEF ChatTypeOK, StreamKept, FileRow
  <2>4. "answer" \in OpenSteps /\ "answer" \notin AskSteps /\ request[h].pc \notin AskSteps
    BY <1>7 DEF AskSteps, OpenSteps, AttachFiles, At
  <2>5. asked'[s] = asked[s] /\ job'[s] = job[s]
    BY <2>1
  <2> QED BY <1>1, <1>2, <1>3, <2>1, <2>3, <2>4, <2>5, ChatProceeds
<1>8. CASE InsertAnswer(h) \/ StartJob(h)
  <2>1. PICK pc \in {"job", "provider"} : Proceed(h, pc)
    BY <1>8 DEF InsertAnswer, StartJob
  <2>2. pc \in OpenSteps /\ pc \notin AskSteps /\ request[h].pc \notin AskSteps
    BY <1>8 DEF AskSteps, OpenSteps, InsertAnswer, StartJob, At
  <2>3. ChatTypeOK' /\ asked' = asked /\ job'[s] \notin Outcomes
    <3>1. CASE InsertAnswer(h)
      BY <1>0, <1>2, <1>3, <3>1 DEF InsertAnswer, ChatTypeOK
    <3>2. CASE StartJob(h)
      <4>1. InitialEvents \in Seq(StreamEvents)
        BY DEF InitialEvents, Event, StreamEvents
      <4>2. stream_events' \in [Streams -> Seq(StreamEvents)]
        BY <1>0, <3>2, <4>1 DEF StartJob, ChatTypeOK, StreamEvents
      <4>3. job' \in [Streams -> JobStatuses] /\ job'[s] = "thinking"
        BY <1>0, <1>2, <3>2 DEF StartJob, ChatTypeOK, JobStatuses
      <4> QED BY <1>0, <3>2, <4>2, <4>3 DEF StartJob, ChatTypeOK, StreamEvents, Outcomes
    <3> QED BY <1>8, <3>1, <3>2
  <2>4. \A u \in Streams \ {s} : StreamKept(u)
    BY <1>0, <1>8 DEF InsertAnswer, StartJob, StreamKept, ChatTypeOK
  <2>5. asked'[s] # None
    BY <1>3, <2>2, <2>3
  <2> QED BY <1>1, <1>2, <2>1, <2>2, <2>3, <2>4, <2>5, ChatProceeds
<1> QED BY <1>4, <1>5, <1>6, <1>7, <1>8

(* What is told in the end is told last, after the error if there was one. *)
LEMMA FinalEventsTell ==
  ASSUME NEW told \in Seq(StreamEvents), NEW o \in Outcomes
  PROVE  WithFinalEvents(told, o) \in Seq(StreamEvents) /\ Tells(WithFinalEvents(told, o), o)
<1>1. FinalEvent(o) \in StreamEvents /\ Event("error", o) \in StreamEvents
  BY DEF FinalEvent, Event, StreamEvents
<1>2. \E before \in Seq(StreamEvents) : WithFinalEvents(told, o) = Append(before, FinalEvent(o))
  <2>1. CASE o = "failed"
    <3>1. Append(told, Event("error", o)) \in Seq(StreamEvents)
      BY <1>1
    <3>2. WithFinalEvents(told, o) = Append(Append(told, Event("error", o)), FinalEvent(o))
      BY <2>1, Zenon DEF WithFinalEvents
    <3> QED BY <3>1, <3>2, Zenon
  <2>2. CASE o # "failed"
    <3>1. WithFinalEvents(told, o) = Append(told, FinalEvent(o))
      BY <2>2, Zenon DEF WithFinalEvents
    <3> QED BY <3>1, Zenon
  <2> QED BY <2>1, <2>2
<1>3. PICK before \in Seq(StreamEvents) : WithFinalEvents(told, o) = Append(before, FinalEvent(o))
  BY <1>2
<1>4. /\ Append(before, FinalEvent(o)) \in Seq(StreamEvents) /\ Len(before) \in Nat
      /\ Len(Append(before, FinalEvent(o))) = Len(before) + 1
      /\ Append(before, FinalEvent(o))[Len(before) + 1] = FinalEvent(o)
  BY <1>1
<1>5. Append(before, FinalEvent(o)) # <<>>
  BY <1>4
<1> QED BY <1>3, <1>4, <1>5 DEF Tells

(* The provider's outcome, and the three statements that settle a stream.  *)
LEMMA ChatSettlesKeepInv ==
  ASSUME ChatInv, NEW h \in Handlers,
         CallProvider(h) \/ SettleAnswer(h) \/ AppendEvents(h) \/ SettleJob(h)
  PROVE  ChatInv'
<1> DEFINE s == request[h].stream
           o == request[h].outcome
<1>0. ChatTypeOK /\ request \in [Handlers -> ChatLocals]
  BY DEF ChatInv
<1>1. /\ request[h].pc \in StreamSteps /\ request[h].pc \notin AskSteps /\ s \in Streams
      /\ request[h].pc # "provider" => request[h] \in SettleLocals /\ o \in Outcomes
      /\ asked[s] # None /\ job[s] \notin Outcomes /\ HoldsStream(h, s)
      /\ request[h].pc \in {"appendEvents", "settleJob"} => answer[s] = o
      /\ request[h].pc = "settleJob" => Tells(stream_events[s], o)
  <2>1. request[h].pc \in {"provider"} \cup SettleSteps
    BY DEF CallProvider, SettleAnswer, AppendEvents, SettleJob, At, SettleSteps
  <2>2. request[h].pc \in StreamSteps /\ request[h].pc \notin AskSteps
    BY <2>1 DEF StreamSteps, AskSteps, OpenSteps, SettleSteps
  <2>3. request[h].pc # "provider" => request[h] \in SettleLocals
    BY <1>0, <2>1, ChatLocalsByStep
  <2>4. s \in Streams
    BY <1>0, <2>2, ChatLocalsByStep
  <2>5. StreamOK(h)
    BY DEF ChatInv
  <2> QED BY <2>2, <2>3, <2>4, <2>5 DEF StreamOK, HoldsStream, SettleLocals
<1>2. ASSUME NEW pc \in SettleSteps, NEW outcome \in Outcomes,
             Goto(h, [pc |-> pc, stream |-> s, outcome |-> outcome]), ChatTypeOK',
             asked' = asked, job' = job, \A u \in Streams \ {s} : StreamKept(u),
             pc # "settleAnswer" => answer'[s] = outcome,
             pc = "settleJob" => Tells(stream_events'[s], outcome)
      PROVE  ChatInv'
  <2> DEFINE next == [pc |-> pc, stream |-> s, outcome |-> outcome]
  <2>1. /\ next \in SettleLocals /\ next.pc = pc /\ next.stream = s /\ next.outcome = outcome
        /\ Goto(h, next)
    BY <1>1, <1>2 DEF SettleLocals
  <2> HIDE DEF next
  <2>2. next \in ChatLocals /\ request'[h] = next
    BY <1>0, <2>1 DEF Goto, ChatLocals
  <2>3. pc \notin AskSteps /\ pc \notin {"resume", "resumed"}
    BY DEF SettleSteps, AskSteps
  <2>4. StreamOK(h)'
    BY <1>1, <1>2, <2>1, <2>2, <2>3 DEF StreamOK, SettleSteps
  <2>5. ResumeOK(h)'
    BY <2>1, <2>2, <2>3 DEF ResumeOK
  <2>6. asked'[s] # None /\ job'[s] \notin Outcomes
    BY <1>1, <1>2
  <2> QED BY <1>1, <1>2, <2>1, <2>2, <2>4, <2>5, <2>6, ChatMove
<1>3. CASE CallProvider(h)
  <2>1. ChatTypeOK' /\ asked' = asked /\ job' = job /\ \A u \in Streams : StreamKept(u)
    BY <1>0, <1>3 DEF CallProvider, chatTables, ChatTypeOK, StreamKept
  <2>2. ASSUME NEW outcome \in Outcomes,
               Goto(h, [pc |-> "settleAnswer", stream |-> s, outcome |-> outcome])
        PROVE  ChatInv'
    BY <2>1, <2>2, <1>2 DEF SettleSteps
  <2>3. CASE Proceed(h, "wordless")
    <3>1. request[h] \in QuestionLocals /\ request[h].branch \in Branches
      BY <1>0, <1>3, ChatLocalsByStep DEF CallProvider, At, OpenSteps, QuestionLocals
    <3>2. "wordless" \in OpenSteps /\ "wordless" \notin AskSteps
      BY DEF OpenSteps, AskSteps
    <3>3. asked'[s] # None /\ job'[s] \notin Outcomes
      BY <1>1, <2>1
    <3> QED BY <2>1, <2>3, <3>1, <3>2, <3>3, ChatProceeds
  <2> QED BY <1>3, <2>2, <2>3 DEF CallProvider
<1>4. ASSUME NEW pc, Proceed(h, pc), request[h] \in SettleLocals
      PROVE  Goto(h, [pc |-> pc, stream |-> s, outcome |-> o])
  <2>1. [request[h] EXCEPT !.pc = pc] = [pc |-> pc, stream |-> s, outcome |-> o]
    BY <1>4 DEF SettleLocals
  <2> QED BY <1>4, <2>1 DEF Proceed
<1>5. CASE SettleAnswer(h)
  <2>1. o \in Outcomes /\ Goto(h, [pc |-> "appendEvents", stream |-> s, outcome |-> o])
    BY <1>1, <1>4, <1>5 DEF SettleAnswer, At
  <2>2. answer' = [answer EXCEPT ![s] = o] /\ UNCHANGED <<thread, asked, job, stream_events, file>>
    BY <1>5 DEF SettleAnswer
  <2>3. ChatTypeOK' /\ answer'[s] = o /\ \A u \in Streams \ {s} : StreamKept(u)
    BY <1>0, <1>1, <2>1, <2>2 DEF ChatTypeOK, StreamKept
  <2> QED BY <1>2, <2>1, <2>2, <2>3 DEF SettleSteps
<1>6. CASE AppendEvents(h)
  <2>1. /\ o \in Outcomes /\ Goto(h, [pc |-> "settleJob", stream |-> s, outcome |-> o])
        /\ answer[s] = o
    BY <1>1, <1>4, <1>6 DEF AppendEvents, At
  <2>2. /\ stream_events' = [stream_events EXCEPT ![s] = WithFinalEvents(stream_events[s], o)]
        /\ UNCHANGED <<thread, asked, answer, job, file>>
    BY <1>6 DEF AppendEvents
  <2>3. stream_events \in [Streams -> Seq(StreamEvents)]
    BY <1>0 DEF ChatTypeOK
  <2> DEFINE told == WithFinalEvents(stream_events[s], o)
  <2>4. told \in Seq(StreamEvents) /\ Tells(told, o)
    BY <1>1, <2>1, <2>3, FinalEventsTell
  <2> HIDE DEF told
  <2>5. stream_events' \in [Streams -> Seq(StreamEvents)] /\ Tells(stream_events'[s], o)
    BY <1>1, <2>2, <2>3, <2>4 DEF told
  <2>6. ChatTypeOK' /\ \A u \in Streams \ {s} : StreamKept(u)
    BY <1>0, <2>2, <2>3, <2>5 DEF ChatTypeOK, StreamEvents, StreamKept
  <2>7. answer'[s] = o
    BY <2>1, <2>2
  <2> QED BY <1>2, <2>1, <2>2, <2>5, <2>6, <2>7 DEF SettleSteps
<1>7. CASE SettleJob(h)
  <2>1. /\ job' = [job EXCEPT ![s] = o] /\ Goto(h, Idle)
        /\ UNCHANGED <<thread, asked, answer, stream_events, file>>
    BY <1>7 DEF SettleJob, Return
  <2>2. answer[s] = o /\ Tells(stream_events[s], o) /\ o \in Outcomes
    BY <1>1, <1>7 DEF SettleJob, At
  <2>3. ChatTypeOK' /\ job'[s] = o /\ \A u \in Streams \ {s} : StreamKept(u)
    BY <1>0, <1>1, <2>1, <2>2 DEF ChatTypeOK, JobStatuses, StreamKept
  <2>4. Idle \in ChatLocals /\ request'[h] = Idle /\ Idle.pc \notin StreamSteps /\ Idle.pc = "idle"
    BY <1>0, <2>1 DEF Goto, ChatLocals, Ended, Idle, StreamSteps, AskSteps, OpenSteps, SettleSteps
  <2>5. StreamOK(h)' /\ ResumeOK(h)'
    BY <2>4 DEF StreamOK, ResumeOK
  <2>6. asked'[s] # None /\ answer'[s] = job'[s] /\ Tells(stream_events'[s], job'[s])
    <3>1. stream_events'[s] = stream_events[s] /\ job'[s] = o
      BY <2>1, <2>3
    <3> QED BY <1>1, <2>1, <2>2, <3>1 DEF Tells
  <2> QED BY <1>1, <2>1, <2>3, <2>4, <2>5, <2>6, ChatMove
<1> QED BY <1>3, <1>5, <1>6, <1>7

(* The events of a stream that was over when its job was read are still    *)
(* all of them.                                                            *)
LEMMA ResumeEventsKeepsInv == ASSUME ChatInv, NEW h \in Handlers, ResumeEvents(h) PROVE ChatInv'
<1> DEFINE r == request[h].resumed
           next == [pc |-> "resumed", status |-> request[h].status, events |-> stream_events[r]]
<1>0. ChatTypeOK /\ request \in [Handlers -> ChatLocals]
  BY DEF ChatInv
<1>1. request[h].pc = "resume" /\ r \in Streams /\ request[h].status \in JobStatuses
  BY <1>0, ChatLocalsByStep DEF ResumeEvents, At, ResumeLocals
<1>2. request[h].status \in Outcomes => Tells(stream_events[r], request[h].status)
  BY <1>1 DEF ChatInv, ResumeOK
<1>3. Goto(h, next) /\ UNCHANGED <<thread, asked, answer, job, stream_events, file>>
  BY DEF ResumeEvents, chatTables
<1>4. /\ next \in ResumedLocals /\ next.pc = "resumed" /\ next.status = request[h].status
      /\ next.events = stream_events[r]
  BY <1>0, <1>1 DEF ResumedLocals, ChatTypeOK, StreamEvents
<1> HIDE DEF next
<1>5. next \in ChatLocals /\ request'[h] = next /\ next.pc \notin StreamSteps
  BY <1>0, <1>3, <1>4 DEF Goto, ChatLocals, StreamSteps, AskSteps, OpenSteps, SettleSteps
<1>6. ChatTypeOK' /\ \A u \in Streams : StreamKept(u)
  BY <1>0, <1>3 DEF ChatTypeOK, StreamKept
<1>7. StreamOK(h)'
  BY <1>5 DEF StreamOK
<1>8. ResumeOK(h)'
  BY <1>2, <1>4, <1>5 DEF ResumeOK
<1> QED BY <1>3, <1>5, <1>6, <1>7, <1>8, ChatMove

(* Every step keeps the invariant of the chat. *)
LEMMA StepChat == ChatInv /\ [ChatNext]_chatVars => ChatInv'
<1> SUFFICES ASSUME ChatInv, [ChatNext]_chatVars PROVE ChatInv'
  OBVIOUS
<1>1. CASE UNCHANGED chatVars
  <2>1. ChatTypeOK' /\ UNCHANGED request /\ \A s \in Streams : StreamKept(s)
    BY <1>1 DEF ChatInv, chatVars, chatTables, ChatTypeOK, StreamKept
  <2> QED BY <2>1, ChatTablesMove
<1>2. ASSUME NEW h \in Handlers, ChatCall(h) PROVE ChatInv'
  BY <1>2, ChatCallKeepsInv
<1>3. ASSUME NEW h \in Handlers, ChatContinue(h) PROVE ChatInv'
  BY <1>3, ChatOpensKeepInv, ChatSettlesKeepInv, ResumeEventsKeepsInv, ChatAsideKeepsInv
     DEF ChatContinue
<1>4. ASSUME NEW h \in Handlers, Dies(h) /\ UNCHANGED chatTables PROVE ChatInv'
  BY <1>4, ChatAsideKeepsInv
<1> QED BY <1>1, <1>2, <1>3, <1>4, ChatOthersKeepInv DEF ChatNext

(* However requests, cancellations and deaths interleave, a stream is      *)
(* answered by one request, and a job that says completed or failed was    *)
(* settled together with its answer and its events.                        *)
THEOREM ChatInvariant == ChatSpec => []ChatInv
<1> QED BY InitChat, StepChat, PTL DEF ChatSpec

(* A stream that is over is all there: in the tables, and for a client     *)
(* that resumeStream tells so after reading the job and then the events.   *)
THEOREM OverMeansAllOfIt == ChatSpec => []OverIsWhole
<1>1. ChatInv => OverIsWhole
  BY DEF ChatInv, OverIsWhole, ResumedIsWhole, ResumeOK, At
<1> QED BY <1>1, ChatInvariant, PTL

(* No step touches the status of a deleted file. *)
LEMMA DeletedStays ==
  ASSUME ChatInv, [ChatNext]_chatVars, NEW f \in Files, file[f].status = "deleted"
  PROVE  file'[f].status = "deleted"
<1>0. file \in [Files -> FileRow]
  BY DEF ChatInv, ChatTypeOK, FileRow
<1>1. ASSUME NEW g \in Files, CreateUploadIntent(g) \/ PutObject(g) \/ DeleteFile(g)
      PROVE  file'[f].status = "deleted"
  BY <1>0, <1>1 DEF CreateUploadIntent, PutObject, DeleteFile, FileRow
<1>2. ASSUME NEW h \in Handlers, AttachFiles(h) PROVE file'[f].status = "deleted"
  BY <1>0, <1>2 DEF AttachFiles, Attachable
<1>3. ASSUME NEW h \in Handlers, CompleteUpload(h) PROVE file'[f].status = "deleted"
  <2> DEFINE g == request[h].file
  <2>1. CASE file[g].status = "deleted"
    BY <1>3, <2>1 DEF CompleteUpload
  <2>2. CASE file[g].status # "deleted"
    <3>1. g \in Files /\ g # f
      BY <1>3, <2>2, ChatLocalsByStep DEF ChatInv, CompleteUpload, At, CompleteLocals
    <3> QED BY <1>0, <1>3, <2>2, <3>1 DEF CompleteUpload, Completed
  <2> QED BY <2>1, <2>2
<1>4. \/ UNCHANGED file
      \/ \E h \in Handlers : AttachFiles(h) \/ CompleteUpload(h)
      \/ \E g \in Files : CreateUploadIntent(g) \/ PutObject(g) \/ DeleteFile(g)
  <2>0. UNCHANGED chatVars => UNCHANGED file
    BY DEF chatVars, chatTables
  <2>1. ASSUME NEW h \in Handlers, ChatCall(h) PROVE UNCHANGED file
    BY <2>1 DEF ChatCall, Ask, Edit, ResumeStream, CompleteStart, ChangeThread, chatTables
  <2>2. ASSUME NEW h \in Handlers, ChatContinue(h)
        PROVE  UNCHANGED file \/ AttachFiles(h) \/ CompleteUpload(h)
    BY <2>2 DEF ChatContinue, MakeBranch, AskEdited, InsertQuestion, InsertAnswer, StartJob,
                CallProvider, LeaveWordless, SettleAnswer, AppendEvents, SettleJob, ResumeEvents, Resumed,
                UpdateThread, SwitchBranch, chatTables
  <2>3. ASSUME NEW s \in Streams, CancelStream(s) PROVE UNCHANGED file
    BY <2>3 DEF CancelStream
  <2>4. ASSUME NEW status \in ThreadStatuses, SetThreadLifecycle(status) PROVE UNCHANGED file
    BY <2>4 DEF SetThreadLifecycle
  <2> QED BY <2>0, <2>1, <2>2, <2>3, <2>4 DEF ChatNext, chatTables
<1> QED BY <1>1, <1>2, <1>3, <1>4

(* A deleted file never comes back, neither by the completion of an upload *)
(* that found it alive nor by a message that names it.                     *)
THEOREM DeletedForGood == ChatSpec => DeletedFileStaysDeleted
<1>1. ChatInv /\ [ChatNext]_chatVars =>
        [\A f \in Files : file[f].status = "deleted" => file'[f].status = "deleted"]_chatVars
  BY DeletedStays
<1> QED BY <1>1, ChatInvariant, PTL DEF ChatSpec, DeletedFileStaysDeleted

-----------------------------------------------------------------------------
(***************************************************************************)
(* Runtime sync and runs, for any number of requests, versions, keys and   *)
(* edits: a key starts one run, a run starts only after a sync that        *)
(* succeeded for its version, and never on unsafe steps.                   *)
(*                                                                         *)
(* A request acts on what it read some statements ago, while others edit,  *)
(* sync and publish.  The invariant says what stays true of its local      *)
(* variables in the meantime: that a version was pushed is never undone,   *)
(* and the flow, once created, is there.                                   *)
(***************************************************************************)
Bindings == [version : SyncVersions \cup {None}, last_synced : FlowContents]

(* The local variables of a request, by the statement that comes next.     *)
SourceLocals == [pc : {"syncSource", "syncRequested", "syncBinding"}, report : Reports,
                 overwrite : BOOLEAN, key : SyncKeys \cup {None}]
FlowLocals == [pc : {"syncFlow", "syncDrift", "syncApply", "syncReadBack"}, report : Reports,
               key : SyncKeys \cup {None}, overwrite : BOOLEAN, bound : Bindings \cup {None}]
PersistLocals == [pc : {"syncPersist"}, report : Reports, key : SyncKeys \cup {None},
                  after : FlowContents]
BindingLocals == [pc : {"runBinding"}, key : RunKeys, active : SyncVersions \cup {None}]
DriftLocals == [pc : {"runDrift"}, key : RunKeys, version : SyncVersions \cup {None}]
RunInsertLocals == [pc : {"runInsert"}, key : RunKeys, version : SyncVersions \cup {None},
                 executes : FlowContents \ {"unsafe"}]
SyncLocals == Ended \cup SourceLocals \cup FlowLocals \cup PersistLocals \cup BindingLocals
                \cup DriftLocals \cup RunInsertLocals

RequestsOK == request \in [Handlers -> SyncLocals]

(* The flow was created before anything was applied to it or read back.    *)
FlowIsThere ==
  \A h \in Handlers :
    request[h].pc \in {"syncDrift", "syncApply", "syncReadBack"} => flow \in FlowContents

(* A binding, and a run about to start, has a version that was pushed.     *)
BindingIsPushed == binding # None => binding.version \in pushed
StartsArePushed ==
  \A h \in Handlers : request[h].pc \in {"runDrift", "runInsert"} => request[h].version \in pushed

SyncInv == /\ SyncTypeOK /\ RequestsOK /\ IsFiniteSet(runs)
           /\ FlowIsThere /\ BindingIsPushed /\ StartsArePushed
           /\ StartedOncePerKey /\ RunsAreSynced

-----------------------------------------------------------------------------
(* The statement that comes next tells which local variables there are.    *)
LEMMA SyncLocalsByStep ==
  ASSUME RequestsOK, NEW h \in Handlers
  PROVE  /\ request[h].pc \in {"idle", "dead"} => request[h] \in Ended
         /\ request[h].pc \in {"syncSource", "syncRequested", "syncBinding"}
              => request[h] \in SourceLocals
         /\ request[h].pc \in {"syncFlow", "syncDrift", "syncApply", "syncReadBack"}
              => request[h] \in FlowLocals
         /\ request[h].pc = "syncPersist" => request[h] \in PersistLocals
         /\ request[h].pc = "runBinding" => request[h] \in BindingLocals
         /\ request[h].pc = "runDrift" => request[h] \in DriftLocals
         /\ request[h].pc = "runInsert" => request[h] \in RunInsertLocals
<1>1. request[h] \in SyncLocals
  BY DEF RequestsOK
<1> QED BY <1>1 DEF SyncLocals, Ended, SourceLocals, FlowLocals, PersistLocals, BindingLocals,
                    DriftLocals, RunInsertLocals

(* One request moves and the others stay where they are.                   *)
LEMMA SyncMoves ==
  ASSUME RequestsOK, NEW h \in Handlers, NEW next \in SyncLocals, Goto(h, next)
  PROVE  RequestsOK' /\ request'[h] = next /\ \A g \in Handlers \ {h} : request'[g] = request[g]
BY DEF RequestsOK, Goto

(* Every request begins with no local variables and the tables are empty.  *)
LEMMA InitSync == SyncInit => SyncInv
<1> SUFFICES ASSUME SyncInit PROVE SyncInv
  OBVIOUS
<1>1. SyncTypeOK
  BY DEF SyncInit, SyncTypeOK, EventStatuses
<1>2. RequestsOK /\ \A h \in Handlers : request[h].pc = "idle"
  BY DEF SyncInit, RequestsInit, Idle, RequestsOK, SyncLocals, Ended
<1>3. IsFiniteSet(runs)
  BY FS_EmptySet DEF SyncInit
<1>4. FlowIsThere /\ StartsArePushed
  BY <1>2 DEF FlowIsThere, StartsArePushed
<1>5. BindingIsPushed /\ StartedOncePerKey /\ RunsAreSynced
  BY DEF SyncInit, BindingIsPushed, StartedOncePerKey, RunsAreSynced, UnsafeNeverRuns,
         RunsOnlySyncedVersions
<1> QED BY <1>1, <1>2, <1>3, <1>4, <1>5 DEF SyncInv

(* A step that keeps binding and runs, of a request whose new local        *)
(* variables are as they should be.                                        *)
LEMMA StepOfRequest ==
  ASSUME SyncInv, NEW h \in Handlers, NEW next \in SyncLocals, Goto(h, next), SyncTypeOK',
         UNCHANGED <<binding, runs, pushed>>,
         flow \in FlowContents => flow' \in FlowContents,
         next.pc \in {"syncDrift", "syncApply", "syncReadBack"} => flow' \in FlowContents,
         next.pc \in {"runDrift", "runInsert"} => next.version \in pushed
  PROVE  SyncInv'
<1>1. RequestsOK' /\ request'[h] = next /\ \A g \in Handlers \ {h} : request'[g] = request[g]
  BY SyncMoves DEF SyncInv
<1>2. FlowIsThere'
  BY <1>1 DEF SyncInv, FlowIsThere
<1>3. StartsArePushed'
  BY <1>1 DEF SyncInv, StartsArePushed
<1>4. /\ BindingIsPushed' /\ StartedOncePerKey' /\ RunsAreSynced' /\ IsFiniteSet(runs')
  BY DEF SyncInv, BindingIsPushed, StartedOncePerKey, RunsAreSynced, UnsafeNeverRuns,
         RunsOnlySyncedVersions
<1> QED BY <1>1, <1>2, <1>3, <1>4 DEF SyncInv

(* A step of people at the canvas or the flow, or of the compiler.         *)
LEMMA StepOfOthers ==
  ASSUME SyncInv, SyncTypeOK', UNCHANGED <<request, binding, runs, pushed>>,
         flow \in FlowContents => flow' \in FlowContents
  PROVE  SyncInv'
BY DEF SyncInv, RequestsOK, FlowIsThere, BindingIsPushed, StartsArePushed, StartedOncePerKey,
       RunsAreSynced, UnsafeNeverRuns, RunsOnlySyncedVersions

(* The statuses that Record writes are statuses of the table.              *)
LEMMA RecordType ==
  ASSUME SyncTypeOK, NEW k \in SyncKeys \cup {None}, NEW status \in EventStatuses, Record(k, status)
  PROVE  sync_event' \in [SyncKeys -> EventStatuses]
BY DEF SyncTypeOK, Record

-----------------------------------------------------------------------------
(* The canvas and the flow are edited, the draft published and compiled.   *)
LEMMA PeopleKeepInv ==
  ASSUME SyncInv,
         \/ \E content \in FlowContents : EditFlow(content)
         \/ \E content \in Sources : EditCanvas(content)
         \/ \E v \in SyncVersions : Publish(v)
         \/ Compile
  PROVE  SyncInv'
<1>1. ASSUME NEW content \in FlowContents, EditFlow(content) PROVE SyncInv'
  <2>1. SyncTypeOK' /\ flow' \in FlowContents
    BY <1>1 DEF EditFlow, SyncInv, SyncTypeOK, ByHand
  <2> QED BY <1>1, <2>1, StepOfOthers DEF EditFlow
<1>2. ASSUME NEW content \in Sources, EditCanvas(content) PROVE SyncInv'
  <2>1. SyncTypeOK'
    BY <1>2 DEF EditCanvas, SyncInv, SyncTypeOK
  <2> QED BY <1>2, <2>1, StepOfOthers DEF EditCanvas
<1>3. ASSUME NEW v \in SyncVersions, Publish(v) PROVE SyncInv'
  <2>1. SyncTypeOK'
    BY <1>3 DEF Publish, SyncInv, SyncTypeOK
  <2> QED BY <1>3, <2>1, StepOfOthers DEF Publish
<1>4. ASSUME Compile PROVE SyncInv'
  <2>1. SyncTypeOK'
    BY <1>4 DEF Compile, Persist, Report, Reports, SyncInv, SyncTypeOK
  <2> QED BY <1>4, <2>1, StepOfOthers DEF Compile
<1> QED BY <1>1, <1>2, <1>3, <1>4

(* Requests arrive.                                                        *)
LEMMA CallKeepsInv == ASSUME SyncInv, NEW h \in Handlers, SyncCall(h) PROVE SyncInv'
<1>0. SyncTypeOK /\ RequestsOK
  BY DEF SyncInv
<1>1. ASSUME NEW r \in reports, NEW overwrite \in BOOLEAN, NEW k \in SyncKeys \cup {None},
             SyncStart(h, r, overwrite, k)
      PROVE  SyncInv'
  <2> DEFINE next == [pc |-> "syncSource", report |-> r, overwrite |-> overwrite, key |-> k]
  <2>1. next \in SyncLocals /\ next.pc = "syncSource"
    BY <1>0 DEF SyncTypeOK, SyncLocals, SourceLocals
  <2>2. SyncTypeOK'
    BY <1>0, <1>1, RecordType DEF SyncStart, SyncTypeOK, EventStatuses
  <2>3. Goto(h, next) /\ UNCHANGED <<flow, binding, runs, pushed>>
    BY <1>1 DEF SyncStart
  <2> HIDE DEF next
  <2> QED BY <2>1, <2>2, <2>3, StepOfRequest
<1>2. ASSUME Overwrite(h) PROVE SyncInv'
  <2> DEFINE next == [pc |-> "syncSource", report |-> Report, overwrite |-> TRUE, key |-> None]
  <2>1. next \in SyncLocals /\ next.pc = "syncSource"
    BY <1>0 DEF SyncTypeOK, SyncLocals, SourceLocals, Report, Reports
  <2>2. SyncTypeOK'
    BY <1>0, <1>2 DEF Overwrite, SyncTypeOK, Persist, Report, Reports
  <2>3. Goto(h, next) /\ UNCHANGED <<flow, binding, runs, pushed>>
    BY <1>2 DEF Overwrite
  <2> HIDE DEF next
  <2> QED BY <2>1, <2>2, <2>3, StepOfRequest
<1>3. ASSUME NEW k \in RunKeys, RunStart(h, k) PROVE SyncInv'
  <2> DEFINE next == [pc |-> "runBinding", key |-> k, active |-> canvas.active]
  <2>1. next \in SyncLocals /\ next.pc = "runBinding"
    BY <1>0 DEF SyncTypeOK, SyncLocals, BindingLocals
  <2>2. SyncTypeOK' /\ Goto(h, next) /\ UNCHANGED <<flow, binding, runs, pushed>>
    BY <1>0, <1>3 DEF RunStart, SyncTypeOK, syncTables
  <2> HIDE DEF next
  <2> QED BY <2>1, <2>2, StepOfRequest
<1> QED BY <1>1, <1>2, <1>3 DEF SyncCall

(* A request ends, or dies.                                                *)
LEMMA EndKeepsInv ==
  ASSUME SyncInv, NEW h \in Handlers, Return(h) \/ Dies(h), SyncTypeOK',
         UNCHANGED <<flow, binding, runs, pushed>>
  PROVE  SyncInv'
<1>1. PICK next \in Ended : Goto(h, next)
  BY DEF Return, Dies, Idle, Ended
<1>2. next \in SyncLocals /\ next.pc \in {"idle", "dead"}
  BY DEF SyncLocals, Ended
<1> QED BY <1>1, <1>2, StepOfRequest

(* A request goes on to its next statement with the locals it has.         *)
LEMMA ProceedKeepsInv ==
  ASSUME SyncInv, NEW h \in Handlers, NEW pc, Proceed(h, pc), SyncTypeOK',
         \/ request[h] \in SourceLocals /\ pc \in {"syncSource", "syncRequested", "syncBinding"}
         \/ /\ request[h] \in FlowLocals /\ pc \in {"syncDrift", "syncApply", "syncReadBack"}
            /\ flow' \in FlowContents,
         UNCHANGED <<binding, runs, pushed>>, flow \in FlowContents => flow' \in FlowContents
  PROVE  SyncInv'
<1> DEFINE next == [request[h] EXCEPT !.pc = pc]
<1>1. CASE request[h] \in SourceLocals /\ pc \in {"syncSource", "syncRequested", "syncBinding"}
  <2>1. next \in SyncLocals /\ next.pc \in {"syncSource", "syncRequested", "syncBinding"}
    BY <1>1 DEF SyncLocals, SourceLocals
  <2>2. Goto(h, next)
    BY DEF Proceed
  <2> HIDE DEF next
  <2> QED BY <2>1, <2>2, StepOfRequest
<1>2. CASE /\ request[h] \in FlowLocals /\ pc \in {"syncDrift", "syncApply", "syncReadBack"}
           /\ flow' \in FlowContents
  <2>1. next \in SyncLocals /\ next.pc \in {"syncDrift", "syncApply", "syncReadBack"}
    BY <1>2 DEF SyncLocals, FlowLocals
  <2>2. Goto(h, next)
    BY DEF Proceed
  <2> HIDE DEF next
  <2> QED BY <1>2, <2>1, <2>2, StepOfRequest
<1> QED BY <1>1, <1>2

-----------------------------------------------------------------------------
(* The statements of a sync up to the read-back.                           *)
LEMMA SyncStepKeepsInv ==
  ASSUME SyncInv, NEW h \in Handlers,
         \/ SyncSource(h) \/ SyncRequested(h) \/ SyncBinding(h) \/ EnsureFlow(h) \/ SyncDrift(h)
         \/ ApplyOperations(h) \/ ReadBack(h)
  PROVE  SyncInv'
<1>0. SyncTypeOK /\ RequestsOK /\ FlowIsThere
  BY DEF SyncInv
<1>1. CASE SyncSource(h)
  <2>1. request[h] \in SourceLocals /\ SyncTypeOK'
    BY <1>0, <1>1, SyncLocalsByStep DEF SyncSource, At, SyncTypeOK, syncTables
  <2>2. (Proceed(h, "syncRequested") \/ Return(h)) /\ UNCHANGED <<flow, binding, runs, pushed>>
    BY <1>1 DEF SyncSource, syncTables
  <2> QED BY <2>1, <2>2, ProceedKeepsInv, EndKeepsInv
<1>2. CASE SyncRequested(h)
  <2>1. request[h] \in SourceLocals
    BY <1>0, <1>2, SyncLocalsByStep DEF SyncRequested, At
  <2>2. SyncTypeOK'
    BY <1>0, <1>2, <2>1, RecordType DEF SyncRequested, SourceLocals, SyncTypeOK, EventStatuses
  <2>3. Proceed(h, "syncBinding") /\ UNCHANGED <<flow, binding, runs, pushed>>
    BY <1>2 DEF SyncRequested
  <2> QED BY <2>1, <2>2, <2>3, ProceedKeepsInv
<1>3. CASE SyncBinding(h)
  <2> DEFINE next == [pc |-> "syncFlow", report |-> request[h].report, key |-> request[h].key,
                      overwrite |-> request[h].overwrite, bound |-> binding]
  <2>1. request[h] \in SourceLocals
    BY <1>0, <1>3, SyncLocalsByStep DEF SyncBinding, At
  <2>2. next \in FlowLocals /\ next.pc = "syncFlow"
    BY <1>0, <2>1 DEF SourceLocals, FlowLocals, SyncTypeOK, Bindings
  <2>3. SyncTypeOK' /\ Goto(h, next) /\ UNCHANGED <<flow, binding, runs, pushed>>
    BY <1>0, <1>3 DEF SyncBinding, SyncTypeOK, syncTables
  <2> HIDE DEF next
  <2> QED BY <2>2, <2>3, StepOfRequest DEF SyncLocals
<1>4. CASE EnsureFlow(h)
  <2>1. request[h] \in FlowLocals
    BY <1>0, <1>4, SyncLocalsByStep DEF EnsureFlow, At
  <2>2. SyncTypeOK' /\ flow' \in FlowContents
    BY <1>0, <1>4 DEF EnsureFlow, SyncTypeOK, FlowContents
  <2>3. Proceed(h, "syncDrift") /\ UNCHANGED <<binding, runs, pushed>>
    BY <1>4 DEF EnsureFlow
  <2> QED BY <2>1, <2>2, <2>3, ProceedKeepsInv
<1>5. CASE SyncDrift(h)
  <2>1. request[h] \in FlowLocals /\ flow \in FlowContents
    BY <1>0, <1>5, SyncLocalsByStep DEF SyncDrift, At, FlowIsThere
  <2>2. UNCHANGED <<canvas, published, reports, flow, binding, runs, pushed>>
    BY <1>5 DEF SyncDrift
  <2>3. \/ Proceed(h, "syncApply") /\ UNCHANGED sync_event
        \/ Return(h) /\ Record(request[h].key, "blocked")
    BY <1>5 DEF SyncDrift
  <2>4. SyncTypeOK'
    BY <1>0, <2>1, <2>2, <2>3, RecordType DEF FlowLocals, SyncTypeOK, EventStatuses
  <2> QED BY <2>1, <2>2, <2>3, <2>4, ProceedKeepsInv, EndKeepsInv
<1>6. CASE ApplyOperations(h)
  <2>1. request[h] \in FlowLocals
    BY <1>0, <1>6, SyncLocalsByStep DEF ApplyOperations, At
  <2>2. SyncTypeOK' /\ flow' \in FlowContents
    BY <1>0, <1>6, <2>1 DEF ApplyOperations, FlowLocals, Reports, SyncTypeOK, FlowContents
  <2>3. Proceed(h, "syncReadBack") /\ UNCHANGED <<binding, runs, pushed>>
    BY <1>6 DEF ApplyOperations
  <2> QED BY <2>1, <2>2, <2>3, ProceedKeepsInv
<1>7. CASE ReadBack(h)
  <2> DEFINE next == [pc |-> "syncPersist", report |-> request[h].report,
                      key |-> request[h].key, after |-> flow]
  <2>1. request[h] \in FlowLocals /\ flow \in FlowContents
    BY <1>0, <1>7, SyncLocalsByStep DEF ReadBack, At, FlowIsThere
  <2>2. next \in PersistLocals /\ next.pc = "syncPersist"
    BY <2>1 DEF FlowLocals, PersistLocals
  <2>3. SyncTypeOK' /\ Goto(h, next) /\ UNCHANGED <<flow, binding, runs, pushed>>
    BY <1>0, <1>7 DEF ReadBack, SyncTypeOK, syncTables
  <2> HIDE DEF next
  <2> QED BY <2>2, <2>3, StepOfRequest DEF SyncLocals
<1> QED BY <1>1, <1>2, <1>3, <1>4, <1>5, <1>6, <1>7

(* The catch of a sync records the failure and ends.                       *)
LEMMA SyncFailsKeepsInv == ASSUME SyncInv, NEW h \in Handlers, SyncFails(h) PROVE SyncInv'
<1>1. request[h] \in FlowLocals \cup PersistLocals /\ SyncTypeOK
  BY SyncLocalsByStep DEF SyncInv, SyncFails, InTry, At
<1>2. SyncTypeOK'
  BY <1>1, RecordType DEF SyncFails, FlowLocals, PersistLocals, SyncTypeOK, EventStatuses
<1>3. Return(h) /\ UNCHANGED <<flow, binding, runs, pushed>>
  BY DEF SyncFails
<1> QED BY <1>2, <1>3, EndKeepsInv

(* The binding a sync writes has the version it was made for.              *)
LEMMA PersistKeepsInv ==
  ASSUME SyncInv, NEW h \in Handlers, PersistSyncSuccess(h)
  PROVE  SyncInv'
<1>1. request[h] \in PersistLocals /\ SyncTypeOK /\ RequestsOK
  BY SyncLocalsByStep DEF SyncInv, PersistSyncSuccess, At
<1> DEFINE v == request[h].report.version
<1>2. v \in SyncVersions \cup {None} /\ request[h].after \in FlowContents
  BY <1>1 DEF PersistLocals, Reports
<1>3. binding' = [version |-> v, last_synced |-> request[h].after] /\ pushed' = pushed \cup {v}
  BY DEF PersistSyncSuccess
<1>4. SyncTypeOK'
  <2>1. sync_event' \in [SyncKeys -> EventStatuses]
    BY <1>1, RecordType DEF PersistSyncSuccess, PersistLocals, EventStatuses
  <2>2. canvas' = [canvas EXCEPT !.synced = TRUE] /\ UNCHANGED <<published, reports, flow, runs>>
    BY DEF PersistSyncSuccess
  <2> QED BY <1>1, <1>2, <1>3, <2>1, <2>2 DEF SyncTypeOK
<1>5. RequestsOK' /\ request'[h].pc = "idle" /\ \A g \in Handlers \ {h} : request'[g] = request[g]
  <2>1. Idle \in SyncLocals /\ Idle.pc = "idle" /\ Goto(h, Idle)
    BY DEF Idle, SyncLocals, Ended, PersistSyncSuccess, Return
  <2> QED BY <1>1, <2>1, SyncMoves
<1>6. UNCHANGED <<flow, runs>>
  BY DEF PersistSyncSuccess
<1>7. FlowIsThere' /\ StartsArePushed'
  BY <1>3, <1>5, <1>6 DEF SyncInv, FlowIsThere, StartsArePushed
<1>8. BindingIsPushed'
  BY <1>3 DEF BindingIsPushed
<1>9. StartedOncePerKey' /\ RunsAreSynced' /\ IsFiniteSet(runs')
  BY <1>3, <1>6 DEF SyncInv, StartedOncePerKey, RunsAreSynced, UnsafeNeverRuns,
                    RunsOnlySyncedVersions
<1> QED BY <1>4, <1>5, <1>7, <1>8, <1>9 DEF SyncInv

(* A run goes on with the binding's version, which was pushed, and only    *)
(* from a flow that is as the binding says.                                *)
LEMMA RunStepKeepsInv ==
  ASSUME SyncInv, NEW h \in Handlers, RunBinding(h) \/ RunDrift(h)
  PROVE  SyncInv'
<1>0. SyncTypeOK /\ RequestsOK /\ BindingIsPushed /\ StartsArePushed
  BY DEF SyncInv
<1>1. SyncTypeOK' /\ UNCHANGED <<flow, binding, runs, pushed>>
  BY <1>0 DEF RunBinding, RunDrift, SyncTypeOK, syncTables
<1>2. CASE Return(h)
  BY <1>1, <1>2, EndKeepsInv
<1>3. CASE RunBinding(h) /\ binding # None /\ PointsToActive(request[h].active)
  <2> DEFINE v == IF request[h].active = None THEN binding.version ELSE request[h].active
             next == [pc |-> "runDrift", key |-> request[h].key, version |-> v]
  <2>1. request[h] \in BindingLocals
    BY <1>0, <1>3, SyncLocalsByStep DEF RunBinding, At
  <2>2. v = binding.version /\ v \in pushed
    BY <1>0, <1>3 DEF PointsToActive, BindingIsPushed
  <2>3. v \in SyncVersions \cup {None}
    BY <1>0, <1>3, <2>2 DEF SyncTypeOK
  <2>4. Goto(h, next)
    BY <1>3 DEF RunBinding
  <2> HIDE DEF v
  <2>5. next \in DriftLocals /\ next.version \in pushed /\ next.pc = "runDrift"
    BY <2>1, <2>2, <2>3 DEF BindingLocals, DriftLocals
  <2> HIDE DEF next
  <2> QED BY <1>1, <2>4, <2>5, StepOfRequest DEF SyncLocals
<1>4. CASE RunDrift(h) /\ Detect(binding, flow) = "synced"
  <2> DEFINE next == [pc |-> "runInsert", key |-> request[h].key,
                      version |-> request[h].version, executes |-> flow]
  <2>1. request[h] \in DriftLocals /\ request[h].version \in pushed
    BY <1>0, <1>4, SyncLocalsByStep DEF RunDrift, At, StartsArePushed
  <2>2. binding # None /\ flow # "unsafe" /\ flow = binding.last_synced
    BY <1>4 DEF Detect
  <2>3. flow \in FlowContents \ {"unsafe"}
    BY <1>0, <2>2 DEF SyncTypeOK
  <2>4. Goto(h, next)
    BY <1>4 DEF RunDrift
  <2>5. next \in RunInsertLocals /\ next.version \in pushed /\ next.pc = "runInsert"
    BY <2>1, <2>3 DEF DriftLocals, RunInsertLocals
  <2> HIDE DEF next
  <2> QED BY <1>1, <2>4, <2>5, StepOfRequest DEF SyncLocals
<1> QED BY <1>2, <1>3, <1>4 DEF RunBinding, RunDrift

(* The insert takes a key no run has.                                      *)
LEMMA InsertKeepsInv == ASSUME SyncInv, NEW h \in Handlers, InsertRun(h) PROVE SyncInv'
<1>1. /\ request[h] \in RunInsertLocals /\ request[h].version \in pushed
      /\ SyncTypeOK /\ RequestsOK /\ IsFiniteSet(runs)
  BY SyncLocalsByStep DEF SyncInv, InsertRun, At, StartsArePushed
<1> DEFINE new == [key |-> request[h].key, no |-> Cardinality(runs),
                   version |-> request[h].version, executes |-> request[h].executes]
<1>2. \/ runs' = runs
      \/ runs' = runs \cup {new} /\ \A run \in runs : run.key # new.key
  BY DEF InsertRun, RunInsertable, KeyUsed
<1>3. Cardinality(runs) \in Nat
  BY <1>1, FS_CardinalityType
<1>4. /\ new \in Runs /\ new.executes # "unsafe" /\ new.version \in pushed
  BY <1>1, <1>3 DEF RunInsertLocals, Runs
<1> HIDE DEF new
<1>5. UNCHANGED <<canvas, published, reports, flow, binding, sync_event, pushed>>
  BY DEF InsertRun
<1>6. SyncTypeOK'
  BY <1>1, <1>2, <1>4, <1>5 DEF SyncTypeOK
<1>7. IsFiniteSet(runs')
  BY <1>1, <1>2, FS_AddElement
<1>8. StartedOncePerKey'
  BY <1>2 DEF SyncInv, StartedOncePerKey
<1>9. RunsAreSynced'
  BY <1>2, <1>4, <1>5 DEF SyncInv, RunsAreSynced, UnsafeNeverRuns, RunsOnlySyncedVersions
<1>10. RequestsOK' /\ request'[h].pc = "idle" /\ \A g \in Handlers \ {h} : request'[g] = request[g]
  <2>1. Idle \in SyncLocals /\ Idle.pc = "idle" /\ Goto(h, Idle)
    BY DEF Idle, SyncLocals, Ended, InsertRun, Return
  <2> QED BY <1>1, <2>1, SyncMoves
<1>11. FlowIsThere' /\ StartsArePushed' /\ BindingIsPushed'
  BY <1>5, <1>10 DEF SyncInv, FlowIsThere, StartsArePushed, BindingIsPushed
<1> QED BY <1>6, <1>7, <1>8, <1>9, <1>10, <1>11 DEF SyncInv

(* Every step of a compile, a sync or a start keeps the invariant. *)
LEMMA StepSync == SyncInv /\ [SyncNext]_syncVars => SyncInv'
<1> SUFFICES ASSUME SyncInv, [SyncNext]_syncVars PROVE SyncInv'
  OBVIOUS
<1>1. CASE UNCHANGED syncVars
  BY <1>1 DEF syncVars, syncTables, SyncInv, SyncTypeOK, RequestsOK, FlowIsThere,
     BindingIsPushed, StartsArePushed, StartedOncePerKey, RunsAreSynced, UnsafeNeverRuns,
     RunsOnlySyncedVersions
<1>2. ASSUME NEW h \in Handlers, SyncContinue(h) PROVE SyncInv'
  BY <1>2, SyncStepKeepsInv, SyncFailsKeepsInv, PersistKeepsInv, RunStepKeepsInv, InsertKeepsInv
     DEF SyncContinue
<1>3. ASSUME NEW h \in Handlers, Dies(h) /\ UNCHANGED syncTables PROVE SyncInv'
  <2>1. SyncTypeOK' /\ UNCHANGED <<flow, binding, runs, pushed>>
    BY <1>3 DEF SyncInv, SyncTypeOK, syncTables
  <2> QED BY <1>3, <2>1, EndKeepsInv
<1> QED BY <1>1, <1>2, <1>3, CallKeepsInv, PeopleKeepInv DEF SyncNext

(* What a request read stays good enough for what it does with it.         *)
THEOREM SyncInvariant == SyncSpec => []SyncInv
BY InitSync, StepSync, PTL DEF SyncSpec

(* createRun: two starts with one key make one run, overlapping or not.    *)
THEOREM OneRunPerKey == SyncSpec => []StartedOncePerKey
<1>1. SyncInv => StartedOncePerKey
  BY DEF SyncInv
<1> QED BY <1>1, SyncInvariant, PTL

(* startRun: a run comes after a sync that succeeded for its version, and  *)
(* executes no unsafe step, although versions are published, flows edited  *)
(* and syncs persisted between any two of its statements.                  *)
THEOREM RunsAreSyncedAlways == SyncSpec => []RunsAreSynced
<1>1. SyncInv => RunsAreSynced
  BY DEF SyncInv
<1> QED BY <1>1, SyncInvariant, PTL
=============================================================================
