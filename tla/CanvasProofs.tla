----------------------------- MODULE CanvasProofs -----------------------------
(***************************************************************************)
(* Proofs about CanvasDraft and CanvasVersions.                            *)
(***************************************************************************)
EXTENDS CanvasVersions, WellFoundedInduction, TLAPS

-----------------------------------------------------------------------------
(* Induction over the naturals, for sets instead of operators. *)

(* < orders Nat without infinite descent. *)
LEMMA Less == IsWellFoundedOn({p \in Nat \X Nat : p[1] < p[2]}, Nat)
<1>1. OpToRel(<, Nat) = {p \in Nat \X Nat : p[1] < p[2]}
  BY Zenon DEF OpToRel
<1> QED BY <1>1, NatLessThanWellFounded, Zenon

(* A set of naturals that is not empty has a least element. *)
LEMMA Least ==
  ASSUME NEW T \in SUBSET Nat, T # {} PROVE \E x \in T : \A y \in T : x <= y
<1> DEFINE R == {p \in Nat \X Nat : p[1] < p[2]}
<1>1. IsWellFoundedOn(R, Nat) BY Less
<1>2. \E x \in T : \A y \in T : ~(<<y, x>> \in R)
  <2> HIDE DEF R
  <2> QED BY <1>1, WFMin
<1>3. \A x, y \in Nat : y < x => <<y, x>> \in R BY DEF R
<1> HIDE DEF R
<1>4. PICK x \in T : \A y \in T : ~(<<y, x>> \in R) BY <1>2
<1>5. \A y \in T : ~ (y < x) BY <1>3, <1>4
<1> QED BY <1>5

(* A set that holds 0 and the successors of its elements is Nat. *)
LEMMA NatInd ==
  ASSUME NEW S \in SUBSET Nat, 0 \in S, \A n \in S : n + 1 \in S PROVE S = Nat
<1>1. SUFFICES ASSUME Nat \ S # {} PROVE FALSE OBVIOUS
<1>2. PICK x \in Nat \ S : \A y \in Nat \ S : x <= y BY <1>1, Least
<1> QED BY <1>2

-----------------------------------------------------------------------------
(* The new operations of a batch. *)

(* The entries of new are those entries of batch up to the n-th, in their  *)
(* order, that are not in the log.                                         *)
Embeds(f, new, d, batch, n) ==
  /\ f \in [DOMAIN new -> 1..n] /\ Len(new) <= n
  /\ \A k \in 1..n : ExistingOperation(d, batch[k]) \/ \E i \in DOMAIN new : f[i] = k
  /\ \A i \in DOMAIN new : new[i] = batch[f[i]] /\ ~ExistingOperation(d, new[i])
  /\ \A i, j \in DOMAIN new : i < j => f[i] < f[j]

(* What a batch has that is new is a sequence of its operations, in its    *)
(* order and none of them in the log (applyOperations' loop).              *)
LEMMA NewOpsEmbed ==
  ASSUME NEW d, NEW batch \in Seq(Ops)
  PROVE  /\ NewOps(d, batch) \in Seq(Ops)
         /\ \E f : Embeds(f, NewOps(d, batch), d, batch, Len(batch))
<1> DEFINE Step(G, n) == IF n = 0 THEN <<>>
                         ELSE IF ExistingOperation(d, batch[n]) THEN G[n - 1]
                         ELSE Append(G[n - 1], batch[n])
           Kept(G, m) == G = [n \in 0..m |-> Step(G, n)]
           kept == CHOOSE G : Kept(G, Len(batch))
           Good(s, n) == s \in Seq(Ops) /\ \E f : Embeds(f, s, d, batch, n)
<1>1. NewOps(d, batch) = kept[Len(batch)]
  BY DEF NewOps
<1>2. \E G : Kept(G, Len(batch))
  <2> DEFINE S == {m \in Nat : \E G : Kept(G, m)}
  <2>1. 0 \in S
    <3>1. Kept([n \in 0..0 |-> <<>>], 0) OBVIOUS
    <3> QED BY <3>1
  <2>2. ASSUME NEW m \in S PROVE m + 1 \in S
    <3>1. PICK G : Kept(G, m) OBVIOUS
    <3> DEFINE H == [n \in 0..(m + 1) |-> IF n <= m THEN G[n] ELSE Step(G, n)]
    <3>2. \A n \in 0..(m + 1) : n = 0 \/ H[n - 1] = G[n - 1] OBVIOUS
    <3>3. \A n \in 0..(m + 1) : Step(H, n) = Step(G, n) BY <3>2
    <3>4. \A n \in 0..m : G[n] = Step(G, n) BY <3>1
    <3>5. \A n \in 0..(m + 1) : H[n] = Step(G, n) BY <3>4
    <3>6. \A n \in 0..(m + 1) : H[n] = Step(H, n) BY <3>5, <3>3
    <3>7. DOMAIN H = 0..(m + 1) OBVIOUS
    <3>8. Kept(H, m + 1)
      <4> HIDE DEF Step
      <4> QED BY <3>6, <3>7
    <3> HIDE DEF H, Kept
    <3>9. m + 1 \in Nat OBVIOUS
    <3> QED BY <3>8, <3>9
  <2>3. S \in SUBSET Nat OBVIOUS
  <2> HIDE DEF S
  <2>4. S = Nat BY <2>1, <2>2, <2>3, NatInd
  <2> QED BY <2>4 DEF S
<1>3. Kept(kept, Len(batch)) BY <1>2
<1>4. \A n \in 0..Len(batch) : kept[n] = Step(kept, n)
  <2> HIDE DEF Step
  <2> QED BY <1>3
<1> HIDE DEF kept
<1>5. \A n \in 0..Len(batch) : Good(kept[n], n)
  <2> DEFINE S == {n \in Nat : n <= Len(batch) => Good(kept[n], n)}
  <2>1. 0 \in S
    <3>1. kept[0] = <<>> BY <1>4
    <3>2. Embeds([i \in {} |-> 0], <<>>, d, batch, 0) BY DEF Embeds
    <3>3. Good(<<>>, 0) BY <3>2
    <3> HIDE DEF Good
    <3> QED BY <3>1, <3>3
  <2>2. ASSUME NEW n \in S PROVE n + 1 \in S
    <3>1. SUFFICES ASSUME n + 1 <= Len(batch) PROVE Good(kept[n + 1], n + 1) OBVIOUS
    <3> DEFINE s == kept[n]
    <3>2. n \in Nat /\ Good(s, n) BY <3>1
    <3>3. PICK f : Embeds(f, s, d, batch, n) BY <3>2
    <3>4. CASE ExistingOperation(d, batch[n + 1])
      <4>1. kept[n + 1] = s BY <1>4, <3>1, <3>2, <3>4
      <4>2. Len(s) \in Nat /\ s \in Seq(Ops) BY <3>2
      <4>3. \A k \in 1..(n + 1) : k \in 1..n \/ k = n + 1 BY <3>2
      <4> HIDE DEF s
      <4>4. \A k \in 1..(n + 1) : ExistingOperation(d, batch[k]) \/ \E i \in DOMAIN s : f[i] = k
        BY <3>3, <3>4, <4>3 DEF Embeds
      <4>5. f \in [DOMAIN s -> 1..(n + 1)] /\ Len(s) <= n + 1 BY <3>2, <3>3, <4>2 DEF Embeds
      <4>6. Embeds(f, s, d, batch, n + 1) BY <3>3, <4>4, <4>5 DEF Embeds
      <4> QED BY <4>1, <4>2, <4>6
    <3>5. CASE ~ExistingOperation(d, batch[n + 1])
      <4> DEFINE t == Append(s, batch[n + 1])
                 g == [i \in DOMAIN t |-> IF i = Len(s) + 1 THEN n + 1 ELSE f[i]]
      <4>0. n + 1 \in 0..Len(batch) /\ n + 1 # 0 /\ (n + 1) - 1 = n BY <3>1, <3>2
      <4>1. kept[n + 1] = t
        <5>1. kept[n + 1] = Step(kept, n + 1) BY <1>4, <4>0
        <5>2. Step(kept, n + 1) = Append(kept[n], batch[n + 1]) BY <4>0, <3>5
        <5> QED BY <5>1, <5>2
      <4>2. batch[n + 1] \in Ops /\ s \in Seq(Ops) BY <3>1, <3>2
      <4> HIDE DEF s
      <4>3. t \in Seq(Ops) /\ DOMAIN t = 1..(Len(s) + 1) /\ DOMAIN s = 1..Len(s) /\ Len(s) \in Nat
        BY <4>2
      <4>4. t[Len(s) + 1] = batch[n + 1] /\ \A i \in DOMAIN s : t[i] = s[i] BY <4>2
      <4> HIDE DEF t
      <4>5. \A i \in DOMAIN t : g[i] \in 1..(n + 1) BY <4>3, <3>2, <3>3 DEF Embeds
      <4>6. \A i \in DOMAIN t : t[i] = batch[g[i]] /\ ~ExistingOperation(d, t[i])
        BY <4>3, <4>4, <3>3, <3>5 DEF Embeds
      <4>7. \A i, j \in DOMAIN t : i < j => g[i] < g[j] BY <4>3, <3>2, <3>3 DEF Embeds
      <4>8. g \in [DOMAIN t -> 1..(n + 1)] BY <4>5
      <4>9. \A k \in 1..(n + 1) : ExistingOperation(d, batch[k]) \/ \E i \in DOMAIN t : g[i] = k
        <5>1. \A k \in 1..(n + 1) : k \in 1..n \/ k = n + 1 BY <3>2
        <5>2. g[Len(s) + 1] = n + 1 /\ Len(s) + 1 \in DOMAIN t BY <4>3
        <5>3. \A i \in DOMAIN s : i \in DOMAIN t /\ g[i] = f[i] BY <4>3
        <5> HIDE DEF g
        <5> QED BY <3>3, <5>1, <5>2, <5>3 DEF Embeds
      <4> HIDE DEF g
      <4>10. Len(t) <= n + 1
        <5>1. Len(t) \in Nat /\ 1..Len(t) = 1..(Len(s) + 1) BY <4>3
        <5>2. Len(t) = Len(s) + 1 BY <4>3, <5>1
        <5> QED BY <3>2, <3>3, <4>3, <5>2 DEF Embeds
      <4>11. Embeds(g, t, d, batch, n + 1) BY <4>6, <4>7, <4>8, <4>9, <4>10 DEF Embeds
      <4> QED BY <4>1, <4>3, <4>11
    <3> QED BY <3>4, <3>5
  <2>3. S \in SUBSET Nat OBVIOUS
  <2> HIDE DEF S
  <2>4. S = Nat BY <2>1, <2>2, <2>3, NatInd
  <2> QED BY <2>4 DEF S
<1>6. Good(kept[Len(batch)], Len(batch)) BY <1>5
<1> QED BY <1>1, <1>6

-----------------------------------------------------------------------------
(* The local variables of a request, by the statement that comes next. *)
PlainLocals == [pc : {"idle", "patch done", "patch late"}]
LockLocals == [pc : {"lock"}, user : Users, draft : DraftIds]
SnapshotLocals == [pc : {"snapshot"}, row : Snapshots]
OperationLocals == [pc : {"operations"}, user : Users, draft : DraftIds, batch : Content,
                    guard : Guards \cup {"hash"}, base : Rows, patch : BOOLEAN]
RestoreLocals == [pc : {"before restore", "restore"}, user : Users, draft : DraftIds, base : Rows,
                  from : Content]
AllLocals == CanvasLocals \cup VersionLocals

(* Where a request is says which variables it has. *)
LEMMA LocalsByStep ==
  ASSUME NEW l \in AllLocals
  PROVE  /\ l.pc = "idle" => l \in PlainLocals
         /\ l.pc = "patch done" => l \in PlainLocals
         /\ l.pc = "patch late" => l \in PlainLocals
         /\ l.pc = "lock" => l \in LockLocals
         /\ l.pc = "snapshot" => l \in SnapshotLocals
         /\ l.pc = "operations" => l \in OperationLocals
         /\ l.pc \in {"before restore", "restore"} => l \in RestoreLocals
  BY DEF AllLocals, CanvasLocals, VersionLocals, PlainLocals, LockLocals, SnapshotLocals,
         OperationLocals, RestoreLocals

(* Every kind of locals is among those a request may have. *)
LEMMA LocalsAreCanvas ==
  /\ PlainLocals \subseteq CanvasLocals /\ LockLocals \subseteq CanvasLocals
  /\ SnapshotLocals \subseteq CanvasLocals /\ OperationLocals \subseteq CanvasLocals
  /\ RestoreLocals \subseteq CanvasLocals /\ Idle \in CanvasLocals /\ Idle \in PlainLocals
  BY DEF CanvasLocals, PlainLocals, LockLocals, SnapshotLocals, OperationLocals, RestoreLocals, Idle

(* A canvas request goes from canvas variables to canvas variables. *)
CanvasMove(h) ==
  proc[h] \in CanvasLocals /\ \E l \in CanvasLocals : proc' = [proc EXCEPT ![h] = l]

TypesOK == CanvasTypeOK /\ proc \in [Handlers -> AllLocals]

(* ensureDraft leaves well-formed drafts, the one it names among them. *)
LEMMA Ensured ==
  ASSUME CanvasTypeOK, NEW d \in DraftIds, EnsureDraft(d)
  PROVE  /\ drafts' \in Seq(Rows) /\ Len(drafts') <= MaxDrafts
         /\ d \in DOMAIN drafts' /\ drafts'[d] \in Rows
<1>1. CASE d \in ActiveDrafts /\ UNCHANGED drafts
  BY <1>1 DEF ActiveDrafts, CanvasTypeOK
<1>2. CASE drafts' = Append(drafts, FreshRow(canonical)) /\ d = Len(drafts) + 1 /\ d <= MaxDrafts
  <2>1. FreshRow(canonical) \in Rows /\ drafts \in Seq(Rows)
    BY DEF FreshRow, Rows, CanvasTypeOK
  <2> HIDE DEF FreshRow
  <2>2. Append(drafts, FreshRow(canonical)) \in Seq(Rows) BY <2>1
  <2>3. Len(drafts') = Len(drafts) + 1 /\ drafts'[d] = FreshRow(canonical) BY <2>1, <1>2
  <2>4. MaxDrafts \in Nat BY BoundsAssumption
  <2> QED BY <2>1, <2>2, <2>3, <2>4, <1>2
<1> QED BY <1>1, <1>2 DEF EnsureDraft

Overwritten(s, d, ops, rev) == [s EXCEPT ![d].ops = ops, ![d].rev = rev]

(* There is nothing to overwrite in a draft that does not exist. *)
LEMMA NoRow ==
  ASSUME NEW s, NEW d, d \notin DOMAIN s, NEW ops, NEW rev, s = [e \in DOMAIN s |-> s[e]]
  PROVE  Overwritten(s, d, ops, rev) = s
  BY DEF Overwritten

(* Overwriting one draft leaves well-formed drafts. *)
LEMMA RowUpdate ==
  ASSUME NEW s \in Seq(Rows), NEW d \in DraftIds, NEW ops \in Content, NEW rev \in Nat
  PROVE  /\ Overwritten(s, d, ops, rev) \in Seq(Rows) /\ Len(Overwritten(s, d, ops, rev)) = Len(s)
         /\ d \in DOMAIN s => Overwritten(s, d, ops, rev)[d]
                                 = [rev |-> rev, ops |-> ops, archived |-> s[d].archived]
         /\ \A e \in DOMAIN s : e # d => Overwritten(s, d, ops, rev)[e] = s[e]
<1> DEFINE t == [s EXCEPT ![d].ops = ops, ![d].rev = rev]
<1>0. Overwritten(s, d, ops, rev) = t BY DEF Overwritten
<1>1. CASE d \notin DOMAIN s
  <2>1. t = s BY <1>1
  <2> QED BY <2>1, <1>0, <1>1
<1>2. CASE d \in DOMAIN s
  <2>1. s[d] \in Rows BY <1>2
  <2>2. t[d] = [rev |-> rev, ops |-> ops, archived |-> s[d].archived] BY <1>2, <2>1 DEF Rows
  <2>3. t[d] \in Rows BY <2>1, <2>2, <1>2 DEF Rows
  <2>4. \A e \in DOMAIN s : e # d => t[e] = s[e] OBVIOUS
  <2>5. DOMAIN t = DOMAIN s /\ t = [e \in DOMAIN s |-> t[e]] OBVIOUS
  <2> HIDE DEF t
  <2>6. \A e \in DOMAIN s : t[e] \in Rows
    <3>1. \A e \in DOMAIN s : s[e] \in Rows OBVIOUS
    <3> QED BY <2>3, <2>4, <3>1
  <2>7. t \in Seq(Rows) /\ Len(t) = Len(s)
    <3>1. DOMAIN s = 1..Len(s) /\ Len(s) \in Nat OBVIOUS
    <3>2. t \in [1..Len(s) -> Rows] BY <3>1, <2>5, <2>6
    <3>3. t \in Seq(Rows) BY <3>1, <3>2
    <3>4. DOMAIN t = 1..Len(t) /\ Len(t) \in Nat BY <3>3
    <3> QED BY <3>1, <3>2, <3>3, <3>4
  <2> QED BY <1>0, <2>2, <2>4, <2>7 DEF t
<1> QED BY <1>1, <1>2

-----------------------------------------------------------------------------
(* What the canvas' actions do to the types and to the requests; they are  *)
(* the same in CanvasDraft and in CanvasVersions.                          *)
CanvasTyped == CanvasTypeOK' /\ (UNCHANGED proc \/ \E h \in Handlers : CanvasMove(h))

(* A request that goes on leaves the other requests where they are. *)
LEMMA OneMoves ==
  ASSUME NEW h \in Handlers, NEW l \in CanvasLocals, proc[h] \in CanvasLocals, Continue(h, l)
  PROVE  CanvasMove(h)
  BY DEF CanvasMove, Continue

(* Acquiring, renewing and releasing locks keeps the types. *)
LEMMA LockingTypes == TypesOK /\ Locking => CanvasTyped
<1> SUFFICES ASSUME TypesOK, Locking PROVE CanvasTyped
  OBVIOUS
<1> USE DEF TypesOK
<1>1. CASE OpenDraft
  <2>1. PICK d \in DraftIds : EnsureDraft(d) BY <1>1 DEF OpenDraft
  <2>2. drafts' \in Seq(Rows) /\ Len(drafts') <= MaxDrafts BY <2>1, Ensured
  <2> QED BY <2>2, <1>1 DEF OpenDraft, CanvasTyped, CanvasTypeOK
<1>2. CASE LockExpires
  BY <1>2 DEF LockExpires, CanvasTyped, CanvasTypeOK
<1>3. ASSUME NEW u \in Users, ReleaseLock(u) PROVE CanvasTyped
  <2>1. PICK d \in DraftIds : EnsureDraft(d) /\ locks' = {r \in locks : ~(r.draft = d /\ r.user = u)}
    BY <1>3 DEF ReleaseLock
  <2>2. drafts' \in Seq(Rows) /\ Len(drafts') <= MaxDrafts BY <2>1, Ensured
  <2>3. locks' \subseteq [draft : DraftIds, user : Users, live : BOOLEAN]
    BY <2>1 DEF CanvasTypeOK
  <2> QED BY <2>2, <2>3, <1>3 DEF ReleaseLock, CanvasTyped, CanvasTypeOK
<1>4. ASSUME NEW u \in Users, NEW h \in Handlers, AcquireStart(h, u) PROVE CanvasTyped
  <2>1. PICK d \in DraftIds : EnsureDraft(d) /\ Continue(h, [pc |-> "lock", user |-> u, draft |-> d])
    BY <1>4 DEF AcquireStart
  <2>2. drafts' \in Seq(Rows) /\ Len(drafts') <= MaxDrafts BY <2>1, Ensured
  <2>3. [pc |-> "lock", user |-> u, draft |-> d] \in CanvasLocals BY DEF CanvasLocals
  <2>4. proc[h] \in CanvasLocals BY <1>4, LocalsAreCanvas DEF AcquireStart
  <2>5. CanvasMove(h) BY <2>1, <2>3, <2>4, OneMoves
  <2> QED BY <2>2, <2>5, <1>4 DEF AcquireStart, CanvasTyped, CanvasTypeOK
<1>5. ASSUME NEW h \in Handlers, AcquireCommit(h) PROVE CanvasTyped
  <2>1. proc[h] \in LockLocals BY <1>5, LocalsByStep DEF AcquireCommit
  <2>2. proc[h].user \in Users /\ proc[h].draft \in DraftIds BY <2>1 DEF LockLocals
  <2>3. locks' \subseteq [draft : DraftIds, user : Users, live : BOOLEAN]
    <3>1. CASE UNCHANGED locks BY <3>1 DEF CanvasTypeOK
    <3>2. CASE locks' = (locks \ Released(proc[h].user, proc[h].draft))
                          \cup {[draft |-> proc[h].draft, user |-> proc[h].user, live |-> TRUE]}
      <4>1. [draft |-> proc[h].draft, user |-> proc[h].user, live |-> TRUE]
              \in [draft : DraftIds, user : Users, live : BOOLEAN] BY <2>2
      <4> QED BY <3>2, <4>1 DEF CanvasTypeOK
    <3> QED BY <3>1, <3>2, <1>5 DEF AcquireCommit
  <2>4. CanvasMove(h) BY <1>5, <2>1, LocalsAreCanvas, OneMoves DEF AcquireCommit
  <2> QED BY <2>3, <2>4, <1>5 DEF AcquireCommit, CanvasTyped, CanvasTypeOK
<1> QED BY <1>1, <1>2, <1>3, <1>4, <1>5 DEF Locking

(* The end of a request leaves plain variables. *)
LEMMA Answered ==
  ASSUME NEW h \in Handlers, proc[h] \in CanvasLocals, Answer(h)
  PROVE  CanvasMove(h)
<1>1. [pc |-> "patch done"] \in CanvasLocals /\ Idle \in CanvasLocals BY DEF CanvasLocals, Idle
<1> QED BY <1>1, OneMoves DEF Answer, CanvasMove, Continue

(* What is added to the log is well formed when it was made so. *)
LEMMA InsertedRecords ==
  ASSUME CanvasTypeOK, NEW new \in SUBSET [draft : DraftIds, op : Ops, rejected : BOOLEAN],
         InsertRecords(new)
  PROVE  records' \subseteq [draft : DraftIds, op : Ops, rejected : BOOLEAN]
  BY DEF InsertRecords, CanvasTypeOK

(* A batch, at each of its statements, keeps the types. *)
LEMMA EditingTypes == TypesOK /\ Editing => CanvasTyped
<1> SUFFICES ASSUME TypesOK, Editing PROVE CanvasTyped
  OBVIOUS
<1> USE DEF TypesOK
<1>1. ASSUME NEW h \in Handlers, NEW u \in Users, NEW b \in Batches, NEW g \in Guards,
             OperationsStart(h, u, b, g)
      PROVE  CanvasTyped
  <2>1. PICK d \in DraftIds :
          EnsureDraft(d) /\ Continue(h, [pc |-> "operations", user |-> u, draft |-> d, batch |-> b,
                                         guard |-> g, base |-> drafts'[d], patch |-> FALSE])
    BY <1>1 DEF OperationsStart
  <2>2. drafts' \in Seq(Rows) /\ Len(drafts') <= MaxDrafts /\ drafts'[d] \in Rows
    BY <2>1, Ensured
  <2>3. [pc |-> "operations", user |-> u, draft |-> d, batch |-> b,
         guard |-> g, base |-> drafts'[d], patch |-> FALSE] \in OperationLocals
    BY <2>2, BatchesAssumption DEF OperationLocals, Content
  <2>4. proc[h] \in CanvasLocals BY <1>1, LocalsAreCanvas DEF OperationsStart
  <2>5. CanvasMove(h) BY <2>1, <2>3, <2>4, LocalsAreCanvas, OneMoves
  <2> QED BY <2>2, <2>5, <1>1 DEF OperationsStart, CanvasTyped, CanvasTypeOK
<1>2. ASSUME NEW h \in Handlers, OperationsApplied(h) PROVE CanvasTyped
  <2> DEFINE d == proc[h].draft
             ops == NewOps(d, proc[h].batch)
  <2>1. proc[h] \in OperationLocals BY <1>2, LocalsByStep DEF OperationsApplied
  <2>2. d \in DraftIds /\ proc[h].batch \in Seq(Ops) BY <2>1 DEF OperationLocals, Content
  <2>3. ops \in Seq(Ops) BY <2>2, NewOpsEmbed
  <2>4. CanvasMove(h) BY <1>2, <2>1, LocalsAreCanvas, Answered DEF OperationsApplied
  <2>5. /\ drafts' = Overwritten(drafts, d, drafts[d].ops \o ops, drafts[d].rev + Len(ops))
        /\ InsertRecords(Logged(d, ops))
        /\ UNCHANGED <<locks, snapshots, patch, canonical, restored>>
    BY <1>2 DEF OperationsApplied, DraftForUpdate, Overwritten
  <2> HIDE DEF d, ops
  <2>6. Logged(d, ops) \in SUBSET [draft : DraftIds, op : Ops, rejected : BOOLEAN]
    <3>1. \A i \in DOMAIN ops : ops[i] \in Ops BY <2>3
    <3>2. \A i \in DOMAIN ops : [draft |-> d, op |-> ops[i], rejected |-> FALSE]
                                  \in [draft : DraftIds, op : Ops, rejected : BOOLEAN]
      BY <2>2, <3>1
    <3> QED BY <3>2 DEF Logged
  <2>7. records' \subseteq [draft : DraftIds, op : Ops, rejected : BOOLEAN]
    BY <2>5, <2>6, InsertedRecords
  <2>8. d \in DOMAIN drafts => drafts[d].ops \o ops \in Content /\ drafts[d].rev + Len(ops) \in Nat
    <3>1. d \in DOMAIN drafts => drafts[d] \in Rows BY DEF CanvasTypeOK
    <3>2. d \in DOMAIN drafts => drafts[d].ops \in Seq(Ops) /\ drafts[d].rev \in Nat
      BY <3>1 DEF Rows, Content
    <3>3. Len(ops) \in Nat BY <2>3
    <3> QED BY <2>3, <3>2, <3>3 DEF Content
  <2>9. drafts' \in Seq(Rows) /\ Len(drafts') = Len(drafts)
    <3>1. drafts \in Seq(Rows) BY DEF CanvasTypeOK
    <3>2. CASE d \in DOMAIN drafts
      <4>1. PICK text \in Content, rev \in Nat :
              text = drafts[d].ops \o ops /\ rev = drafts[d].rev + Len(ops)
        BY <2>8, <3>2
      <4>2. drafts' = Overwritten(drafts, d, text, rev) BY <2>5, <4>1
      <4> QED BY <2>2, <4>2, <3>1, RowUpdate
    <3>3. CASE d \notin DOMAIN drafts
      <4>1. drafts' = drafts BY <2>5, <3>1, <3>3, NoRow
      <4> QED BY <4>1, <3>1
    <3> QED BY <3>2, <3>3
  <2> QED BY <2>4, <2>5, <2>7, <2>9 DEF CanvasTyped, CanvasTypeOK
<1>3. ASSUME NEW h \in Handlers, SomeOperationRejected(h) PROVE CanvasTyped
  <2>1. PICK k \in DOMAIN proc[h].batch : OperationRejected(h, k) BY <1>3 DEF SomeOperationRejected
  <2>2. proc[h] \in OperationLocals BY <1>3, LocalsByStep DEF SomeOperationRejected
  <2>3. proc[h].draft \in DraftIds /\ proc[h].batch[k] \in Ops
    BY <2>1, <2>2 DEF OperationLocals, Content
  <2>4. CanvasMove(h) BY <2>1, <2>2, LocalsAreCanvas, Answered DEF OperationRejected
  <2>5. {[draft |-> proc[h].draft, op |-> proc[h].batch[k], rejected |-> TRUE]}
          \in SUBSET [draft : DraftIds, op : Ops, rejected : BOOLEAN]
    BY <2>3
  <2>6. records' \subseteq [draft : DraftIds, op : Ops, rejected : BOOLEAN]
    BY <2>1, <2>5, InsertedRecords DEF OperationRejected
  <2> QED BY <2>1, <2>4, <2>6 DEF OperationRejected, CanvasTyped, CanvasTypeOK
<1> QED BY <1>1, <1>2, <1>3 DEF Editing

(* What persistSnapshot stores. *)
LEMMA Persisted ==
  ASSUME CanvasTypeOK, NEW s \in Snapshots, PersistSnapshot(s)
  PROVE  snapshots' \subseteq Snapshots
  BY DEF PersistSnapshot, CanvasTypeOK

(* What is copied from a draft's row is a snapshot. *)
LEMMA SnapshotOfType ==
  ASSUME NEW d \in DraftIds, NEW row \in Rows, NEW name \in Names \cup {"none"},
         NEW reason \in {"manual_save", "before_restore", "before_publish"}
  PROVE  SnapshotOf(d, row, reason, name) \in Snapshots
  BY DEF SnapshotOf, Snapshots, Rows

(* Taking and restoring snapshots keeps the types. *)
LEMMA RestoringTypes == TypesOK /\ Restoring => CanvasTyped
<1> SUFFICES ASSUME TypesOK, Restoring PROVE CanvasTyped
  OBVIOUS
<1> USE DEF TypesOK
<1>1. ASSUME NEW h \in Handlers, NEW name \in Names, SnapshotStart(h, name) PROVE CanvasTyped
  <2>1. PICK d \in DraftIds :
          EnsureDraft(d)
            /\ Continue(h, [pc |-> "snapshot", row |-> SnapshotOf(d, drafts'[d], "manual_save", name)])
    BY <1>1 DEF SnapshotStart
  <2>2. drafts' \in Seq(Rows) /\ Len(drafts') <= MaxDrafts /\ drafts'[d] \in Rows
    BY <2>1, Ensured
  <2>3. SnapshotOf(d, drafts'[d], "manual_save", name) \in Snapshots BY <2>2, SnapshotOfType
  <2>4. [pc |-> "snapshot", row |-> SnapshotOf(d, drafts'[d], "manual_save", name)] \in SnapshotLocals
    BY <2>3 DEF SnapshotLocals
  <2>5. proc[h] \in CanvasLocals BY <1>1, LocalsAreCanvas DEF SnapshotStart
  <2>6. CanvasMove(h) BY <2>1, <2>4, <2>5, LocalsAreCanvas, OneMoves
  <2> QED BY <2>2, <2>6, <1>1 DEF SnapshotStart, CanvasTyped, CanvasTypeOK
<1>2. ASSUME NEW h \in Handlers, NEW u \in Users, NEW s \in snapshots, RestoreStart(h, u, s)
      PROVE  CanvasTyped
  <2>1. PICK d \in DraftIds :
          EnsureDraft(d) /\ Continue(h, [pc |-> "before restore", user |-> u, draft |-> d,
                                         base |-> drafts'[d], from |-> s.ops])
    BY <1>2 DEF RestoreStart
  <2>2. drafts' \in Seq(Rows) /\ Len(drafts') <= MaxDrafts /\ drafts'[d] \in Rows
    BY <2>1, Ensured
  <2>3. s.ops \in Content BY DEF CanvasTypeOK, Snapshots
  <2>4. [pc |-> "before restore", user |-> u, draft |-> d, base |-> drafts'[d], from |-> s.ops]
          \in RestoreLocals
    BY <2>2, <2>3 DEF RestoreLocals
  <2>5. proc[h] \in CanvasLocals BY <1>2, LocalsAreCanvas DEF RestoreStart
  <2>6. CanvasMove(h) BY <2>1, <2>4, <2>5, LocalsAreCanvas, OneMoves
  <2> QED BY <2>2, <2>6, <1>2 DEF RestoreStart, CanvasTyped, CanvasTypeOK
<1>3. ASSUME NEW h \in Handlers, CreateSnapshot(h) PROVE CanvasTyped
  <2>1. proc[h] \in SnapshotLocals BY <1>3, LocalsByStep DEF CreateSnapshot
  <2>2. proc[h].row \in Snapshots BY <2>1 DEF SnapshotLocals
  <2>3. snapshots' \subseteq Snapshots BY <1>3, <2>2, Persisted DEF CreateSnapshot
  <2>4. CanvasMove(h) BY <1>3, <2>1, LocalsAreCanvas, OneMoves DEF CreateSnapshot
  <2> QED BY <1>3, <2>3, <2>4 DEF CreateSnapshot, CanvasTyped, CanvasTypeOK
<1>4. ASSUME NEW h \in Handlers, BeforeRestore(h) PROVE CanvasTyped
  <2>1. proc[h] \in RestoreLocals BY <1>4, LocalsByStep DEF BeforeRestore
  <2>2. SnapshotOf(proc[h].draft, proc[h].base, "before_restore", "none") \in Snapshots
    BY <2>1, SnapshotOfType DEF RestoreLocals
  <2>3. snapshots' \subseteq Snapshots BY <1>4, <2>2, Persisted DEF BeforeRestore
  <2>4. [proc[h] EXCEPT !.pc = "restore"] \in RestoreLocals BY <2>1 DEF RestoreLocals
  <2>5. CanvasMove(h) BY <1>4, <2>1, <2>4, LocalsAreCanvas, OneMoves DEF BeforeRestore
  <2> QED BY <1>4, <2>3, <2>5 DEF BeforeRestore, CanvasTyped, CanvasTypeOK
<1>5. ASSUME NEW h \in Handlers, RestoreSave(h) PROVE CanvasTyped
  <2>1. proc[h] \in RestoreLocals BY <1>5, LocalsByStep DEF RestoreSave
  <2>2. proc[h].draft \in DraftIds /\ proc[h].from \in Content /\ proc[h].base.rev + 1 \in Nat
    <3>1. proc[h].draft \in DraftIds /\ proc[h].from \in Content /\ proc[h].base \in Rows
      BY <2>1 DEF RestoreLocals
    <3> QED BY <3>1 DEF Rows
  <2>3. drafts' \in Seq(Rows) /\ Len(drafts') = Len(drafts)
    <3>1. drafts' = Overwritten(drafts, proc[h].draft, proc[h].from, proc[h].base.rev + 1)
      BY <1>5 DEF RestoreSave, Overwritten
    <3>2. drafts \in Seq(Rows) BY DEF CanvasTypeOK
    <3>3. /\ Overwritten(drafts, proc[h].draft, proc[h].from, proc[h].base.rev + 1) \in Seq(Rows)
          /\ Len(Overwritten(drafts, proc[h].draft, proc[h].from, proc[h].base.rev + 1)) = Len(drafts)
      BY <2>2, <3>2, RowUpdate
    <3> QED BY <3>1, <3>3
  <2>4. CanvasMove(h) BY <1>5, <2>1, LocalsAreCanvas, OneMoves DEF RestoreSave
  <2> QED BY <1>5, <2>2, <2>3, <2>4 DEF RestoreSave, CanvasTyped, CanvasTypeOK
<1> QED BY <1>1, <1>2, <1>3, <1>4, <1>5 DEF Restoring

(* Applying, refusing and expiring patches keeps the types. *)
LEMMA PatchingTypes == TypesOK /\ Patching => CanvasTyped
<1> SUFFICES ASSUME TypesOK, Patching PROVE CanvasTyped
  OBVIOUS
<1> USE DEF TypesOK
<1>1. CASE ProposePatch
  <2>1. PICK d \in ActiveDrafts : patch' = [status |-> "ready_for_review", draft |-> d, base |-> drafts[d]]
    BY <1>1 DEF ProposePatch
  <2>2. d \in DraftIds /\ drafts[d] \in Rows
    BY BoundsAssumption DEF ActiveDrafts, CanvasTypeOK, DraftIds
  <2>3. patch' \in [status : Statuses, draft : DraftIds, base : Rows] BY <2>1, <2>2 DEF Statuses
  <2> QED BY <1>1, <2>3 DEF ProposePatch, CanvasTyped, CanvasTypeOK
<1>2. CASE PatchReject
  <2>1. patch' \in [status : Statuses, draft : DraftIds, base : Rows]
    BY <1>2 DEF PatchReject, CanvasTypeOK, Statuses
  <2> QED BY <1>2, <2>1 DEF PatchReject, CanvasTyped, CanvasTypeOK
<1>3. ASSUME NEW h \in Handlers, PatchStartLate(h) PROVE CanvasTyped
  <2>1. [pc |-> "patch late"] \in CanvasLocals BY DEF CanvasLocals
  <2>2. CanvasMove(h) BY <1>3, <2>1, LocalsAreCanvas, OneMoves DEF PatchStartLate
  <2> QED BY <1>3, <2>2 DEF PatchStartLate, canvas, CanvasTyped, CanvasTypeOK
<1>4. ASSUME NEW h \in Handlers, PatchMarkApplied(h) \/ PatchMarkExpired(h) PROVE CanvasTyped
  <2>1. proc[h] \in PlainLocals BY <1>4, LocalsByStep DEF PatchMarkApplied, PatchMarkExpired
  <2>2. CanvasMove(h) BY <1>4, <2>1, LocalsAreCanvas, OneMoves DEF PatchMarkApplied, PatchMarkExpired
  <2>3. patch' \in [status : Statuses, draft : DraftIds, base : Rows]
    BY <1>4 DEF PatchMarkApplied, PatchMarkExpired, CanvasTypeOK, Statuses
  <2> QED BY <1>4, <2>2, <2>3 DEF PatchMarkApplied, PatchMarkExpired, CanvasTyped, CanvasTypeOK
<1>5. ASSUME NEW h \in Handlers, NEW u \in Users, PatchStart(h, u) PROVE CanvasTyped
  <2>1. patch.draft \in DraftIds /\ patch.base \in Rows BY DEF CanvasTypeOK
  <2>2. [pc |-> "operations", user |-> u, draft |-> patch.draft, batch |-> PatchBatch,
         guard |-> "hash", base |-> patch.base, patch |-> TRUE] \in OperationLocals
    BY <2>1, BatchesAssumption DEF OperationLocals, Content
  <2>3. CanvasMove(h) BY <1>5, <2>2, LocalsAreCanvas, OneMoves DEF PatchStart
  <2> QED BY <1>5, <2>3 DEF PatchStart, canvas, CanvasTyped, CanvasTypeOK
<1> QED BY <1>1, <1>2, <1>3, <1>4, <1>5 DEF Patching

(* Every step of CanvasDraft keeps the types. *)
LEMMA DraftTypes == TypeOK /\ [Next]_canvasVars => TypeOK'
<1> SUFFICES ASSUME TypeOK, [Next]_canvasVars PROVE TypeOK'
  OBVIOUS
<1>1. TypesOK BY DEF TypeOK, TypesOK, AllLocals
<1>2. ASSUME CanvasTyped PROVE TypeOK'
  <2>1. CASE UNCHANGED proc BY <1>2, <2>1 DEF CanvasTyped, TypeOK
  <2>2. ASSUME NEW h \in Handlers, CanvasMove(h) PROVE TypeOK'
    <3>1. PICK l \in CanvasLocals : proc' = [proc EXCEPT ![h] = l] BY <2>2 DEF CanvasMove
    <3>2. proc' \in [Handlers -> CanvasLocals] BY <3>1 DEF TypeOK
    <3> QED BY <1>2, <3>2 DEF CanvasTyped, TypeOK
  <2> QED BY <1>2, <2>1, <2>2 DEF CanvasTyped
<1>3. ASSUME NEW h \in Handlers, RequestFails(h) PROVE TypeOK'
  <2>1. proc' \in [Handlers -> CanvasLocals]
    BY <1>3, LocalsAreCanvas DEF RequestFails, Continue, TypeOK
  <2> QED BY <1>3, <2>1 DEF RequestFails, canvas, TypeOK, CanvasTypeOK
<1>4. CASE UNCHANGED canvasVars BY <1>4 DEF canvasVars, canvas, TypeOK, CanvasTypeOK
<1> QED BY <1>1, <1>2, <1>3, <1>4, LockingTypes, EditingTypes, RestoringTypes, PatchingTypes
        DEF Next, Failing

(* The types hold at first. *)
LEMMA DraftTypesInit == Init => TypeOK
<1> SUFFICES ASSUME Init PROVE TypeOK
  OBVIOUS
<1>1. <<>> \in Content /\ FreshRow(<<>>) \in Rows BY DEF Content, FreshRow, Rows
<1>2. 1 \in DraftIds BY BoundsAssumption DEF DraftIds
<1>3. patch \in [status : Statuses, draft : DraftIds, base : Rows] BY <1>1, <1>2 DEF Init, Statuses
<1>4. drafts \in Seq(Rows) /\ Len(drafts) <= MaxDrafts BY BoundsAssumption DEF Init
<1>5. proc \in [Handlers -> CanvasLocals] BY LocalsAreCanvas DEF Init
<1> QED BY <1>1, <1>3, <1>4, <1>5 DEF Init, TypeOK, CanvasTypeOK

-----------------------------------------------------------------------------
(* Edit locks. *)

(* A draft has one lock row (the unique index on unreleased rows). *)
OneLock == \A r, q \in locks : r.draft = q.draft => r = q

(* Only locking writes the locks. *)
LEMMA LocksFrame == Editing \/ Restoring \/ Patching \/ Failing => UNCHANGED locks
  BY DEF Editing, Restoring, Patching, Failing, OperationsStart, OperationsApplied,
         SomeOperationRejected, OperationRejected, SnapshotStart, RestoreStart, CreateSnapshot,
         BeforeRestore, RestoreSave, ProposePatch, PatchReject, PatchStartLate, PatchMarkApplied,
         PatchMarkExpired, PatchStart, RequestFails, canvas

(* A draft has one lock at most, and a live one stays its owner's. *)
LEMMA LocksStep ==
  TypeOK /\ OneLock /\ [Next]_canvasVars
    => /\ OneLock'
       /\ \A r \in locks : r.live => \A q \in locks' : (q.draft = r.draft /\ q.live) => q.user = r.user
<1> DEFINE Kept == \A r \in locks : r.live =>
                     \A q \in locks' : (q.draft = r.draft /\ q.live) => q.user = r.user
<1> SUFFICES ASSUME TypeOK, OneLock, [Next]_canvasVars PROVE OneLock' /\ Kept
  OBVIOUS
<1>1. ASSUME locks' \subseteq locks PROVE OneLock' /\ Kept
  BY <1>1 DEF OneLock
<1>2. CASE LockExpires
  <2>1. PICK r \in locks : locks' = (locks \ {r}) \cup {[r EXCEPT !.live = FALSE]}
    BY <1>2 DEF LockExpires
  <2>2. r \in [draft : DraftIds, user : Users, live : BOOLEAN] BY DEF TypeOK, CanvasTypeOK
  <2>3. [r EXCEPT !.live = FALSE].draft = r.draft /\ [r EXCEPT !.live = FALSE].live = FALSE
    BY <2>2
  <2> QED BY <2>1, <2>3 DEF OneLock
<1>3. ASSUME NEW h \in Handlers, AcquireCommit(h) PROVE OneLock' /\ Kept
  <2> DEFINE u == proc[h].user
             d == proc[h].draft
             left == locks \ Released(u, d)
             new == [draft |-> d, user |-> u, live |-> TRUE]
  <2>1. CASE ~(\E r \in left : r.draft = d) /\ locks' = left \cup {new}
    <3>1. \A r \in locks : r.draft = d => r \in Released(u, d) BY <2>1
    <3>2. \A r \in locks : r.draft = d /\ r.live => r.user = u BY <3>1 DEF Released
    <3>3. new.draft = d /\ new.user = u OBVIOUS
    <3> HIDE DEF new
    <3> QED BY <2>1, <3>2, <3>3 DEF OneLock
  <2> QED BY <1>1, <1>3, <2>1 DEF AcquireCommit
<1>4. ASSUME NEW u \in Users, ReleaseLock(u) PROVE locks' \subseteq locks
  BY <1>4 DEF ReleaseLock
<1>5. ASSUME OpenDraft \/ \E u \in Users, h \in Handlers : AcquireStart(h, u) PROVE UNCHANGED locks
  BY <1>5 DEF OpenDraft, AcquireStart
<1>6. CASE UNCHANGED canvasVars BY <1>1, <1>6 DEF canvasVars, canvas
<1> HIDE DEF Kept
<1> QED BY <1>1, <1>2, <1>3, <1>4, <1>5, <1>6, LocksFrame DEF Next, Locking

(* Type correctness of the canvas: what CanvasDraftService, the lock,      *)
(* snapshot and patch services keep has the columns' types.                *)
THEOREM CanvasTypes == Spec => []TypeOK
  BY DraftTypesInit, DraftTypes, PTL DEF Spec

(* For any number of users, requests and drafts a live lock does not pass  *)
(* to another user (acquireLock's update and unique index), and a patch    *)
(* marked applied does not expire (markExpired's condition), whatever the  *)
(* request had read before.                                                *)
THEOREM NothingIsTakenLate == Spec => LateWritersTakeNothing
<1>1. Init => OneLock BY DEF Init, OneLock
<1>2. TypeOK /\ OneLock /\ [Next]_canvasVars => OneLock' BY LocksStep
<1>3. TypeOK /\ OneLock /\ [Next]_canvasVars
        => [\A r \in locks : r.live =>
              \A q \in locks' : (q.draft = r.draft /\ q.live) => q.user = r.user]_canvasVars
  BY LocksStep
<1>4. TypeOK /\ [Next]_canvasVars => [patch.status = "applied" => patch'.status # "expired"]_canvasVars
  <2> SUFFICES ASSUME TypeOK, Next, patch.status = "applied" PROVE patch'.status # "expired"
    OBVIOUS
  <2>1. CASE Locking
    BY <2>1 DEF Locking, OpenDraft, LockExpires, ReleaseLock, AcquireStart, AcquireCommit
  <2>2. CASE Editing
    BY <2>2 DEF Editing, OperationsStart, OperationsApplied, SomeOperationRejected, OperationRejected
  <2>3. CASE Restoring
    BY <2>3 DEF Restoring, SnapshotStart, RestoreStart, CreateSnapshot, BeforeRestore, RestoreSave
  <2>4. CASE Patching
    <3>1. patch \in [status : Statuses, draft : DraftIds, base : Rows] BY DEF TypeOK, CanvasTypeOK
    <3> QED BY <2>4, <3>1 DEF Patching, ProposePatch, PatchReject, PatchStartLate, PatchMarkApplied,
                              PatchMarkExpired, PatchStart, canvas
  <2>5. CASE Failing BY <2>5 DEF Failing, RequestFails, canvas
  <2> QED BY <2>1, <2>2, <2>3, <2>4, <2>5 DEF Next
<1>5. TypeOK /\ OneLock /\ [Next]_canvasVars
        => [/\ \A r \in locks : r.live =>
                  \A q \in locks' : (q.draft = r.draft /\ q.live) => q.user = r.user
            /\ patch.status = "applied" => patch'.status # "expired"]_canvasVars
  BY <1>3, <1>4
<1> QED BY <1>1, <1>2, <1>5, CanvasTypes, PTL DEF Spec, LateWritersTakeNothing

-----------------------------------------------------------------------------
(* The text of a draft: the operations it is made of, wherever a copy of   *)
(* it is kept (drafts, snapshots, the variables of a restore).             *)

(* Every operation of a text was recorded, none is there twice that no     *)
(* batch names twice, and the patch's first one follows the patch's base.  *)
GoodText(c, recs, p) ==
  /\ \A i \in DOMAIN c : \E r \in recs : r.op = c[i]
  /\ \A i, j \in DOMAIN c : (i # j /\ c[i] = c[j]) => Repeated(c[i])
  /\ FirstIsOwn => \A i \in DOMAIN c :
       c[i] = PatchBatch[1] => p.status # "none" /\ SubSeq(c, 1, i - 1) = p.base.ops

(* A batch of a request is a client's, or the patch with its base's hash.  *)
GoodBatch(l, p) ==
  /\ l.patch => /\ l.batch = PatchBatch /\ l.guard = "hash"
                /\ l.base = p.base /\ p.status # "none"
  /\ ~l.patch => l.batch \in Batches

(* What a request has read names a draft that exists, out of the first n.  *)
GoodLocal(l, recs, p, n) ==
  /\ l.pc = "snapshot" => GoodText(l.row.ops, recs, p)
  /\ l.pc \in {"before restore", "restore"} =>
       l.draft \in 1..n /\ GoodText(l.base.ops, recs, p) /\ GoodText(l.from, recs, p)
  /\ l.pc = "operations" => l.draft \in 1..n /\ GoodBatch(l, p)

(* The automation's first draft is never replaced by these services.       *)
OneDraft ==
  /\ Len(drafts) <= 1 /\ canonical = <<>>
  /\ \A d \in DOMAIN drafts : ~drafts[d].archived

RowsGood == \A d \in DOMAIN drafts : GoodText(drafts[d].ops, records, patch)
SnapshotsGood == \A s \in snapshots : GoodText(s.ops, records, patch)
LocalsGood == \A h \in Handlers : GoodLocal(proc[h], records, patch, Len(drafts))
RecordsNamed == \A r \in records : r.draft \in 1..Len(drafts)

CanvasInv ==
  /\ TypeOK /\ OneDraft /\ RowsGood /\ SnapshotsGood /\ LocalsGood /\ RecordsNamed
  /\ LogMatchesDraft

(* The log grows and the patch keeps its base, so a text stays good.       *)
Later(recs, p, recs2, p2) ==
  /\ recs \subseteq recs2
  /\ p.status # "none" => p2.status # "none" /\ p2.base = p.base

(* What explains a text keeps explaining it as log and patches grow. *)
LEMMA TextStaysGood ==
  ASSUME NEW c, NEW recs, NEW p, NEW recs2, NEW p2,
         GoodText(c, recs, p), Later(recs, p, recs2, p2)
  PROVE  GoodText(c, recs2, p2)
  BY DEF GoodText, Later

(* What a request carries stays true while others write. *)
LEMMA LocalStaysGood ==
  ASSUME NEW l, NEW recs, NEW p, NEW n \in Nat, NEW recs2, NEW p2, NEW n2 \in Nat,
         GoodLocal(l, recs, p, n), Later(recs, p, recs2, p2), n <= n2
  PROVE  GoodLocal(l, recs2, p2, n2)
<1>1. l.pc = "snapshot" => GoodText(l.row.ops, recs2, p2)
  BY TextStaysGood DEF GoodLocal
<1>2. l.pc \in {"before restore", "restore"} =>
        l.draft \in 1..n2 /\ GoodText(l.base.ops, recs2, p2) /\ GoodText(l.from, recs2, p2)
  <2>1. SUFFICES ASSUME l.pc \in {"before restore", "restore"}
                 PROVE  l.draft \in 1..n2 /\ GoodText(l.base.ops, recs2, p2)
                          /\ GoodText(l.from, recs2, p2)
    OBVIOUS
  <2>2. l.draft \in 1..n /\ GoodText(l.base.ops, recs, p) /\ GoodText(l.from, recs, p)
    BY <2>1 DEF GoodLocal
  <2>3. GoodText(l.base.ops, recs2, p2) BY <2>2, TextStaysGood
  <2>4. GoodText(l.from, recs2, p2) BY <2>2, TextStaysGood
  <2> QED BY <2>2, <2>3, <2>4
<1>3. l.pc = "operations" => l.draft \in 1..n2 /\ GoodBatch(l, p2)
  BY DEF GoodLocal, GoodBatch, Later
<1> QED BY <1>1, <1>2, <1>3 DEF GoodLocal

(* Nothing needs to be logged for an empty text. *)
LEMMA NoText == ASSUME NEW recs, NEW p PROVE GoodText(<<>>, recs, p)
  BY DEF GoodText

(* What an action does to drafts, log and patch, ...                       *)
GoodDrafts ==
  /\ OneDraft' /\ Len(drafts) <= Len(drafts')
  /\ Later(records, patch, records', patch')
  /\ RowsGood' /\ RecordsNamed' /\ LogMatchesDraft'

(* ... to snapshots ...                                                    *)
GoodSnapshots == \A s \in snapshots' : s \in snapshots \/ GoodText(s.ops, records', patch')

(* ... and to a request.                                                   *)
GoodMove ==
  \/ UNCHANGED proc
  \/ \E h \in Handlers : \E l \in CanvasLocals :
       proc' = [proc EXCEPT ![h] = l] /\ GoodLocal(l, records', patch', Len(drafts'))

(* The invariant is kept when drafts, snapshots and the moving request are in
   order. *)
LEMMA GoodStep ==
  ASSUME CanvasInv, TypeOK', GoodDrafts, GoodSnapshots, GoodMove
  PROVE  CanvasInv'
<1>1. Len(drafts) \in Nat /\ Len(drafts') \in Nat BY DEF CanvasInv, TypeOK, CanvasTypeOK
<1>2. \A s \in snapshots' : GoodText(s.ops, records', patch')
  BY TextStaysGood DEF CanvasInv, GoodSnapshots, GoodDrafts, SnapshotsGood
<1>3. \A h \in Handlers : GoodLocal(proc[h], records', patch', Len(drafts'))
  BY <1>1, LocalStaysGood DEF CanvasInv, GoodDrafts, LocalsGood
<1>4. \A h \in Handlers : GoodLocal(proc'[h], records', patch', Len(drafts'))
  <2>1. CASE UNCHANGED proc BY <1>3, <2>1
  <2>2. ASSUME NEW h \in Handlers, NEW l \in CanvasLocals, proc' = [proc EXCEPT ![h] = l],
               GoodLocal(l, records', patch', Len(drafts'))
        PROVE  \A g \in Handlers : GoodLocal(proc'[g], records', patch', Len(drafts'))
    <3>1. \A g \in Handlers : proc'[g] = IF g = h THEN l ELSE proc[g]
      BY <2>2 DEF CanvasInv, TypeOK
    <3> QED BY <1>3, <2>2, <3>1
  <2> QED BY <2>1, <2>2 DEF GoodMove
<1> QED BY <1>2, <1>4 DEF CanvasInv, GoodDrafts, SnapshotsGood, LocalsGood

(* The patch alone may move on. *)
LEMMA DraftsKept ==
  ASSUME CanvasInv, UNCHANGED <<drafts, records, canonical, restored>>,
         Later(records, patch, records', patch')
  PROVE  GoodDrafts
<1>1. RowsGood' BY TextStaysGood DEF CanvasInv, RowsGood
<1>2. Len(drafts) \in Nat BY DEF CanvasInv, TypeOK, CanvasTypeOK
<1> QED BY <1>1, <1>2 DEF GoodDrafts, CanvasInv, OneDraft, RecordsNamed, LogMatchesDraft, LoggedOps, ContentOf

(* A step that leaves log and patches alone is no later than none. *)
LEMMA NothingLater == Later(records, patch, records, patch)
  BY DEF Later

(* ensureDraft opens the automation's only draft, or makes it. *)
LEMMA OpenedIsGood ==
  ASSUME CanvasInv, NEW d \in DraftIds, EnsureDraft(d),
         UNCHANGED <<records, patch, canonical, restored>>
  PROVE  /\ GoodDrafts /\ d \in 1..Len(drafts') /\ drafts'[d] \in Rows
         /\ GoodText(drafts'[d].ops, records', patch')
<1>0. drafts \in Seq(Rows) /\ Len(drafts) \in Nat /\ DOMAIN drafts = 1..Len(drafts)
  BY DEF CanvasInv, TypeOK, CanvasTypeOK
<1>1. CASE d \in ActiveDrafts /\ UNCHANGED drafts
  <2>1. GoodDrafts BY <1>1, DraftsKept, NothingLater
  <2>2. d \in 1..Len(drafts') BY <1>0, <1>1 DEF ActiveDrafts
  <2> QED BY <1>0, <1>1, <2>1, <2>2 DEF CanvasInv, RowsGood
<1>2. CASE ActiveDrafts = {} /\ drafts' = Append(drafts, FreshRow(canonical))
  <2>1. drafts = <<>> /\ Len(drafts) = 0
    <3>1. 1 \notin DOMAIN drafts BY <1>2 DEF ActiveDrafts, CanvasInv, OneDraft
    <3>2. Len(drafts) = 0 BY <1>0, <3>1
    <3> QED BY <1>0, <3>2
  <2>2. canonical = <<>> BY DEF CanvasInv, OneDraft
  <2> DEFINE row == FreshRow(<<>>)
  <2>3. drafts' = <<row>> BY <1>2, <2>1, <2>2
  <2>4. row = [rev |-> 0, ops |-> <<>>, archived |-> FALSE] /\ row \in Rows
    BY DEF FreshRow, Rows, Content
  <2> HIDE DEF row
  <2>5. Len(drafts') = 1 /\ DOMAIN drafts' = {1} /\ drafts'[1] = row BY <2>3
  <2>6. drafts'[1].ops = <<>> /\ drafts'[1].rev = 0 /\ ~drafts'[1].archived BY <2>4, <2>5
  <2>7. GoodText(drafts'[1].ops, records', patch') BY <2>6, NoText
  <2>8. records = {} BY <2>1 DEF CanvasInv, RecordsNamed
  <2>9. LogMatchesDraft'
    <3>1. LoggedOps(1)' = {} BY <2>8 DEF LoggedOps
    <3>2. ContentOf(1)' = {} BY <2>6 DEF ContentOf
    <3>3. \A e \in DOMAIN drafts' : e = 1 BY <2>5
    <3>4. drafts'[1].rev = Len(drafts'[1].ops) BY <2>6
    <3> QED BY <3>1, <3>2, <3>3, <3>4 DEF LogMatchesDraft, LoggedOps, ContentOf
  <2>10. OneDraft' BY <2>2, <2>5, <2>6 DEF OneDraft
  <2>11. RowsGood' BY <2>5, <2>7 DEF RowsGood
  <2>12. RecordsNamed' BY <2>8 DEF RecordsNamed
  <2>13. d = 1
    <3>1. d \in 1..MaxDrafts BY DEF DraftIds
    <3>2. CASE d = Len(drafts) + 1 BY <2>1, <3>2
    <3>3. CASE d \in ActiveDrafts BY <1>2, <3>3
    <3> QED BY <3>2, <3>3 DEF EnsureDraft
  <2>14. Later(records, patch, records', patch') BY NothingLater
  <2>15. Len(drafts) <= Len(drafts') BY <2>1, <2>5
  <2>16. GoodDrafts BY <2>9, <2>10, <2>11, <2>12, <2>14, <2>15 DEF GoodDrafts
  <2>17. d \in 1..Len(drafts') BY <2>5, <2>13
  <2>18. drafts'[d] \in Rows BY <2>4, <2>5, <2>13
  <2> QED BY <2>7, <2>13, <2>16, <2>17, <2>18
<1> QED BY <1>1, <1>2 DEF EnsureDraft

(* A request that ends, or remembers nothing of the draft's text. *)
LEMMA PlainMove ==
  ASSUME NEW h \in Handlers, NEW l \in CanvasLocals, Continue(h, l),
         l.pc \in {"idle", "patch done", "patch late", "lock"}
  PROVE  GoodMove
<1>1. GoodLocal(l, records', patch', Len(drafts')) BY DEF GoodLocal
<1> QED BY <1>1 DEF GoodMove, Continue

(* A request that answers carries nothing that could be wrong. *)
LEMMA AnswerMove == ASSUME NEW h \in Handlers, Answer(h) PROVE GoodMove
<1>1. [pc |-> "patch done"] \in CanvasLocals /\ Idle \in CanvasLocals /\ Idle.pc = "idle"
  BY DEF CanvasLocals, Idle
<1> QED BY <1>1, PlainMove DEF Answer

(* Locking puts no draft, snapshot or request out of order. *)
LEMMA LockingGood ==
  ASSUME CanvasInv, Locking PROVE GoodDrafts /\ GoodSnapshots /\ GoodMove
<1>1. CASE LockExpires
  <2>1. GoodDrafts BY <1>1, DraftsKept, NothingLater DEF LockExpires
  <2> QED BY <1>1, <2>1 DEF LockExpires, GoodSnapshots, GoodMove
<1>2. CASE OpenDraft
  <2>1. PICK d \in DraftIds : EnsureDraft(d) BY <1>2 DEF OpenDraft
  <2>2. GoodDrafts BY <1>2, <2>1, OpenedIsGood DEF OpenDraft
  <2> QED BY <1>2, <2>2 DEF OpenDraft, GoodSnapshots, GoodMove
<1>3. ASSUME NEW u \in Users, ReleaseLock(u) PROVE GoodDrafts /\ GoodSnapshots /\ GoodMove
  <2>1. PICK d \in DraftIds : EnsureDraft(d) BY <1>3 DEF ReleaseLock
  <2>2. GoodDrafts BY <1>3, <2>1, OpenedIsGood DEF ReleaseLock
  <2> QED BY <1>3, <2>2 DEF ReleaseLock, GoodSnapshots, GoodMove
<1>4. ASSUME NEW h \in Handlers, NEW u \in Users, AcquireStart(h, u)
      PROVE  GoodDrafts /\ GoodSnapshots /\ GoodMove
  <2>1. PICK d \in DraftIds : EnsureDraft(d) /\ Continue(h, [pc |-> "lock", user |-> u, draft |-> d])
    BY <1>4 DEF AcquireStart
  <2>2. GoodDrafts BY <1>4, <2>1, OpenedIsGood DEF AcquireStart
  <2>3. [pc |-> "lock", user |-> u, draft |-> d] \in CanvasLocals BY DEF CanvasLocals
  <2>4. GoodMove BY <2>1, <2>3, PlainMove
  <2> QED BY <1>4, <2>2, <2>4 DEF AcquireStart, GoodSnapshots
<1>5. ASSUME NEW h \in Handlers, AcquireCommit(h) PROVE GoodDrafts /\ GoodSnapshots /\ GoodMove
  <2>1. GoodDrafts BY <1>5, DraftsKept, NothingLater DEF AcquireCommit
  <2>2. Continue(h, Idle) /\ Idle.pc = "idle" BY <1>5 DEF AcquireCommit, Idle
  <2>3. GoodMove BY <2>2, PlainMove, LocalsAreCanvas
  <2> QED BY <1>5, <2>1, <2>3 DEF AcquireCommit, GoodSnapshots
<1> QED BY <1>1, <1>2, <1>3, <1>4, <1>5 DEF Locking

(* A restore writes a text that was read, and read texts are explained. *)
LEMMA RestoringGood ==
  ASSUME CanvasInv, Restoring PROVE GoodDrafts /\ GoodSnapshots /\ GoodMove
<1>0. TypeOK /\ TypesOK BY DEF CanvasInv, TypeOK, TypesOK, AllLocals
<1>1. ASSUME NEW h \in Handlers, NEW name \in Names, SnapshotStart(h, name)
      PROVE  GoodDrafts /\ GoodSnapshots /\ GoodMove
  <2>1. PICK d \in DraftIds :
          EnsureDraft(d)
            /\ Continue(h, [pc |-> "snapshot", row |-> SnapshotOf(d, drafts'[d], "manual_save", name)])
    BY <1>1 DEF SnapshotStart
  <2> DEFINE row == SnapshotOf(d, drafts'[d], "manual_save", name)
             l == [pc |-> "snapshot", row |-> row]
  <2>2. GoodDrafts /\ drafts'[d] \in Rows /\ GoodText(drafts'[d].ops, records', patch')
    BY <1>1, <2>1, OpenedIsGood DEF SnapshotStart
  <2>3. row \in Snapshots BY <2>2, SnapshotOfType
  <2>4. row.ops = drafts'[d].ops BY DEF SnapshotOf
  <2> HIDE DEF row
  <2>5. l \in CanvasLocals BY <2>3, LocalsAreCanvas DEF SnapshotLocals
  <2>6. l.pc = "snapshot" /\ l.row = row OBVIOUS
  <2>7. proc' = [proc EXCEPT ![h] = l] BY <2>1 DEF Continue, row
  <2> HIDE DEF l
  <2>8. GoodLocal(l, records', patch', Len(drafts')) BY <2>2, <2>4, <2>6 DEF GoodLocal
  <2>9. GoodMove BY <2>5, <2>7, <2>8 DEF GoodMove
  <2> QED BY <1>1, <2>2, <2>9 DEF SnapshotStart, GoodSnapshots
<1>2. ASSUME NEW h \in Handlers, NEW u \in Users, NEW s \in snapshots, RestoreStart(h, u, s)
      PROVE  GoodDrafts /\ GoodSnapshots /\ GoodMove
  <2>1. PICK d \in DraftIds :
          EnsureDraft(d) /\ Continue(h, [pc |-> "before restore", user |-> u, draft |-> d,
                                         base |-> drafts'[d], from |-> s.ops])
    BY <1>2 DEF RestoreStart
  <2> DEFINE l == [pc |-> "before restore", user |-> u, draft |-> d, base |-> drafts'[d], from |-> s.ops]
  <2>2. /\ GoodDrafts /\ d \in 1..Len(drafts') /\ drafts'[d] \in Rows
        /\ GoodText(drafts'[d].ops, records', patch')
    BY <1>2, <2>1, OpenedIsGood DEF RestoreStart
  <2>3. GoodText(s.ops, records', patch') BY <1>2 DEF RestoreStart, CanvasInv, SnapshotsGood
  <2>4. s.ops \in Content BY <1>0 DEF TypesOK, CanvasTypeOK, Snapshots
  <2>5. l \in CanvasLocals BY <2>2, <2>4, LocalsAreCanvas DEF RestoreLocals
  <2>6. l.pc = "before restore" /\ l.draft = d /\ l.base = drafts'[d] /\ l.from = s.ops OBVIOUS
  <2>7. proc' = [proc EXCEPT ![h] = l] BY <2>1 DEF Continue
  <2> HIDE DEF l
  <2>8. GoodLocal(l, records', patch', Len(drafts')) BY <2>2, <2>3, <2>6 DEF GoodLocal
  <2>9. GoodMove BY <2>5, <2>7, <2>8 DEF GoodMove
  <2> QED BY <1>2, <2>2, <2>9 DEF RestoreStart, GoodSnapshots
<1>3. ASSUME NEW h \in Handlers, CreateSnapshot(h) PROVE GoodDrafts /\ GoodSnapshots /\ GoodMove
  <2>1. GoodDrafts BY <1>3, DraftsKept, NothingLater DEF CreateSnapshot
  <2>2. GoodText(proc[h].row.ops, records', patch')
    BY <1>3 DEF CreateSnapshot, CanvasInv, LocalsGood, GoodLocal
  <2>3. snapshots' \subseteq snapshots \cup {proc[h].row} BY <1>3 DEF CreateSnapshot, PersistSnapshot
  <2>4. Continue(h, Idle) /\ Idle.pc = "idle" BY <1>3 DEF CreateSnapshot, Idle
  <2>5. GoodMove BY <2>4, PlainMove, LocalsAreCanvas
  <2> QED BY <2>1, <2>2, <2>3, <2>5 DEF GoodSnapshots
<1>4. ASSUME NEW h \in Handlers, BeforeRestore(h) PROVE GoodDrafts /\ GoodSnapshots /\ GoodMove
  <2> DEFINE s == SnapshotOf(proc[h].draft, proc[h].base, "before_restore", "none")
             l == [proc[h] EXCEPT !.pc = "restore"]
  <2>1. GoodDrafts BY <1>4, DraftsKept, NothingLater DEF BeforeRestore
  <2>2. /\ proc[h].draft \in 1..Len(drafts')
        /\ GoodText(proc[h].base.ops, records', patch') /\ GoodText(proc[h].from, records', patch')
    BY <1>4 DEF BeforeRestore, CanvasInv, LocalsGood, GoodLocal
  <2>3. snapshots' \subseteq snapshots \cup {s} BY <1>4 DEF BeforeRestore, PersistSnapshot
  <2>4. s.ops = proc[h].base.ops BY DEF SnapshotOf
  <2>5. GoodSnapshots
    <3> HIDE DEF s
    <3> QED BY <2>2, <2>3, <2>4 DEF GoodSnapshots
  <2>6. proc[h] \in RestoreLocals BY <1>0, <1>4, LocalsByStep DEF TypesOK, BeforeRestore
  <2>7. l \in CanvasLocals /\ l.pc = "restore" /\ l.draft = proc[h].draft
          /\ l.base = proc[h].base /\ l.from = proc[h].from
    BY <2>6, LocalsAreCanvas DEF RestoreLocals
  <2>8. proc' = [proc EXCEPT ![h] = l] BY <1>4 DEF BeforeRestore, Continue
  <2> HIDE DEF l
  <2>9. GoodLocal(l, records', patch', Len(drafts')) BY <2>2, <2>7 DEF GoodLocal
  <2>10. GoodMove BY <2>7, <2>8, <2>9 DEF GoodMove
  <2> QED BY <2>1, <2>5, <2>10
<1>5. ASSUME NEW h \in Handlers, RestoreSave(h) PROVE GoodDrafts /\ GoodSnapshots /\ GoodMove
  <2> DEFINE d == proc[h].draft
  <2>1. d \in 1..Len(drafts) /\ GoodText(proc[h].from, records, patch)
    BY <1>5 DEF RestoreSave, CanvasInv, LocalsGood, GoodLocal
  <2>2. drafts \in Seq(Rows) /\ Len(drafts) <= 1 /\ DOMAIN drafts = 1..Len(drafts)
    BY <1>0 DEF TypesOK, CanvasTypeOK, CanvasInv, OneDraft
  <2>3. d = 1 /\ Len(drafts) = 1 /\ 1 \in DraftIds BY <2>1, <2>2, BoundsAssumption DEF DraftIds
  <2>4. proc[h] \in RestoreLocals BY <1>0, <1>5, LocalsByStep DEF TypesOK, RestoreSave
  <2>5. proc[h].from \in Content /\ proc[h].base \in Rows BY <2>4 DEF RestoreLocals
  <2>6. proc[h].base.rev + 1 \in Nat BY <2>5 DEF Rows
  <2>7. drafts' = Overwritten(drafts, d, proc[h].from, proc[h].base.rev + 1)
    BY <1>5 DEF RestoreSave, Overwritten
  <2> HIDE DEF d
  <2>8. /\ drafts' \in Seq(Rows) /\ Len(drafts') = Len(drafts)
        /\ drafts'[d] = [rev |-> proc[h].base.rev + 1, ops |-> proc[h].from,
                         archived |-> drafts[d].archived]
    BY <2>2, <2>3, <2>5, <2>6, <2>7, RowUpdate
  <2>9. DOMAIN drafts' = {1} BY <2>3, <2>8
  <2>10. ~drafts'[1].archived /\ drafts'[1].ops = proc[h].from
    BY <2>2, <2>3, <2>8 DEF CanvasInv, OneDraft
  <2>11. UNCHANGED <<records, patch, canonical>> /\ 1 \in restored' BY <1>5, <2>3 DEF RestoreSave, d
  <2>12. OneDraft' BY <2>3, <2>8, <2>9, <2>10, <2>11 DEF OneDraft, CanvasInv
  <2>13. RowsGood' BY <2>1, <2>9, <2>10, <2>11 DEF RowsGood
  <2>14. RecordsNamed' BY <2>8, <2>11 DEF RecordsNamed, CanvasInv
  <2>15. LogMatchesDraft' BY <2>9, <2>11 DEF LogMatchesDraft
  <2>16. Len(drafts) <= Len(drafts') BY <2>3, <2>8
  <2>17. GoodDrafts BY <2>11, <2>12, <2>13, <2>14, <2>15, <2>16, NothingLater DEF GoodDrafts
  <2>18. Continue(h, Idle) /\ Idle.pc = "idle" BY <1>5 DEF RestoreSave, Idle
  <2>19. GoodMove BY <2>18, PlainMove, LocalsAreCanvas
  <2> QED BY <1>5, <2>17, <2>19 DEF RestoreSave, GoodSnapshots
<1> QED BY <1>1, <1>2, <1>3, <1>4, <1>5 DEF Restoring

(* A patch is applied to the text it was made for, or its batch is refused. *)
LEMMA PatchingGood ==
  ASSUME CanvasInv, Patching PROVE GoodDrafts /\ GoodSnapshots /\ GoodMove
<1>0. TypeOK /\ TypesOK BY DEF CanvasInv, TypeOK, TypesOK, AllLocals
<1>1. CASE ProposePatch
  <2>1. Later(records, patch, records', patch') BY <1>1 DEF ProposePatch, Later
  <2>2. GoodDrafts BY <1>1, <2>1, DraftsKept DEF ProposePatch
  <2> QED BY <1>1, <2>2 DEF ProposePatch, GoodSnapshots, GoodMove
<1>2. ASSUME NEW s \in Statuses \ {"none"}, patch' = [patch EXCEPT !.status = s],
             UNCHANGED <<drafts, records, canonical, restored>>
      PROVE  GoodDrafts
  <2>1. patch'.status = s /\ patch'.base = patch.base BY <1>0, <1>2 DEF TypesOK, CanvasTypeOK
  <2>2. Later(records, patch, records', patch') BY <1>2, <2>1 DEF Later
  <2> QED BY <1>2, <2>2, DraftsKept
<1>3. CASE PatchReject
  <2>1. GoodDrafts BY <1>2, <1>3 DEF PatchReject, Statuses
  <2> QED BY <1>3, <2>1 DEF PatchReject, GoodSnapshots, GoodMove
<1>4. ASSUME NEW h \in Handlers, PatchStartLate(h) PROVE GoodDrafts /\ GoodSnapshots /\ GoodMove
  <2>1. GoodDrafts BY <1>4, DraftsKept, NothingLater DEF PatchStartLate, canvas
  <2>2. [pc |-> "patch late"] \in CanvasLocals /\ Continue(h, [pc |-> "patch late"])
    BY <1>4 DEF PatchStartLate, CanvasLocals
  <2>3. GoodMove BY <2>2, PlainMove
  <2> QED BY <1>4, <2>1, <2>3 DEF PatchStartLate, canvas, GoodSnapshots
<1>5. ASSUME NEW h \in Handlers, NEW u \in Users, PatchStart(h, u)
      PROVE  GoodDrafts /\ GoodSnapshots /\ GoodMove
  <2> DEFINE l == [pc |-> "operations", user |-> u, draft |-> patch.draft, batch |-> PatchBatch,
                   guard |-> "hash", base |-> patch.base, patch |-> TRUE]
  <2>1. GoodDrafts BY <1>5, DraftsKept, NothingLater DEF PatchStart, canvas
  <2>2. proc' = [proc EXCEPT ![h] = l] BY <1>5 DEF PatchStart, Continue
  <2>3. patch.draft \in DraftIds /\ patch.base \in Rows BY <1>0 DEF TypesOK, CanvasTypeOK
  <2>4. l \in CanvasLocals
    BY <2>3, LocalsAreCanvas, BatchesAssumption DEF OperationLocals, Content
  <2>5. l.pc = "operations" /\ l.draft = patch.draft /\ l.batch = PatchBatch /\ l.guard = "hash"
          /\ l.base = patch.base /\ l.patch = TRUE
    OBVIOUS
  <2>6. patch.draft \in 1..Len(drafts') /\ patch.status = "ready_for_review" /\ UNCHANGED patch
    BY <1>0, <1>5 DEF PatchStart, ActiveDrafts, canvas, TypesOK, CanvasTypeOK
  <2> HIDE DEF l
  <2>7. GoodBatch(l, patch') BY <2>5, <2>6 DEF GoodBatch
  <2>8. GoodLocal(l, records', patch', Len(drafts')) BY <2>5, <2>6, <2>7 DEF GoodLocal
  <2>9. GoodMove BY <2>2, <2>4, <2>8 DEF GoodMove
  <2> QED BY <1>5, <2>1, <2>9 DEF PatchStart, canvas, GoodSnapshots
<1>6. ASSUME NEW h \in Handlers, PatchMarkApplied(h) \/ PatchMarkExpired(h)
      PROVE  GoodDrafts /\ GoodSnapshots /\ GoodMove
  <2>1. PICK s \in Statuses \ {"none"} : patch' = [patch EXCEPT !.status = s]
    <3>1. CASE PatchMarkApplied(h) BY <3>1 DEF PatchMarkApplied, Statuses
    <3>2. CASE PatchMarkExpired(h)
      <4>1. CASE patch.status = "applied"
        <5>1. patch' = [patch EXCEPT !.status = "applied"] BY <3>2, <4>1 DEF PatchMarkExpired
        <5> QED BY <5>1 DEF Statuses
      <4>2. CASE patch.status # "applied"
        <5>1. patch' = [patch EXCEPT !.status = "expired"] BY <3>2, <4>2 DEF PatchMarkExpired
        <5> QED BY <5>1 DEF Statuses
      <4> QED BY <4>1, <4>2
    <3> QED BY <1>6, <3>1, <3>2
  <2>2. GoodDrafts BY <1>2, <1>6, <2>1 DEF PatchMarkApplied, PatchMarkExpired
  <2>3. Continue(h, Idle) /\ Idle.pc = "idle" BY <1>6 DEF PatchMarkApplied, PatchMarkExpired, Idle
  <2>4. GoodMove BY <2>3, PlainMove, LocalsAreCanvas
  <2> QED BY <1>6, <2>2, <2>4 DEF PatchMarkApplied, PatchMarkExpired, GoodSnapshots
<1> QED BY <1>1, <1>3, <1>4, <1>5, <1>6 DEF Patching

(* What comes after a text leaves its beginnings as they are. *)
LEMMA PrefixOfConcat ==
  ASSUME NEW c \in Seq(Ops), NEW e \in Seq(Ops), NEW n \in 0..Len(c)
  PROVE  SubSeq(c \o e, 1, n) = SubSeq(c, 1, n)
  OBVIOUS

(* A sequence is its own longest beginning. *)
LEMMA WholePrefix == ASSUME NEW c \in Seq(Ops) PROVE SubSeq(c, 1, Len(c)) = c
  OBVIOUS

(* What a batch leaves behind is a good text: what it adds is not in the   *)
(* log, so it is not in the draft, and it is not there twice.              *)
LEMMA AppliedText ==
  ASSUME NEW d, NEW c \in Seq(Ops), NEW batch \in Seq(Ops), NEW recs,
         GoodText(c, records, patch), \A r \in records : r.draft = d,
         batch \in Batches \cup {PatchBatch},
         batch \notin Batches => patch.status # "none" /\ c = patch.base.ops,
         records \subseteq recs,
         \A i \in DOMAIN NewOps(d, batch) : \E r \in recs : r.op = NewOps(d, batch)[i]
  PROVE  GoodText(c \o NewOps(d, batch), recs, patch)
<1> DEFINE ops == NewOps(d, batch)
           new == c \o ops
<1>1. ops \in Seq(Ops) BY NewOpsEmbed
<1>2. PICK f : Embeds(f, ops, d, batch, Len(batch)) BY NewOpsEmbed
<1>3. /\ \A k \in DOMAIN ops : f[k] \in 1..Len(batch) /\ ops[k] = batch[f[k]]
      /\ \A k \in DOMAIN ops : ~ExistingOperation(d, ops[k])
      /\ \A k, m \in DOMAIN ops : k < m => f[k] < f[m]
  BY <1>2 DEF Embeds
<1>4. \A i \in DOMAIN ops : \E r \in recs : r.op = ops[i] OBVIOUS
<1> HIDE DEF ops
<1>5. /\ Len(c) \in Nat /\ DOMAIN c = 1..Len(c)
      /\ Len(ops) \in Nat /\ DOMAIN ops = 1..Len(ops)
      /\ DOMAIN batch = 1..Len(batch) /\ Len(batch) \in Nat
  BY <1>1
<1>6. DOMAIN new = 1..(Len(c) + Len(ops)) BY <1>1
<1>7. \A i \in DOMAIN new : IF i <= Len(c) THEN i \in DOMAIN c /\ new[i] = c[i]
                            ELSE i - Len(c) \in DOMAIN ops /\ new[i] = ops[i - Len(c)]
  BY <1>1, <1>5, <1>6
<1>8. \A i \in DOMAIN c, k \in DOMAIN ops : c[i] # ops[k]
  BY <1>3 DEF GoodText, ExistingOperation
<1>9. \A k, m \in DOMAIN ops : k # m => f[k] # f[m]
  <2> SUFFICES ASSUME NEW k \in DOMAIN ops, NEW m \in DOMAIN ops, k # m PROVE f[k] # f[m]
    OBVIOUS
  <2>1. f[k] \in Nat /\ f[m] \in Nat /\ (k < m \/ m < k) BY <1>3, <1>5
  <2> QED BY <1>3, <2>1
<1>10. \A k, m \in DOMAIN ops : k # m /\ ops[k] = ops[m] => Repeated(ops[k])
  <2> SUFFICES ASSUME NEW k \in DOMAIN ops, NEW m \in DOMAIN ops, k # m, ops[k] = ops[m]
               PROVE  Repeated(ops[k])
    OBVIOUS
  <2>1. f[k] \in DOMAIN batch /\ f[m] \in DOMAIN batch /\ f[k] # f[m]
    BY <1>3, <1>5, <1>9
  <2>2. batch[f[k]] = ops[k] /\ batch[f[m]] = ops[k] BY <1>3
  <2> QED BY <2>1, <2>2 DEF Repeated
<1> HIDE DEF new
<1>11. \A i \in DOMAIN new : \E r \in recs : r.op = new[i]
  <2>1. \A i \in DOMAIN c : \E r \in recs : r.op = c[i] BY DEF GoodText
  <2> QED BY <1>4, <1>7, <2>1
<1>12. \A i, j \in DOMAIN new : (i # j /\ new[i] = new[j]) => Repeated(new[i])
  <2> SUFFICES ASSUME NEW i \in DOMAIN new, NEW j \in DOMAIN new, i # j, new[i] = new[j]
               PROVE  Repeated(new[i])
    OBVIOUS
  <2>0. i \in Nat /\ j \in Nat BY <1>5, <1>6
  <2>1. CASE i <= Len(c) /\ j <= Len(c)
    <3>1. i \in DOMAIN c /\ j \in DOMAIN c /\ new[i] = c[i] /\ new[j] = c[j] BY <1>7, <2>1
    <3> QED BY <3>1 DEF GoodText
  <2>2. CASE i <= Len(c) /\ ~(j <= Len(c))
    <3>1. i \in DOMAIN c /\ j - Len(c) \in DOMAIN ops /\ new[i] = c[i] /\ new[j] = ops[j - Len(c)]
      BY <1>7, <2>2
    <3> QED BY <1>8, <3>1
  <2>3. CASE ~(i <= Len(c)) /\ j <= Len(c)
    <3>1. j \in DOMAIN c /\ i - Len(c) \in DOMAIN ops /\ new[j] = c[j] /\ new[i] = ops[i - Len(c)]
      BY <1>7, <2>3
    <3> QED BY <1>8, <3>1
  <2>4. CASE ~(i <= Len(c)) /\ ~(j <= Len(c))
    <3>1. /\ i - Len(c) \in DOMAIN ops /\ j - Len(c) \in DOMAIN ops
          /\ new[i] = ops[i - Len(c)] /\ new[j] = ops[j - Len(c)]
      BY <1>7, <2>4
    <3>2. i - Len(c) # j - Len(c) BY <1>5, <2>0
    <3> QED BY <1>10, <3>1, <3>2
  <2> QED BY <2>1, <2>2, <2>3, <2>4
<1>13. ASSUME FirstIsOwn, NEW i \in DOMAIN new, new[i] = PatchBatch[1]
       PROVE  patch.status # "none" /\ SubSeq(new, 1, i - 1) = patch.base.ops
  <2>0. i \in Nat /\ i >= 1 BY <1>5, <1>6
  <2>1. CASE i <= Len(c)
    <3>1. i \in DOMAIN c /\ c[i] = PatchBatch[1] BY <1>7, <1>13, <2>1
    <3>2. patch.status # "none" /\ SubSeq(c, 1, i - 1) = patch.base.ops BY <1>13, <3>1 DEF GoodText
    <3>3. i - 1 \in 0..Len(c) BY <1>5, <2>0, <2>1
    <3>4. SubSeq(new, 1, i - 1) = SubSeq(c, 1, i - 1) BY <1>1, <3>3, PrefixOfConcat DEF new
    <3> QED BY <3>2, <3>4
  <2>2. CASE ~(i <= Len(c))
    <3> DEFINE k == i - Len(c)
    <3>1. k \in DOMAIN ops /\ ops[k] = PatchBatch[1] BY <1>7, <1>13, <2>2
    <3> HIDE DEF k
    <3>2. f[k] \in DOMAIN batch /\ batch[f[k]] = PatchBatch[1] BY <1>3, <1>5, <3>1
    <3>3. batch \notin Batches BY <1>13, <3>2 DEF FirstIsOwn
    <3>4. batch = PatchBatch /\ patch.status # "none" /\ c = patch.base.ops BY <3>3
    <3>5. 1 \in DOMAIN batch BY <1>5, <3>2
    <3>6. f[k] = 1
      <4>1. ~Repeated(PatchBatch[1]) BY <1>13 DEF FirstIsOwn
      <4> QED BY <3>2, <3>4, <3>5, <4>1 DEF Repeated
    <3>7. k = 1
      <4>1. 1 \in DOMAIN ops BY <1>5, <3>1
      <4>2. f[1] \in Nat /\ f[1] >= 1 BY <1>3, <1>5, <4>1
      <4> QED BY <1>3, <1>5, <3>1, <3>6, <4>1, <4>2
    <3>8. i - 1 = Len(c) BY <1>5, <2>0, <3>7 DEF k
    <3>9. Len(c) \in 0..Len(c) BY <1>5
    <3>10. SubSeq(new, 1, Len(c)) = c BY <1>1, <3>9, PrefixOfConcat, WholePrefix DEF new
    <3> QED BY <3>4, <3>8, <3>10
  <2> QED BY <2>1, <2>2
<1>14. GoodText(new, recs, patch) BY <1>11, <1>12, <1>13 DEF GoodText
<1> QED BY <1>14 DEF new, ops

(* A batch starts from what the draft holds and logs what it adds. *)
LEMMA EditingGood ==
  ASSUME CanvasInv, Editing PROVE GoodDrafts /\ GoodSnapshots /\ GoodMove
<1>0. TypeOK /\ TypesOK BY DEF CanvasInv, TypeOK, TypesOK, AllLocals
<1>1. ASSUME NEW h \in Handlers, NEW u \in Users, NEW b \in Batches, NEW g \in Guards,
             OperationsStart(h, u, b, g)
      PROVE  GoodDrafts /\ GoodSnapshots /\ GoodMove
  <2>1. PICK d \in DraftIds :
          EnsureDraft(d) /\ Continue(h, [pc |-> "operations", user |-> u, draft |-> d, batch |-> b,
                                         guard |-> g, base |-> drafts'[d], patch |-> FALSE])
    BY <1>1 DEF OperationsStart
  <2> DEFINE l == [pc |-> "operations", user |-> u, draft |-> d, batch |-> b,
                   guard |-> g, base |-> drafts'[d], patch |-> FALSE]
  <2>2. GoodDrafts /\ d \in 1..Len(drafts') /\ drafts'[d] \in Rows
    BY <1>1, <2>1, OpenedIsGood DEF OperationsStart
  <2>3. l \in CanvasLocals
    BY <2>2, BatchesAssumption, LocalsAreCanvas DEF OperationLocals, Content
  <2>4. l.pc = "operations" /\ l.draft = d /\ l.batch = b /\ l.patch = FALSE OBVIOUS
  <2>5. proc' = [proc EXCEPT ![h] = l] BY <2>1 DEF Continue
  <2> HIDE DEF l
  <2>6. GoodLocal(l, records', patch', Len(drafts')) BY <2>2, <2>4 DEF GoodLocal, GoodBatch
  <2>7. GoodMove BY <2>3, <2>5, <2>6 DEF GoodMove
  <2> QED BY <1>1, <2>2, <2>7 DEF OperationsStart, GoodSnapshots
<1>2. ASSUME NEW h \in Handlers, SomeOperationRejected(h)
      PROVE  GoodDrafts /\ GoodSnapshots /\ GoodMove
  <2>1. PICK k \in DOMAIN proc[h].batch : OperationRejected(h, k) BY <1>2 DEF SomeOperationRejected
  <2> DEFINE d == proc[h].draft
             rejection == [draft |-> d, op |-> proc[h].batch[k], rejected |-> TRUE]
  <2>2. d \in 1..Len(drafts) BY <1>2 DEF SomeOperationRejected, CanvasInv, LocalsGood, GoodLocal
  <2>3. records \subseteq records' /\ records' \subseteq records \cup {rejection}
    BY <2>1 DEF OperationRejected, InsertRecords
  <2>4. UNCHANGED <<drafts, patch, canonical, restored, snapshots>> BY <2>1 DEF OperationRejected
  <2>5. rejection.draft = d /\ rejection.rejected = TRUE OBVIOUS
  <2> HIDE DEF d, rejection
  <2>6. Later(records, patch, records', patch') BY <2>3, <2>4 DEF Later
  <2>7. RowsGood' BY <2>4, <2>6, TextStaysGood DEF CanvasInv, RowsGood
  <2>8. RecordsNamed' BY <2>2, <2>3, <2>4, <2>5 DEF CanvasInv, RecordsNamed
  <2>9. LogMatchesDraft'
    <3>1. \A e, op : [draft |-> e, op |-> op, rejected |-> FALSE] # rejection BY <2>5
    <3>2. \A e : LoggedOps(e)' = LoggedOps(e) BY <2>3, <3>1 DEF LoggedOps
    <3>3. \A e : ContentOf(e)' = ContentOf(e) BY <2>4 DEF ContentOf
    <3> QED BY <2>4, <3>2, <3>3 DEF CanvasInv, LogMatchesDraft
  <2>10. Len(drafts) <= Len(drafts') BY <1>0, <2>4 DEF TypesOK, CanvasTypeOK
  <2>11. OneDraft' BY <2>4 DEF CanvasInv, OneDraft
  <2>12. GoodDrafts BY <2>6, <2>7, <2>8, <2>9, <2>10, <2>11 DEF GoodDrafts
  <2>13. GoodMove BY <2>1, AnswerMove DEF OperationRejected
  <2> QED BY <2>4, <2>12, <2>13 DEF GoodSnapshots
<1>3. ASSUME NEW h \in Handlers, OperationsApplied(h)
      PROVE  GoodDrafts /\ GoodSnapshots /\ GoodMove
  <2> DEFINE d == proc[h].draft
             batch == proc[h].batch
             ops == NewOps(d, batch)
             text == drafts[d].ops \o ops
             rev == drafts[d].rev + Len(ops)
  <2>1. d \in 1..Len(drafts) /\ GoodBatch(proc[h], patch)
    BY <1>3 DEF OperationsApplied, CanvasInv, LocalsGood, GoodLocal
  <2>2. drafts \in Seq(Rows) /\ Len(drafts) <= 1 /\ DOMAIN drafts = 1..Len(drafts)
    BY <1>0 DEF TypesOK, CanvasTypeOK, CanvasInv, OneDraft
  <2>3. d = 1 /\ Len(drafts) = 1 /\ 1 \in DraftIds BY <2>1, <2>2, BoundsAssumption DEF DraftIds
  <2>4. drafts[1] \in Rows
    <3>1. 1 \in DOMAIN drafts BY <2>2, <2>3
    <3> HIDE DEF d
    <3> QED BY <2>2, <3>1
  <2>5. drafts[1].ops \in Seq(Ops) /\ drafts[1].rev \in Nat BY <2>4 DEF Rows, Content
  <2>6. proc[h] \in OperationLocals BY <1>0, <1>3, LocalsByStep DEF TypesOK, OperationsApplied
  <2>7. batch \in Seq(Ops) /\ proc[h].patch \in BOOLEAN BY <2>6 DEF OperationLocals, Content
  <2>8. ops \in Seq(Ops) /\ \A i \in DOMAIN ops : ~ExistingOperation(d, ops[i])
    BY <2>7, NewOpsEmbed DEF Embeds
  <2>9. /\ drafts' = Overwritten(drafts, d, text, rev)
        /\ records' = records \cup {r \in Logged(d, ops) : \A s \in records : s.op # r.op}
        /\ UNCHANGED <<locks, snapshots, patch, canonical, restored>> /\ Answer(h)
    BY <1>3 DEF OperationsApplied, DraftForUpdate, Overwritten, InsertRecords
  <2>10. batch \in Batches \cup {PatchBatch} BY <2>1, <2>7 DEF GoodBatch
  <2>11. batch \notin Batches => patch.status # "none" /\ drafts[d].ops = patch.base.ops
    <3> SUFFICES ASSUME batch \notin Batches
                 PROVE  patch.status # "none" /\ drafts[d].ops = patch.base.ops
      OBVIOUS
    <3>1. proc[h].guard = "hash" /\ proc[h].base = patch.base /\ patch.status # "none"
      BY <2>1, <2>7 DEF GoodBatch
    <3>2. Matches(h, drafts[d]) BY <1>3 DEF OperationsApplied, DraftForUpdate
    <3> QED BY <3>1, <3>2 DEF Matches
  <2>12. \A r \in records : r.draft = d BY <2>3 DEF CanvasInv, RecordsNamed
  <2>13. GoodText(drafts[d].ops, records, patch) BY <2>1, <2>2 DEF CanvasInv, RowsGood
  <2>14. \A i \in DOMAIN ops : [draft |-> d, op |-> ops[i], rejected |-> FALSE] \in records'
    <3> SUFFICES ASSUME NEW i \in DOMAIN ops
                 PROVE  [draft |-> d, op |-> ops[i], rejected |-> FALSE] \in records'
      OBVIOUS
    <3>1. \A s \in records : s.op # ops[i] BY <2>8, <2>12 DEF ExistingOperation
    <3>2. [draft |-> d, op |-> ops[i], rejected |-> FALSE] \in Logged(d, ops) BY DEF Logged
    <3> QED BY <2>9, <3>1, <3>2
  <2>15. \A i \in DOMAIN ops : \E r \in records' : r.op = ops[i]
    <3>1. \A i \in DOMAIN ops : [draft |-> d, op |-> ops[i], rejected |-> FALSE].op = ops[i] OBVIOUS
    <3> HIDE DEF ops, d
    <3> QED BY <2>14, <3>1
  <2> HIDE DEF d, batch
  <2>16. GoodText(text, records', patch)
    <3>1. drafts[d].ops \in Seq(Ops) BY <2>3, <2>5
    <3>2. records \subseteq records' BY <2>9
    <3>3. GoodText(drafts[d].ops \o NewOps(d, batch), records', patch)
      BY <2>7, <2>10, <2>11, <2>12, <2>13, <2>15, <3>1, <3>2, AppliedText
    <3> QED BY <3>3
  <2> HIDE DEF ops
  <2>17. text \in Content /\ rev \in Nat BY <2>3, <2>5, <2>8 DEF Content
  <2>18. text \in Seq(Ops) /\ DOMAIN text = 1..(Len(drafts[1].ops) + Len(ops))
           /\ Len(text) = Len(drafts[1].ops) + Len(ops)
    BY <2>3, <2>5, <2>8
  <2>19. {text[i] : i \in DOMAIN text}
           = {drafts[1].ops[i] : i \in DOMAIN drafts[1].ops} \cup {ops[i] : i \in DOMAIN ops}
    <3>1. ASSUME NEW i \in DOMAIN text
          PROVE  \/ \E j \in DOMAIN drafts[1].ops : text[i] = drafts[1].ops[j]
                 \/ \E j \in DOMAIN ops : text[i] = ops[j]
      <4>1. CASE i <= Len(drafts[1].ops) BY <2>3, <2>5, <2>8, <2>18, <4>1
      <4>2. CASE ~(i <= Len(drafts[1].ops))
        <5>1. i - Len(drafts[1].ops) \in DOMAIN ops /\ text[i] = ops[i - Len(drafts[1].ops)]
          BY <2>3, <2>5, <2>8, <2>18, <4>2
        <5> QED BY <5>1
      <4> QED BY <4>1, <4>2
    <3>2. ASSUME NEW j \in DOMAIN drafts[1].ops PROVE \E i \in DOMAIN text : text[i] = drafts[1].ops[j]
      <4>1. j \in DOMAIN text /\ text[j] = drafts[1].ops[j] BY <2>3, <2>5, <2>8, <2>18
      <4> QED BY <4>1
    <3>3. ASSUME NEW j \in DOMAIN ops PROVE \E i \in DOMAIN text : text[i] = ops[j]
      <4>1. Len(drafts[1].ops) + j \in DOMAIN text /\ text[Len(drafts[1].ops) + j] = ops[j]
        BY <2>3, <2>5, <2>8, <2>18
      <4> QED BY <4>1
    <3> HIDE DEF text
    <3> QED BY <3>1, <3>2, <3>3
  <2> HIDE DEF text, rev
  <2>20. /\ drafts' \in Seq(Rows) /\ Len(drafts') = Len(drafts)
         /\ drafts'[d] = [rev |-> rev, ops |-> text, archived |-> drafts[d].archived]
    BY <2>2, <2>3, <2>9, <2>17, RowUpdate
  <2>21. DOMAIN drafts' = {1} BY <2>3, <2>20
  <2>22. drafts'[1].ops = text /\ drafts'[1].rev = rev /\ ~drafts'[1].archived
    BY <2>2, <2>3, <2>20 DEF CanvasInv, OneDraft
  <2>23. Later(records, patch, records', patch') BY <2>9 DEF Later
  <2>24. RowsGood' BY <2>9, <2>16, <2>21, <2>22 DEF RowsGood
  <2>25. RecordsNamed'
    <3>1. \A r \in Logged(d, ops) : r.draft = d BY DEF Logged
    <3>2. \A r \in records' : r.draft = 1 BY <2>3, <2>9, <2>12, <3>1
    <3> QED BY <2>3, <2>20, <3>2 DEF RecordsNamed
  <2>26. LoggedOps(1)' = LoggedOps(1) \cup {ops[i] : i \in DOMAIN ops}
    <3>1. ASSUME NEW op \in Ops, [draft |-> 1, op |-> op, rejected |-> FALSE] \in records',
                 [draft |-> 1, op |-> op, rejected |-> FALSE] \notin records
          PROVE  \E i \in DOMAIN ops : op = ops[i]
      BY <2>9, <3>1 DEF Logged
    <3>2. \A i \in DOMAIN ops : ops[i] \in Ops /\ [draft |-> 1, op |-> ops[i], rejected |-> FALSE] \in records'
      BY <2>3, <2>8, <2>14
    <3>3. records \subseteq records' BY <2>9
    <3> QED BY <3>1, <3>2, <3>3 DEF LoggedOps
  <2>27. ContentOf(1)' = ContentOf(1) \cup {ops[i] : i \in DOMAIN ops}
    BY <2>19, <2>22 DEF ContentOf
  <2>28. 1 \notin restored => LoggedOps(1) = ContentOf(1) /\ drafts[1].rev = Len(drafts[1].ops)
    BY <2>2, <2>3 DEF CanvasInv, LogMatchesDraft
  <2>29. 1 \notin restored => drafts'[1].rev = Len(drafts'[1].ops)
    <3>1. rev = drafts[1].rev + Len(ops) BY <2>3 DEF rev
    <3> QED BY <2>18, <2>22, <2>28, <3>1
  <2>30. LogMatchesDraft'
    <3>1. \A e \in DOMAIN drafts' : e = 1 BY <2>21
    <3> QED BY <2>9, <2>26, <2>27, <2>28, <2>29, <3>1 DEF LogMatchesDraft, LoggedOps, ContentOf
  <2>31. OneDraft' BY <2>9, <2>3, <2>20, <2>21, <2>22 DEF CanvasInv, OneDraft
  <2>32. Len(drafts) <= Len(drafts') BY <2>3, <2>20
  <2>33. GoodDrafts BY <2>23, <2>24, <2>25, <2>30, <2>31, <2>32 DEF GoodDrafts
  <2>34. GoodMove BY <2>9, AnswerMove
  <2> QED BY <2>9, <2>33, <2>34 DEF GoodSnapshots
<1> QED BY <1>1, <1>2, <1>3 DEF Editing

(* A request that ends early leaves rows that are in order. *)
LEMMA FailingGood ==
  ASSUME CanvasInv, Failing PROVE GoodDrafts /\ GoodSnapshots /\ GoodMove
<1>1. PICK h \in Handlers : RequestFails(h) BY DEF Failing
<1>2. GoodDrafts BY <1>1, DraftsKept, NothingLater DEF RequestFails, canvas
<1>3. Continue(h, Idle) /\ Idle.pc = "idle" BY <1>1 DEF RequestFails, Idle
<1>4. GoodMove BY <1>3, PlainMove, LocalsAreCanvas
<1> QED BY <1>1, <1>2, <1>4 DEF RequestFails, canvas, GoodSnapshots

(* What the drafts hold, what is logged, copied and remembered about them  *)
(* fit together after every statement of the canvas services.              *)
THEOREM CanvasInvariant == Spec => []CanvasInv
<1>1. Init => CanvasInv
  <2> SUFFICES ASSUME Init PROVE CanvasInv
    OBVIOUS
  <2>1. TypeOK BY DraftTypesInit
  <2>2. drafts = <<>> /\ Len(drafts) = 0 /\ records = {} /\ snapshots = {} /\ canonical = <<>>
    BY DEF Init
  <2>3. \A h \in Handlers : proc[h].pc = "idle" BY DEF Init, Idle
  <2>4. OneDraft /\ RowsGood /\ SnapshotsGood /\ RecordsNamed /\ LogMatchesDraft
    BY <2>2 DEF OneDraft, RowsGood, SnapshotsGood, RecordsNamed, LogMatchesDraft
  <2>5. LocalsGood BY <2>3 DEF LocalsGood, GoodLocal
  <2> QED BY <2>1, <2>4, <2>5 DEF CanvasInv
<1>2. CanvasInv /\ [Next]_canvasVars => CanvasInv'
  <2> SUFFICES ASSUME CanvasInv, [Next]_canvasVars PROVE CanvasInv'
    OBVIOUS
  <2>1. TypeOK' BY DraftTypes DEF CanvasInv
  <2>2. CASE Next
    <3>1. GoodDrafts /\ GoodSnapshots /\ GoodMove
      BY <2>2, LockingGood, EditingGood, RestoringGood, PatchingGood, FailingGood DEF Next
    <3> QED BY <2>1, <3>1, GoodStep
  <2>3. CASE UNCHANGED canvasVars
    <3>1. GoodDrafts BY <2>3, DraftsKept, NothingLater DEF canvasVars, canvas
    <3>2. GoodSnapshots /\ GoodMove BY <2>3 DEF canvasVars, canvas, GoodSnapshots, GoodMove
    <3> QED BY <2>1, <3>1, <3>2, GoodStep
  <2> QED BY <2>2, <2>3
<1> QED BY <1>1, <1>2, PTL DEF Spec

(* However often operations are sent, the draft holds each once that no    *)
(* batch names twice (findExistingOperation).                              *)
THEOREM OperationsApplyOnce == Spec => []AppliedAtMostOnce
<1>1. CanvasInv => AppliedAtMostOnce
  BY DEF CanvasInv, RowsGood, GoodText, AppliedAtMostOnce
<1> QED BY <1>1, CanvasInvariant, PTL

(* The log, the content and the revision of a draft agree as long as no    *)
(* snapshot was restored over it (getDraftForUpdate's row lock).           *)
THEOREM LogsMatchDrafts == Spec => []LogMatchesDraft
<1>1. CanvasInv => LogMatchesDraft BY DEF CanvasInv
<1> QED BY <1>1, CanvasInvariant, PTL

(* A patch whose first operation has an id of its own follows directly on  *)
(* the content it was made for (base_hash, the FOR UPDATE of the draft).   *)
THEOREM PatchesLandOnTheirBase == Spec => []PatchOnlyOnItsBase
<1>1. CanvasInv => PatchOnlyOnItsBase
  BY DEF CanvasInv, RowsGood, GoodText, PatchOnlyOnItsBase
<1> QED BY <1>1, CanvasInvariant, PTL

-----------------------------------------------------------------------------
(***************************************************************************)
(* The requests implement SharedDraft: every statement edits the shared    *)
(* text as a whole, refuses one operation, restores a kept text, or only   *)
(* keeps and forgets texts.                                                *)
(***************************************************************************)

(* Who keeps a text, before a step and after it. *)
LEMMA Keepers ==
  \A t : /\ t \in KeptTexts <=> \/ \E s \in snapshots : t = s.ops
                                \/ \E h \in Handlers : t \in TextsOf(proc[h])
         /\ t \in KeptTexts' <=> \/ \E s \in snapshots' : t = s.ops
                                 \/ \E h \in Handlers : t \in TextsOf(proc'[h])
  BY DEF KeptTexts

(* One request moves: what is kept then was kept before, or the request or *)
(* a new snapshot keeps it.                                                *)
LEMMA MoveKeeps ==
  ASSUME proc \in [Handlers -> CanvasLocals], NEW h \in Handlers, NEW l, Continue(h, l), NEW T,
         TextsOf(l) \subseteq KeptTexts \cup T,
         \A s \in snapshots' : s \in snapshots \/ s.ops \in KeptTexts \cup T
  PROVE  KeptTexts' \subseteq KeptTexts \cup T
<1>1. \A g \in Handlers : proc'[g] = IF g = h THEN l ELSE proc[g] BY DEF Continue
<1>2. SUFFICES ASSUME NEW t \in KeptTexts' PROVE t \in KeptTexts \cup T
  OBVIOUS
<1>3. CASE \E s \in snapshots' : t = s.ops BY <1>3, Keepers
<1>4. ASSUME NEW g \in Handlers, t \in TextsOf(proc'[g]) PROVE t \in KeptTexts \cup T
  <2>1. CASE g = h BY <1>1, <1>4, <2>1
  <2>2. CASE g # h
    <3>1. t \in TextsOf(proc[g]) BY <1>1, <1>4, <2>2
    <3> QED BY <3>1, Keepers
  <2> QED BY <2>1, <2>2
<1> QED BY <1>2, <1>3, <1>4, Keepers

(* A request that kept no text answers: what is kept stays the same. *)
LEMMA AnswerKeeps ==
  ASSUME proc \in [Handlers -> CanvasLocals], NEW h \in Handlers, proc[h].pc = "operations",
         Answer(h), UNCHANGED snapshots
  PROVE  KeptTexts' = KeptTexts
<1>1. PICK l : Continue(h, l) /\ TextsOf(l) = {}
  <2>1. TextsOf(Idle) = {} BY DEF TextsOf, Idle
  <2>2. TextsOf([pc |-> "patch done"]) = {} BY DEF TextsOf
  <2>3. CASE proc[h].patch BY <2>2, <2>3, Zenon DEF Answer
  <2>4. CASE ~proc[h].patch BY <2>1, <2>4, Zenon DEF Answer
  <2> QED BY <2>3, <2>4
<1>2. TextsOf(proc[h]) = {} BY DEF TextsOf
<1>3. \A g \in Handlers : proc'[g] = IF g = h THEN l ELSE proc[g] BY <1>1 DEF Continue
<1>4. \A g \in Handlers : TextsOf(proc'[g]) = TextsOf(proc[g])
  <2> TAKE g \in Handlers
  <2>1. CASE g = h BY <1>1, <1>2, <1>3, <2>1
  <2>2. CASE g # h BY <1>3, <2>2
  <2> QED BY <2>1, <2>2
<1>5. \A t : t \in KeptTexts' <=> t \in KeptTexts BY <1>4, Keepers
<1> QED BY <1>5

(* A step that leaves text and log alone, and keeps at most the text that  *)
(* is the draft's, is the shared draft's Keep.                             *)
LEMMA KeepStep ==
  ASSUME UNCHANGED records, DraftText' = DraftText, KeptTexts' \subseteq KeptTexts \cup {DraftText}
  PROVE  Shared!Keep
<1>1. LoggedOps(1)' = LoggedOps(1) /\ RefusedOps(1)' = RefusedOps(1)
  BY DEF LoggedOps, RefusedOps
<1> QED BY <1>1 DEF Shared!Keep

(* ... and so is one of a request that remembers no other text. *)
LEMMA RequestKeeps ==
  ASSUME CanvasInv, UNCHANGED records, DraftText' = DraftText,
         NEW h \in Handlers, NEW l, Continue(h, l),
         TextsOf(l) \subseteq KeptTexts \cup {DraftText},
         \A s \in snapshots' : s \in snapshots \/ s.ops \in KeptTexts \cup {DraftText}
  PROVE  Shared!Keep
<1>1. proc \in [Handlers -> CanvasLocals] BY DEF CanvasInv, TypeOK
<1>2. KeptTexts' \subseteq KeptTexts \cup {DraftText} BY <1>1, MoveKeeps
<1> QED BY <1>2, KeepStep

(* A step of no request keeps the same texts. *)
LEMMA NobodyMoves ==
  ASSUME UNCHANGED <<records, snapshots, proc>>, DraftText' = DraftText
  PROVE  Shared!Keep
<1>1. KeptTexts' = KeptTexts BY DEF KeptTexts
<1> QED BY <1>1, KeepStep

(* There is one draft, or none. *)
LEMMA TheDraft ==
  ASSUME CanvasInv
  PROVE  /\ drafts \in Seq(Rows) /\ Len(drafts) \in Nat /\ DOMAIN drafts = 1..Len(drafts)
         /\ drafts = <<>> \/ Len(drafts) = 1
         /\ \A d \in DOMAIN drafts : d = 1 /\ drafts[d] \in Rows /\ DraftText = drafts[1].ops
<1>1. drafts \in Seq(Rows) /\ Len(drafts) \in Nat /\ DOMAIN drafts = 1..Len(drafts)
  BY DEF CanvasInv, TypeOK, CanvasTypeOK
<1>2. Len(drafts) <= 1 BY DEF CanvasInv, OneDraft
<1>3. drafts = <<>> \/ Len(drafts) = 1 BY <1>1, <1>2
<1>4. \A d \in DOMAIN drafts : d = 1 /\ drafts[d] \in Rows BY <1>1, <1>2
<1>5. \A d \in DOMAIN drafts : drafts # <<>> BY <1>1
<1> QED BY <1>1, <1>3, <1>4, <1>5 DEF DraftText

(* Opening the draft does not change its text, which is what is read.      *)
LEMMA OpenedText ==
  ASSUME CanvasInv, NEW d \in DraftIds, EnsureDraft(d)
  PROVE  DraftText' = DraftText /\ drafts'[d].ops = DraftText
<1>1. CASE d \in ActiveDrafts /\ UNCHANGED drafts
  <2>1. d \in DOMAIN drafts BY <1>1 DEF ActiveDrafts
  <2>2. d = 1 /\ DraftText = drafts[1].ops BY <2>1, TheDraft
  <2>3. DraftText' = DraftText BY <1>1 DEF DraftText
  <2> QED BY <1>1, <2>2, <2>3
<1>2. CASE ActiveDrafts = {} /\ d = Len(drafts) + 1 /\ drafts' = Append(drafts, FreshRow(canonical))
  <2>1. drafts = <<>> /\ Len(drafts) = 0
    <3>1. 1 \notin DOMAIN drafts BY <1>2 DEF ActiveDrafts, CanvasInv, OneDraft
    <3>2. drafts = <<>> BY <3>1, TheDraft
    <3> QED BY <3>2
  <2>2. canonical = <<>> BY DEF CanvasInv, OneDraft
  <2> DEFINE row == FreshRow(<<>>)
  <2>3. drafts' = <<row>> /\ d = 1 BY <1>2, <2>1, <2>2
  <2>4. row.ops = <<>> BY DEF FreshRow
  <2> HIDE DEF row
  <2>5. drafts'[1] = row /\ drafts' # <<>> BY <2>3
  <2> QED BY <2>1, <2>3, <2>4, <2>5 DEF DraftText
<1> QED BY <1>1, <1>2 DEF EnsureDraft

(* An operation has a row in the log when it was applied or refused.       *)
LEMMA DecidedOps ==
  ASSUME CanvasInv, NEW op \in Ops
  PROVE  ExistingOperation(1, op) <=> op \in LoggedOps(1) \cup RefusedOps(1)
<1>1. \A r \in records : r \in [draft : DraftIds, op : Ops, rejected : BOOLEAN]
  BY DEF CanvasInv, TypeOK, CanvasTypeOK
<1>2. ASSUME ExistingOperation(1, op) PROVE op \in LoggedOps(1) \cup RefusedOps(1)
  <2>1. PICK r \in records : r.draft = 1 /\ r.op = op BY <1>2 DEF ExistingOperation
  <2>2. r = [draft |-> 1, op |-> op, rejected |-> r.rejected] /\ r.rejected \in BOOLEAN
    BY <1>1, <2>1
  <2> QED BY <2>2 DEF LoggedOps, RefusedOps
<1>3. ASSUME op \in LoggedOps(1) \cup RefusedOps(1) PROVE ExistingOperation(1, op)
  BY <1>3 DEF LoggedOps, RefusedOps, ExistingOperation
<1> QED BY <1>2, <1>3

(* What the transaction of a batch does to the draft, the log and the rest. *)
LEMMA AppliedRows ==
  ASSUME CanvasInv, NEW h \in Handlers, OperationsApplied(h)
  PROVE  /\ proc[h].pc = "operations" /\ proc[h].batch \in Seq(Ops)
         /\ proc[h].batch \in Batches \cup {PatchBatch}
         /\ DraftText \in Seq(Ops) /\ DraftText' = DraftText \o NewOps(1, proc[h].batch)
         /\ InsertRecords(Logged(1, NewOps(1, proc[h].batch)))
         /\ UNCHANGED snapshots /\ Answer(h)
<1> DEFINE d == proc[h].draft
           batch == proc[h].batch
           ops == NewOps(d, batch)
           text == drafts[d].ops \o ops
           rev == drafts[d].rev + Len(ops)
<1>1. d \in 1..Len(drafts) /\ GoodBatch(proc[h], patch)
  BY DEF OperationsApplied, CanvasInv, LocalsGood, GoodLocal
<1>2. d \in DOMAIN drafts /\ d = 1 /\ drafts[d] \in Rows /\ DraftText = drafts[1].ops
  BY <1>1, TheDraft
<1>3. proc[h] \in OperationLocals
  BY LocalsByStep DEF CanvasInv, TypeOK, AllLocals, OperationsApplied
<1>4. batch \in Seq(Ops) /\ proc[h].patch \in BOOLEAN /\ d \in DraftIds
  BY <1>3 DEF OperationLocals, Content
<1>5. batch \in Batches \cup {PatchBatch} BY <1>1, <1>4 DEF GoodBatch
<1>6. ops \in Seq(Ops) BY <1>4, NewOpsEmbed
<1>7. drafts[1].ops \in Seq(Ops) /\ drafts[1].rev \in Nat BY <1>2 DEF Rows, Content
<1>8. /\ drafts' = Overwritten(drafts, d, text, rev) /\ InsertRecords(Logged(d, ops))
      /\ UNCHANGED snapshots /\ Answer(h) /\ proc[h].pc = "operations"
  BY DEF OperationsApplied, DraftForUpdate, Overwritten
<1> HIDE DEF d, batch, ops
<1>9. text \in Content /\ rev \in Nat BY <1>2, <1>6, <1>7 DEF Content
<1> HIDE DEF text, rev
<1>10. drafts \in Seq(Rows) BY TheDraft
<1>11. /\ drafts' \in Seq(Rows) /\ Len(drafts') = Len(drafts)
       /\ drafts'[d] = [rev |-> rev, ops |-> text, archived |-> drafts[d].archived]
  BY <1>2, <1>4, <1>8, <1>9, <1>10, RowUpdate
<1>12. drafts' # <<>> /\ drafts'[1].ops = text BY <1>2, <1>10, <1>11
<1>13. DraftText' = text BY <1>12 DEF DraftText
<1> USE DEF d, batch, ops, text
<1> QED BY <1>2, <1>4, <1>5, <1>7, <1>8, <1>13

(* A batch is one edit of the newest text: what is left of it, whole.      *)
LEMMA EditStep ==
  ASSUME CanvasInv, NEW h \in Handlers, OperationsApplied(h)
  PROVE  Shared!Edit(proc[h].batch)
<1> DEFINE batch == proc[h].batch
           ops == NewOps(1, batch)
           decided == LoggedOps(1) \cup RefusedOps(1)
           left == {k \in DOMAIN batch : batch[k] \notin decided}
<1>1. /\ batch \in Seq(Ops) /\ DraftText' = DraftText \o ops /\ InsertRecords(Logged(1, ops))
      /\ UNCHANGED snapshots /\ Answer(h) /\ proc[h].pc = "operations"
  BY AppliedRows
<1>2. ops \in Seq(Ops) /\ \E f : Embeds(f, ops, 1, batch, Len(batch)) BY <1>1, NewOpsEmbed
<1>3. PICK f : Embeds(f, ops, 1, batch, Len(batch)) BY <1>2
<1>4. KeptTexts' = KeptTexts
  BY <1>1, AnswerKeeps DEF CanvasInv, TypeOK
<1> HIDE DEF batch, ops
<1>5. /\ DOMAIN batch = 1..Len(batch) /\ Len(batch) \in Nat
      /\ DOMAIN ops = 1..Len(ops) /\ Len(ops) \in 0..Len(batch)
      /\ \A k \in DOMAIN batch : batch[k] \in Ops
      /\ \A i \in DOMAIN ops : ops[i] \in Ops
  BY <1>1, <1>2, <1>3 DEF Embeds
<1>6. \A k \in DOMAIN batch : ExistingOperation(1, batch[k]) <=> batch[k] \in decided
  BY <1>5, DecidedOps
<1>7. \A i \in DOMAIN ops : f[i] \in left /\ ops[i] = batch[f[i]] /\ ~ExistingOperation(1, ops[i])
  BY <1>3, <1>5, <1>6 DEF Embeds
<1>8. \A k \in left : \E i \in DOMAIN ops : f[i] = k
  BY <1>3, <1>5, <1>6 DEF Embeds
<1>9. {ops[i] : i \in DOMAIN ops} = {batch[k] : k \in left}
  BY <1>7, <1>8
<1>10. LoggedOps(1)' = LoggedOps(1) \cup {ops[i] : i \in DOMAIN ops}
       /\ RefusedOps(1)' = RefusedOps(1)
  <2>1. records' = records \cup {r \in Logged(1, ops) : \A s \in records : s.op # r.op}
    BY <1>1 DEF InsertRecords
  <2>2. \A s \in records : s.draft = 1
    <3>1. \A s \in records : s.draft \in 1..Len(drafts) BY DEF CanvasInv, RecordsNamed
    <3>2. Len(drafts) \in Nat /\ Len(drafts) <= 1
      BY DEF CanvasInv, OneDraft, TypeOK, CanvasTypeOK
    <3> QED BY <3>1, <3>2
  <2>3. \A i \in DOMAIN ops : \A s \in records : s.op # ops[i]
    BY <1>7, <2>2 DEF ExistingOperation
  <2>4. records' = records \cup Logged(1, ops)
    BY <2>1, <2>3 DEF Logged
  <2>5. ASSUME NEW op \in Ops
        PROVE  /\ [draft |-> 1, op |-> op, rejected |-> FALSE] \in Logged(1, ops)
                    <=> op \in {ops[i] : i \in DOMAIN ops}
               /\ [draft |-> 1, op |-> op, rejected |-> TRUE] \notin Logged(1, ops)
    BY DEF Logged
  <2>6. RefusedOps(1)' = RefusedOps(1) BY <2>4, <2>5 DEF RefusedOps
  <2>7. LoggedOps(1)' = LoggedOps(1) \cup {ops[i] : i \in DOMAIN ops}
    BY <1>5, <2>4, <2>5 DEF LoggedOps
  <2> QED BY <2>6, <2>7
<1> DEFINE n == Len(ops)
<1>11. f \in [1..n -> left]
  <2>1. f = [i \in 1..n |-> f[i]] BY <1>3, <1>5 DEF Embeds
  <2> HIDE DEF left
  <2> QED BY <1>5, <1>7, <2>1
<1>12. \A i, j \in 1..n : i < j => f[i] < f[j] BY <1>3, <1>5 DEF Embeds
<1>13. ops = [i \in 1..n |-> batch[f[i]]]
  <2>1. ops = [i \in 1..n |-> ops[i]] BY <1>2
  <2> QED BY <1>5, <1>7, <2>1
<1>14. DraftText' = DraftText \o [i \in 1..n |-> batch[f[i]]] BY <1>1, <1>13
<1>15. \A k \in left : \E i \in 1..n : f[i] = k BY <1>5, <1>8
<1>16. n \in 0..Len(batch) BY <1>5
<1> HIDE DEF n, left
<1>17. \E m \in 0..Len(batch) : \E place \in [1..m -> left] :
          /\ \A i, j \in 1..m : i < j => place[i] < place[j]
          /\ \A k \in left : \E i \in 1..m : place[i] = k
          /\ DraftText' = DraftText \o [i \in 1..m |-> batch[place[i]]]
  BY <1>11, <1>12, <1>14, <1>15, <1>16
<1>18. LoggedOps(1)' = LoggedOps(1) \cup {batch[k] : k \in left} BY <1>9, <1>10
<1> USE DEF left, batch
<1>19. Shared!Decided = decided BY DEF Shared!Decided
<1> QED BY <1>4, <1>10, <1>17, <1>18, <1>19 DEF Shared!Edit

(* A refusal decides one operation and leaves the text as it is.           *)
LEMMA RefuseStep ==
  ASSUME CanvasInv, NEW h \in Handlers, SomeOperationRejected(h)
  PROVE  /\ proc[h].batch \in Batches \cup {PatchBatch}
         /\ \E k \in DOMAIN proc[h].batch : Shared!Refuse(proc[h].batch[k])
<1>1. PICK k \in DOMAIN proc[h].batch : OperationRejected(h, k) BY DEF SomeOperationRejected
<1> DEFINE op == proc[h].batch[k]
           refusal == [draft |-> 1, op |-> op, rejected |-> TRUE]
<1>2. proc[h].draft \in 1..Len(drafts) /\ GoodBatch(proc[h], patch)
  BY DEF SomeOperationRejected, CanvasInv, LocalsGood, GoodLocal
<1>3. proc[h].draft = 1 BY <1>2, TheDraft
<1>4. proc[h] \in OperationLocals
  BY LocalsByStep DEF CanvasInv, TypeOK, AllLocals, SomeOperationRejected
<1>5. proc[h].batch \in Seq(Ops) /\ proc[h].patch \in BOOLEAN BY <1>4 DEF OperationLocals, Content
<1>6. proc[h].batch \in Batches \cup {PatchBatch} BY <1>2, <1>5 DEF GoodBatch
<1>7. op \in Ops BY <1>5
<1>8. /\ ~ExistingOperation(1, op) /\ InsertRecords({refusal}) /\ Answer(h)
      /\ UNCHANGED <<drafts, snapshots>> /\ proc[h].pc = "operations"
  BY <1>1, <1>3 DEF OperationRejected, SomeOperationRejected
<1> HIDE DEF op
<1>9. op \notin LoggedOps(1) \cup RefusedOps(1) BY <1>7, <1>8, DecidedOps
<1>10. records' = records \cup {refusal}
  <2>1. \A s \in records : s.draft = 1
    <3>1. \A s \in records : s.draft \in 1..Len(drafts) BY DEF CanvasInv, RecordsNamed
    <3>2. Len(drafts) \in Nat /\ Len(drafts) <= 1
      BY DEF CanvasInv, OneDraft, TypeOK, CanvasTypeOK
    <3> QED BY <3>1, <3>2
  <2>2. \A s \in records : s.op # op BY <1>8, <2>1 DEF ExistingOperation
  <2> QED BY <1>8, <2>2 DEF InsertRecords
<1>11. LoggedOps(1)' = LoggedOps(1) BY <1>10 DEF LoggedOps
<1>12. RefusedOps(1)' = RefusedOps(1) \cup {op} BY <1>7, <1>10 DEF RefusedOps
<1>13. DraftText' = DraftText BY <1>8 DEF DraftText
<1>14. KeptTexts' = KeptTexts BY <1>8, AnswerKeeps DEF CanvasInv, TypeOK
<1>15. Shared!Refuse(op)
  BY <1>9, <1>11, <1>12, <1>13, <1>14 DEF Shared!Refuse, Shared!Decided
<1> QED BY <1>6, <1>15 DEF op

(* Overwriting a draft restores a text that the request kept.              *)
LEMMA RestoreStep ==
  ASSUME CanvasInv, NEW h \in Handlers, RestoreSave(h)
  PROVE  Shared!Restore
<1>1. proc[h] \in RestoreLocals
  BY LocalsByStep DEF CanvasInv, TypeOK, AllLocals, RestoreSave
<1>2. proc[h].draft \in 1..Len(drafts)
  BY DEF RestoreSave, CanvasInv, LocalsGood, GoodLocal
<1>3. proc[h].draft = 1 /\ 1 \in DOMAIN drafts /\ drafts \in Seq(Rows) BY <1>2, TheDraft
<1>4. /\ drafts' = Overwritten(drafts, proc[h].draft, proc[h].from, proc[h].base.rev + 1)
      /\ Continue(h, Idle) /\ UNCHANGED <<records, snapshots>>
  BY DEF RestoreSave, Overwritten
<1> DEFINE rev == proc[h].base.rev + 1
<1>5. proc[h].draft \in DraftIds /\ proc[h].from \in Content /\ rev \in Nat
  <2>1. proc[h].draft \in DraftIds /\ proc[h].from \in Content /\ proc[h].base \in Rows
    BY <1>1 DEF RestoreLocals
  <2>2. rev \in Nat BY <2>1 DEF Rows
  <2> QED BY <2>1, <2>2
<1> HIDE DEF rev
<1>6. drafts' \in Seq(Rows) /\ Len(drafts') = Len(drafts) /\ drafts'[1].ops = proc[h].from
  <2>1. drafts' = Overwritten(drafts, 1, proc[h].from, rev) BY <1>3, <1>4 DEF rev
  <2>2. /\ drafts' \in Seq(Rows) /\ Len(drafts') = Len(drafts)
        /\ drafts'[1] = [rev |-> rev, ops |-> proc[h].from, archived |-> drafts[1].archived]
    BY <1>3, <1>5, <2>1, RowUpdate
  <2> QED BY <2>2
<1>7. DraftText' = proc[h].from BY <1>3, <1>6 DEF DraftText
<1>8. proc[h].from \in TextsOf(proc[h]) BY <1>1 DEF RestoreLocals, TextsOf
<1>9. proc[h].from \in KeptTexts BY <1>8, Keepers
<1>10. TextsOf(Idle) = {} BY DEF TextsOf, Idle
<1>11. proc \in [Handlers -> CanvasLocals] BY DEF CanvasInv, TypeOK
<1>12. KeptTexts' \subseteq KeptTexts \cup {}
  BY <1>4, <1>10, <1>11, MoveKeeps
<1>13. LoggedOps(1)' = LoggedOps(1) /\ RefusedOps(1)' = RefusedOps(1)
  BY <1>4 DEF LoggedOps, RefusedOps
<1> QED BY <1>7, <1>9, <1>12, <1>13 DEF Shared!Restore

(* A request that ends, or goes on without a text, forgets texts at most.  *)
LEMMA Forgets ==
  ASSUME CanvasInv, UNCHANGED records, DraftText' = DraftText, UNCHANGED snapshots,
         NEW h \in Handlers, NEW l, Continue(h, l), TextsOf(l) = {}
  PROVE  Shared!Keep
  BY RequestKeeps

(* Locking never touches a text. *)
LEMMA LockingKeeps == ASSUME CanvasInv, Locking PROVE Shared!Keep
<1>1. CASE LockExpires
  BY <1>1, NobodyMoves DEF LockExpires, DraftText
<1>2. CASE OpenDraft
  BY <1>2, NobodyMoves, OpenedText DEF OpenDraft
<1>3. ASSUME NEW u \in Users, ReleaseLock(u) PROVE Shared!Keep
  BY <1>3, NobodyMoves, OpenedText DEF ReleaseLock
<1>4. ASSUME NEW u \in Users, NEW h \in Handlers, AcquireStart(h, u) PROVE Shared!Keep
  <2>1. PICK d \in DraftIds : EnsureDraft(d) /\ Continue(h, [pc |-> "lock", user |-> u, draft |-> d])
    BY <1>4 DEF AcquireStart
  <2>2. TextsOf([pc |-> "lock", user |-> u, draft |-> d]) = {} BY DEF TextsOf
  <2>3. DraftText' = DraftText BY <2>1, OpenedText
  <2>4. UNCHANGED <<records, snapshots>> BY <1>4 DEF AcquireStart
  <2> QED BY <2>1, <2>2, <2>3, <2>4, Forgets
<1>5. ASSUME NEW h \in Handlers, AcquireCommit(h) PROVE Shared!Keep
  <2>1. Continue(h, Idle) /\ UNCHANGED <<drafts, records, snapshots>> BY <1>5 DEF AcquireCommit
  <2>2. TextsOf(Idle) = {} BY DEF TextsOf, Idle
  <2>3. DraftText' = DraftText BY <2>1 DEF DraftText
  <2> QED BY <2>1, <2>2, <2>3, Forgets
<1> QED BY <1>1, <1>2, <1>3, <1>4, <1>5 DEF Locking

(* What a client sends is an edit, a refusal, or not yet either.           *)
LEMMA EditingShared == ASSUME CanvasInv, Editing PROVE Shared!SharedNext
<1>1. ASSUME NEW h \in Handlers, NEW u \in Users, NEW b \in Batches, NEW g \in Guards,
             OperationsStart(h, u, b, g)
      PROVE  Shared!Keep
  <2>1. PICK d \in DraftIds :
          EnsureDraft(d) /\ Continue(h, [pc |-> "operations", user |-> u, draft |-> d, batch |-> b,
                                         guard |-> g, base |-> drafts'[d], patch |-> FALSE])
    BY <1>1 DEF OperationsStart
  <2>2. TextsOf([pc |-> "operations", user |-> u, draft |-> d, batch |-> b,
                 guard |-> g, base |-> drafts'[d], patch |-> FALSE]) = {}
    BY DEF TextsOf
  <2>3. DraftText' = DraftText BY <2>1, OpenedText
  <2>4. UNCHANGED <<records, snapshots>> BY <1>1 DEF OperationsStart
  <2> QED BY <2>1, <2>2, <2>3, <2>4, Forgets
<1>2. ASSUME NEW h \in Handlers, OperationsApplied(h) PROVE Shared!SharedNext
  BY <1>2, AppliedRows, EditStep DEF Shared!SharedNext
<1>3. ASSUME NEW h \in Handlers, SomeOperationRejected(h) PROVE Shared!SharedNext
  BY <1>3, RefuseStep DEF Shared!SharedNext
<1> QED BY <1>1, <1>2, <1>3 DEF Editing, Shared!SharedNext

(* Snapshots keep the draft's text or a kept one; a restore brings one back. *)
LEMMA RestoringShared == ASSUME CanvasInv, Restoring PROVE Shared!Keep \/ Shared!Restore
<1>1. ASSUME NEW h \in Handlers, NEW name \in Names, SnapshotStart(h, name) PROVE Shared!Keep
  <2>1. PICK d \in DraftIds :
          EnsureDraft(d)
            /\ Continue(h, [pc |-> "snapshot", row |-> SnapshotOf(d, drafts'[d], "manual_save", name)])
    BY <1>1 DEF SnapshotStart
  <2> DEFINE row == SnapshotOf(d, drafts'[d], "manual_save", name)
  <2>2. DraftText' = DraftText /\ row.ops = DraftText BY <2>1, OpenedText DEF SnapshotOf
  <2> HIDE DEF row
  <2>3. TextsOf([pc |-> "snapshot", row |-> row]) = {row.ops} BY DEF TextsOf
  <2>4. UNCHANGED <<records, snapshots>> BY <1>1 DEF SnapshotStart
  <2> USE DEF row
  <2> QED BY <2>1, <2>2, <2>3, <2>4, RequestKeeps
<1>2. ASSUME NEW h \in Handlers, NEW u \in Users, NEW s \in snapshots, RestoreStart(h, u, s)
      PROVE  Shared!Keep
  <2>1. PICK d \in DraftIds :
          EnsureDraft(d) /\ Continue(h, [pc |-> "before restore", user |-> u, draft |-> d,
                                         base |-> drafts'[d], from |-> s.ops])
    BY <1>2 DEF RestoreStart
  <2>2. DraftText' = DraftText /\ drafts'[d].ops = DraftText BY <2>1, OpenedText
  <2>3. TextsOf([pc |-> "before restore", user |-> u, draft |-> d, base |-> drafts'[d],
                 from |-> s.ops]) = {drafts'[d].ops, s.ops}
    BY DEF TextsOf
  <2>4. s.ops \in KeptTexts BY Keepers
  <2>5. UNCHANGED <<records, snapshots>> BY <1>2 DEF RestoreStart
  <2> QED BY <2>1, <2>2, <2>3, <2>4, <2>5, RequestKeeps
<1>3. ASSUME NEW h \in Handlers, CreateSnapshot(h) PROVE Shared!Keep
  <2>1. proc[h].row.ops \in TextsOf(proc[h]) BY <1>3 DEF CreateSnapshot, TextsOf
  <2>2. proc[h].row.ops \in KeptTexts BY <2>1, Keepers
  <2>3. snapshots' \subseteq snapshots \cup {proc[h].row} BY <1>3 DEF CreateSnapshot, PersistSnapshot
  <2>4. Continue(h, Idle) /\ UNCHANGED <<drafts, records>> BY <1>3 DEF CreateSnapshot
  <2>5. TextsOf(Idle) = {} BY DEF TextsOf, Idle
  <2>6. DraftText' = DraftText BY <2>4 DEF DraftText
  <2> QED BY <2>2, <2>3, <2>4, <2>5, <2>6, RequestKeeps
<1>4. ASSUME NEW h \in Handlers, BeforeRestore(h) PROVE Shared!Keep
  <2> DEFINE s == SnapshotOf(proc[h].draft, proc[h].base, "before_restore", "none")
             l == [proc[h] EXCEPT !.pc = "restore"]
  <2>1. proc[h] \in RestoreLocals
    BY <1>4, LocalsByStep DEF CanvasInv, TypeOK, AllLocals, BeforeRestore
  <2>2. l.pc = "restore" /\ l.base = proc[h].base /\ l.from = proc[h].from
    BY <2>1 DEF RestoreLocals
  <2>3. s.ops = proc[h].base.ops BY DEF SnapshotOf
  <2>4. /\ Continue(h, l) /\ snapshots' \subseteq snapshots \cup {s}
        /\ UNCHANGED <<drafts, records>>
    BY <1>4 DEF BeforeRestore, PersistSnapshot
  <2> HIDE DEF l, s
  <2>5. TextsOf(l) = {l.base.ops, l.from} BY <2>2 DEF TextsOf
  <2>6. TextsOf(proc[h]) = {proc[h].base.ops, proc[h].from} BY <1>4 DEF BeforeRestore, TextsOf
  <2>7. TextsOf(l) \subseteq KeptTexts /\ s.ops \in KeptTexts
    BY <2>2, <2>3, <2>5, <2>6, Keepers
  <2>8. DraftText' = DraftText BY <2>4 DEF DraftText
  <2> QED BY <2>4, <2>7, <2>8, RequestKeeps
<1>5. ASSUME NEW h \in Handlers, RestoreSave(h) PROVE Shared!Restore
  BY <1>5, RestoreStep
<1> QED BY <1>1, <1>2, <1>3, <1>4, <1>5 DEF Restoring

(* The patch's row is none of the shared draft's. *)
LEMMA PatchingKeeps == ASSUME CanvasInv, Patching PROVE Shared!Keep
<1>1. UNCHANGED <<drafts, records, snapshots>>
  BY DEF Patching, ProposePatch, PatchReject, PatchStartLate, PatchMarkApplied, PatchMarkExpired,
         PatchStart, canvas
<1>2. DraftText' = DraftText BY <1>1 DEF DraftText
<1>3. CASE ProposePatch \/ PatchReject
  BY <1>1, <1>2, <1>3, NobodyMoves DEF ProposePatch, PatchReject
<1>4. ASSUME NEW h \in Handlers, PatchMarkApplied(h) \/ PatchMarkExpired(h) PROVE Shared!Keep
  <2>1. Continue(h, Idle) BY <1>4 DEF PatchMarkApplied, PatchMarkExpired
  <2>2. TextsOf(Idle) = {} BY DEF TextsOf, Idle
  <2> QED BY <1>1, <1>2, <2>1, <2>2, Forgets
<1>5. ASSUME NEW h \in Handlers, PatchStartLate(h) PROVE Shared!Keep
  <2>1. Continue(h, [pc |-> "patch late"]) BY <1>5 DEF PatchStartLate
  <2>2. TextsOf([pc |-> "patch late"]) = {} BY DEF TextsOf
  <2> QED BY <1>1, <1>2, <2>1, <2>2, Forgets
<1>6. ASSUME NEW h \in Handlers, NEW u \in Users, PatchStart(h, u) PROVE Shared!Keep
  <2> DEFINE l == [pc |-> "operations", user |-> u, draft |-> patch.draft, batch |-> PatchBatch,
                   guard |-> "hash", base |-> patch.base, patch |-> TRUE]
  <2>1. Continue(h, l) BY <1>6 DEF PatchStart
  <2>2. TextsOf(l) = {} BY DEF TextsOf
  <2> HIDE DEF l
  <2> QED BY <1>1, <1>2, <2>1, <2>2, Forgets
<1> QED BY <1>3, <1>4, <1>5, <1>6 DEF Patching

(* A request that ends early leaves the text, and forgets its own. *)
LEMMA FailingKeeps == ASSUME CanvasInv, Failing PROVE Shared!Keep
<1>1. PICK h \in Handlers : RequestFails(h) BY DEF Failing
<1>2. Continue(h, Idle) /\ UNCHANGED <<drafts, records, snapshots>>
  BY <1>1 DEF RequestFails, canvas
<1>3. TextsOf(Idle) = {} BY DEF TextsOf, Idle
<1>4. DraftText' = DraftText BY <1>2 DEF DraftText
<1> QED BY <1>2, <1>3, <1>4, Forgets

(* Every step of the requests is a step of the shared draft. *)
LEMMA StepImplementsShared ==
  CanvasInv /\ [Next]_canvasVars => [Shared!SharedNext]_(Shared!sharedVars)
<1> SUFFICES ASSUME CanvasInv, [Next]_canvasVars PROVE Shared!SharedNext
  OBVIOUS
<1>1. CASE Next
  BY <1>1, LockingKeeps, EditingShared, RestoringShared, PatchingKeeps, FailingKeeps
  DEF Next, Shared!SharedNext
<1>2. CASE UNCHANGED canvasVars
  <2>1. Shared!Keep BY <1>2, NobodyMoves DEF canvasVars, canvas, DraftText
  <2> QED BY <2>1 DEF Shared!SharedNext
<1> QED BY <1>1, <1>2

(* At first there is no text, and nothing was decided or kept. *)
LEMMA InitImplementsShared == Init => Shared!SharedInit
<1> SUFFICES ASSUME Init PROVE Shared!SharedInit
  OBVIOUS
<1>1. DraftText = <<>> BY DEF Init, DraftText
<1>2. LoggedOps(1) = {} /\ RefusedOps(1) = {} BY DEF Init, LoggedOps, RefusedOps
<1>3. TextsOf(Idle) = {} BY DEF TextsOf, Idle
<1>4. \A h \in Handlers : TextsOf(proc[h]) = {} BY <1>3 DEF Init
<1>5. KeptTexts = {} BY <1>4, Keepers DEF Init
<1> QED BY <1>1, <1>2, <1>5 DEF Shared!SharedInit

(* The requests of the canvas services implement the shared draft for any  *)
(* number of people, requests and batches: whatever a request had read     *)
(* before its transaction, a batch takes effect as a whole on the newest   *)
(* text, what was applied or refused stays so, and a restored text was     *)
(* once the draft's (getDraftForUpdate, findExistingOperation,             *)
(* insertOperationRecord, restoreSnapshot).                                *)
THEOREM CanvasImplementsShared == Spec => ImplementsShared
<1>1. Init => Shared!SharedInit
  BY InitImplementsShared
<1>2. CanvasInv /\ [Next]_canvasVars => [Shared!SharedNext]_(Shared!sharedVars)
  BY StepImplementsShared
<1> QED BY <1>1, <1>2, CanvasInvariant, PTL DEF Spec, ImplementsShared, Shared!SharedSpec

-----------------------------------------------------------------------------
(* Versions: the types. *)
PublishingLocals == [pc : {"before publish", "version number"}, draft : DraftIds, base : Rows]
NumberedLocals == [pc : {"publish"}, draft : DraftIds, base : Rows, no : Nat]
InsertingLocals == [pc : {"insert draft"}, target : VersionIds, key : Keys \cup {NoKey}]
RollbackLocals == [pc : {"roll back"}, target : VersionIds, key : Keys]
KeyLocals == [pc : {"disable", "record"}, key : Keys]
ImportLocals == [pc : {"import", "imported"}]

(* At each statement a request has the locals of its operation. *)
LEMMA VersionLocalsByStep ==
  ASSUME NEW l \in AllLocals
  PROVE  /\ l.pc \in {"before publish", "version number"} => l \in PublishingLocals
         /\ l.pc = "publish" => l \in NumberedLocals
         /\ l.pc = "insert draft" => l \in InsertingLocals
         /\ l.pc = "roll back" => l \in RollbackLocals
         /\ l.pc \in {"disable", "record"} => l \in KeyLocals
         /\ l.pc \in {"import", "imported"} => l \in ImportLocals
  BY DEF AllLocals, CanvasLocals, VersionLocals, PublishingLocals, NumberedLocals, InsertingLocals,
         RollbackLocals, KeyLocals, ImportLocals

(* The locals of each operation are among those of the module. *)
LEMMA LocalsAreAll ==
  /\ PublishingLocals \subseteq AllLocals /\ NumberedLocals \subseteq AllLocals
  /\ InsertingLocals \subseteq AllLocals /\ RollbackLocals \subseteq AllLocals
  /\ KeyLocals \subseteq AllLocals /\ ImportLocals \subseteq AllLocals
  /\ CanvasLocals \subseteq AllLocals /\ Idle \in AllLocals
  BY LocalsAreCanvas
     DEF AllLocals, VersionLocals, PublishingLocals, NumberedLocals, InsertingLocals,
         RollbackLocals, KeyLocals, ImportLocals

(* A request that goes on with proper locals keeps the types of all. *)
LEMMA AllMoves ==
  ASSUME proc \in [Handlers -> AllLocals], NEW h \in Handlers, NEW l \in AllLocals, Continue(h, l)
  PROVE  proc' \in [Handlers -> AllLocals]
  BY DEF Continue

(* Archiving leaves as many well-formed drafts. *)
LEMMA Archived ==
  ASSUME CanvasTypeOK
  PROVE  LET s == [d \in DOMAIN drafts |-> [drafts[d] EXCEPT !.archived = TRUE]]
         IN s \in Seq(Rows) /\ Len(s) = Len(drafts)
<1> DEFINE s == [d \in DOMAIN drafts |-> [drafts[d] EXCEPT !.archived = TRUE]]
<1>1. drafts \in Seq(Rows) /\ DOMAIN drafts = 1..Len(drafts) /\ Len(drafts) \in Nat
  BY DEF CanvasTypeOK
<1>2. \A d \in DOMAIN drafts : [drafts[d] EXCEPT !.archived = TRUE] \in Rows
  <2> TAKE d \in DOMAIN drafts
  <2>1. drafts[d] \in Rows BY <1>1
  <2> QED BY <2>1 DEF Rows
<1>3. s \in [1..Len(drafts) -> Rows] BY <1>1, <1>2
<1> HIDE DEF s
<1>4. s \in Seq(Rows) BY <1>1, <1>3
<1>5. Len(s) = Len(drafts)
  <2>1. DOMAIN s = 1..Len(s) /\ Len(s) \in Nat BY <1>4
  <2> QED BY <1>1, <1>3, <2>1
<1> QED BY <1>4, <1>5 DEF s

VersionTypes ==
  /\ versions \in Seq(Versions) /\ Len(versions) <= MaxVersions
  /\ active \in 0..MaxVersions
  /\ ledger \subseteq Keys /\ moved \subseteq Keys /\ disturbed \subseteq Keys
  /\ candidate \in {"none", "preview_ready", "applied", "rejected"}

(* The types of the module are those of the drafts and those of the versions. *)
LEMMA SplitTypes == VersionsTypeOK <=> TypesOK /\ VersionTypes
  BY DEF VersionsTypeOK, TypesOK, VersionTypes, AllLocals

(* The number drawn is the one after the last version's, whose numbers     *)
(* have no gaps.                                                           *)
LEMMA LastNumber ==
  ASSUME VersionTypes, VersionNumbersInOrder
  PROVE  Max({0} \cup {versions[v].no : v \in DOMAIN versions}) = Len(versions)
<1> DEFINE used == {0} \cup {versions[v].no : v \in DOMAIN versions}
<1>1. Len(versions) \in Nat /\ DOMAIN versions = 1..Len(versions) BY DEF VersionTypes
<1>2. used = 0..Len(versions)
  <2>1. \A v \in 1..Len(versions) : versions[v].no = v BY <1>1 DEF VersionNumbersInOrder
  <2>2. used = {0} \cup {v : v \in 1..Len(versions)} BY <1>1, <2>1
  <2> QED BY <1>1, <2>2
<1> HIDE DEF used
<1>3. Len(versions) \in used /\ \A y \in used : Len(versions) >= y BY <1>1, <1>2
<1>4. \A x \in used : (\A y \in used : x >= y) => x = Len(versions)
  <2> SUFFICES ASSUME NEW x \in used, \A y \in used : x >= y PROVE x = Len(versions)
    OBVIOUS
  <2>1. x >= Len(versions) BY <1>3
  <2>2. x \in 0..Len(versions) BY <1>2
  <2>3. x \in Nat /\ Len(versions) \in Nat /\ x <= Len(versions) BY <1>1, <2>2
  <2> QED BY <2>1, <2>3
<1>5. Max(used) = Len(versions) BY <1>3, <1>4 DEF Max
<1> QED BY <1>5 DEF used

(* Publishing keeps the types; that a number is free makes the rows a
   function. *)
LEMMA PublishingTypes == VersionsTypeOK /\ VersionNumbersInOrder /\ Publishing => VersionsTypeOK'
<1> SUFFICES ASSUME VersionsTypeOK, VersionNumbersInOrder, Publishing PROVE TypesOK' /\ VersionTypes'
  BY DEF VersionsTypeOK, TypesOK, VersionTypes, AllLocals
<1>0. CanvasTypeOK /\ proc \in [Handlers -> AllLocals] /\ VersionTypes
  BY SplitTypes DEF TypesOK
<1>1. ASSUME NEW h \in Handlers, PublishStart(h) PROVE TypesOK' /\ VersionTypes'
  <2>1. PICK d \in DraftIds :
          EnsureDraft(d) /\ Continue(h, [pc |-> "before publish", draft |-> d, base |-> drafts'[d]])
    BY <1>1 DEF PublishStart
  <2>2. drafts' \in Seq(Rows) /\ Len(drafts') <= MaxDrafts /\ drafts'[d] \in Rows
    BY <1>0, <2>1, Ensured
  <2>3. [pc |-> "before publish", draft |-> d, base |-> drafts'[d]] \in PublishingLocals
    BY <2>2 DEF PublishingLocals
  <2>4. proc' \in [Handlers -> AllLocals] BY <1>0, <2>1, <2>3, LocalsAreAll, AllMoves
  <2> QED BY <1>0, <1>1, <2>2, <2>4
          DEF PublishStart, TypesOK, CanvasTypeOK, VersionTypes, lifecycle, versionHistory
<1>2. ASSUME NEW h \in Handlers, BeforePublish(h) PROVE TypesOK' /\ VersionTypes'
  <2>1. proc[h] \in PublishingLocals BY <1>0, <1>2, VersionLocalsByStep DEF BeforePublish
  <2>2. SnapshotOf(proc[h].draft, proc[h].base, "before_publish", "none") \in Snapshots
    BY <2>1, SnapshotOfType DEF PublishingLocals
  <2>3. snapshots' \subseteq Snapshots BY <1>0, <1>2, <2>2, Persisted DEF BeforePublish
  <2>4. [proc[h] EXCEPT !.pc = "version number"] \in PublishingLocals BY <2>1 DEF PublishingLocals
  <2>5. proc' \in [Handlers -> AllLocals]
    BY <1>0, <1>2, <2>4, LocalsAreAll, AllMoves DEF BeforePublish
  <2> QED BY <1>0, <1>2, <2>3, <2>5
          DEF BeforePublish, TypesOK, CanvasTypeOK, VersionTypes, lifecycle, versionHistory
<1>3. ASSUME NEW h \in Handlers, NextVersionNo(h), NEW no \in Nat,
             Continue(h, [pc |-> "publish", draft |-> proc[h].draft, base |-> proc[h].base, no |-> no])
      PROVE  TypesOK' /\ VersionTypes'
  <2>1. proc[h] \in PublishingLocals BY <1>0, <1>3, VersionLocalsByStep DEF NextVersionNo
  <2>2. [pc |-> "publish", draft |-> proc[h].draft, base |-> proc[h].base, no |-> no] \in NumberedLocals
    BY <2>1 DEF PublishingLocals, NumberedLocals
  <2>3. proc' \in [Handlers -> AllLocals] BY <1>0, <1>3, <2>2, LocalsAreAll, AllMoves
  <2> QED BY <1>0, <1>3, <2>3
          DEF NextVersionNo, canvas, TypesOK, CanvasTypeOK, VersionTypes, lifecycle, versionHistory
<1>4. ASSUME NEW h \in Handlers, PublishCommit(h) PROVE TypesOK' /\ VersionTypes'
  <2>1. proc[h] \in NumberedLocals BY <1>0, <1>4, VersionLocalsByStep DEF PublishCommit
  <2>2. proc[h].no \in Nat /\ proc[h].draft \in DraftIds /\ proc[h].base \in Rows
    BY <2>1 DEF NumberedLocals
  <2>3. proc[h].base.rev \in Nat /\ proc[h].base.ops \in Content BY <2>2 DEF Rows
  <2> DEFINE new == [no |-> proc[h].no, draft |-> proc[h].draft,
                     rev |-> Published(h).rev, ops |-> Published(h).ops]
  <2>4. new \in Versions BY <2>2, <2>3 DEF Versions, Published
  <2>5. versions' = Append(versions, new) /\ active' = Len(versions) + 1 /\ Len(versions) < MaxVersions
    BY <1>4 DEF PublishCommit
  <2> HIDE DEF new
  <2>6. versions \in Seq(Versions) /\ Len(versions) \in Nat /\ MaxVersions \in Nat
    BY <1>0, VersionsAssumption DEF VersionTypes
  <2>7. versions' \in Seq(Versions) /\ Len(versions') = Len(versions) + 1 BY <2>4, <2>5, <2>6
  <2>8. active' \in 0..MaxVersions BY <2>5, <2>6
  <2>9. proc' \in [Handlers -> AllLocals] BY <1>0, <1>4, LocalsAreAll, AllMoves DEF PublishCommit
  <2>10. canonical' \in Content BY <1>4, <2>3 DEF PublishCommit, Published
  <2> QED BY <1>0, <1>4, <2>5, <2>6, <2>7, <2>8, <2>9, <2>10
          DEF PublishCommit, TypesOK, CanvasTypeOK, VersionTypes, versionHistory
<1>5. ASSUME NEW h \in Handlers, NextVersionNo(h) PROVE TypesOK' /\ VersionTypes'
  <2>1. Continue(h, [pc |-> "publish", draft |-> proc[h].draft, base |-> proc[h].base,
                     no |-> 1 + Len(versions)])
    BY <1>0, <1>5, LastNumber DEF NextVersionNo
  <2>2. 1 + Len(versions) \in Nat BY <1>0 DEF VersionTypes
  <2> QED BY <1>3, <1>5, <2>1, <2>2
<1> QED BY <1>1, <1>2, <1>4, <1>5 DEF Publishing

(* What a rollback has looked up is a version. *)
TargetsExist ==
  \A h \in Handlers : proc[h].pc \in {"insert draft", "roll back"} => proc[h].target \in DOMAIN versions

(* Rolling back keeps the types, because its target exists. *)
LEMMA RollingBackTypes == VersionsTypeOK /\ TargetsExist /\ RollingBack => VersionsTypeOK'
<1> SUFFICES ASSUME VersionsTypeOK, TargetsExist, RollingBack PROVE TypesOK' /\ VersionTypes'
  BY DEF VersionsTypeOK, TypesOK, VersionTypes, AllLocals
<1>0. CanvasTypeOK /\ proc \in [Handlers -> AllLocals] /\ VersionTypes
  BY SplitTypes DEF TypesOK
<1>1. ASSUME NEW key \in Keys, KeyAccepted(key) PROVE disturbed' \subseteq Keys
  BY <1>0, <1>1 DEF KeyAccepted, VersionTypes
<1>2. ASSUME NEW key, Moved(key) PROVE moved' \subseteq Keys
  BY <1>0, <1>2 DEF Moved, VersionTypes
<1>3. ASSUME NEW h \in Handlers PROVE NextAfter(h) \in AllLocals
  <2>1. CASE proc[h].key \in Keys
    <3>1. [pc |-> "record", key |-> proc[h].key] \in KeyLocals BY <2>1 DEF KeyLocals
    <3> QED BY <2>1, <3>1, LocalsAreAll DEF NextAfter
  <2>2. CASE proc[h].key \notin Keys BY <2>2, LocalsAreAll DEF NextAfter
  <2> QED BY <2>1, <2>2
<1>4. ASSUME NEW h \in Handlers, NEW v \in VersionIds, NEW key \in Keys \cup {NoKey},
             ArchiveForVersion(h, v, key)
      PROVE  TypesOK' /\ VersionTypes'
  <2>1. disturbed' \subseteq Keys BY <1>0, <1>1, <1>4 DEF ArchiveForVersion, VersionTypes
  <2>2. drafts' \in Seq(Rows) /\ Len(drafts') = Len(drafts)
    BY <1>0, <1>4, Archived DEF ArchiveForVersion
  <2>3. [pc |-> "insert draft", target |-> v, key |-> key] \in InsertingLocals BY DEF InsertingLocals
  <2>4. proc' \in [Handlers -> AllLocals]
    BY <1>0, <1>4, <2>3, LocalsAreAll, AllMoves DEF ArchiveForVersion
  <2> QED BY <1>0, <1>4, <2>1, <2>2, <2>4
          DEF ArchiveForVersion, TypesOK, CanvasTypeOK, VersionTypes, lifecycle
<1>5. ASSUME NEW h \in Handlers, NEW v \in VersionIds, NEW key \in Keys, RollbackStart(h, v, key)
      PROVE  TypesOK' /\ VersionTypes'
  <2>1. disturbed' \subseteq Keys BY <1>1, <1>5 DEF RollbackStart
  <2>2. [pc |-> "roll back", target |-> v, key |-> key] \in RollbackLocals BY DEF RollbackLocals
  <2>3. proc' \in [Handlers -> AllLocals]
    BY <1>0, <1>5, <2>2, LocalsAreAll, AllMoves DEF RollbackStart
  <2> QED BY <1>0, <1>5, <2>1, <2>3
          DEF RollbackStart, canvas, TypesOK, CanvasTypeOK, VersionTypes, lifecycle
<1>6. ASSUME NEW h \in Handlers, NEW key \in Keys, DisableStart(h, key)
      PROVE  TypesOK' /\ VersionTypes'
  <2>1. disturbed' \subseteq Keys BY <1>1, <1>6 DEF DisableStart
  <2>2. [pc |-> "disable", key |-> key] \in KeyLocals BY DEF KeyLocals
  <2>3. proc' \in [Handlers -> AllLocals]
    BY <1>0, <1>6, <2>2, LocalsAreAll, AllMoves DEF DisableStart
  <2> QED BY <1>0, <1>6, <2>1, <2>3
          DEF DisableStart, canvas, TypesOK, CanvasTypeOK, VersionTypes, lifecycle
<1>7. ASSUME NEW h \in Handlers, InsertDraft(h), proc[h].target \in DOMAIN versions
      PROVE  TypesOK' /\ VersionTypes'
  <2> DEFINE row == FreshRow(versions[proc[h].target].ops)
  <2>1. versions[proc[h].target] \in Versions BY <1>0, <1>7 DEF VersionTypes
  <2>2. row \in Rows BY <2>1 DEF Versions, FreshRow, Rows
  <2>3. drafts' = Append(drafts, row) /\ Len(drafts) < MaxDrafts BY <1>7 DEF InsertDraft
  <2> HIDE DEF row
  <2>4. drafts \in Seq(Rows) /\ MaxDrafts \in Nat BY <1>0, BoundsAssumption DEF CanvasTypeOK
  <2>5. drafts' \in Seq(Rows) /\ Len(drafts') <= MaxDrafts BY <2>2, <2>3, <2>4
  <2>6. moved' \subseteq Keys BY <1>2, <1>7 DEF InsertDraft
  <2>7. proc' \in [Handlers -> AllLocals] BY <1>0, <1>3, <1>7, AllMoves DEF InsertDraft
  <2> QED BY <1>0, <1>7, <2>5, <2>6, <2>7
          DEF InsertDraft, TypesOK, CanvasTypeOK, VersionTypes, lifecycle
<1>8. ASSUME NEW h \in Handlers, RollbackCommit(h), proc[h].target \in DOMAIN versions
      PROVE  TypesOK' /\ VersionTypes'
  <2>1. versions[proc[h].target] \in Versions BY <1>0, <1>8 DEF VersionTypes
  <2>2. canonical' \in Content BY <1>8, <2>1 DEF RollbackCommit, Versions
  <2>3. proc[h] \in RollbackLocals BY <1>0, <1>8, VersionLocalsByStep DEF RollbackCommit
  <2>4. active' \in 0..MaxVersions
    <3>1. proc[h].target \in 1..MaxVersions BY <2>3 DEF RollbackLocals, VersionIds
    <3>2. active' = proc[h].target BY <1>8 DEF RollbackCommit
    <3> QED BY <3>1, <3>2, VersionsAssumption
  <2>5. moved' \subseteq Keys BY <1>2, <1>8 DEF RollbackCommit
  <2>6. proc' \in [Handlers -> AllLocals] BY <1>0, <1>3, <1>8, AllMoves DEF RollbackCommit
  <2> QED BY <1>0, <1>8, <2>2, <2>4, <2>5, <2>6 DEF RollbackCommit, TypesOK, CanvasTypeOK, VersionTypes
<1>9. ASSUME NEW h \in Handlers, EmergencyDisable(h) PROVE TypesOK' /\ VersionTypes'
  <2>1. moved' \subseteq Keys BY <1>2, <1>9 DEF EmergencyDisable
  <2>2. proc' \in [Handlers -> AllLocals] BY <1>0, <1>3, <1>9, AllMoves DEF EmergencyDisable
  <2> QED BY <1>0, <1>9, <2>1, <2>2
          DEF EmergencyDisable, canvas, TypesOK, CanvasTypeOK, VersionTypes
<1>10. ASSUME NEW h \in Handlers, RecordRollback(h) PROVE TypesOK' /\ VersionTypes'
  <2>1. proc[h] \in KeyLocals BY <1>0, <1>10, VersionLocalsByStep DEF RecordRollback
  <2>2. ledger' \subseteq Keys BY <1>0, <1>10, <2>1 DEF RecordRollback, KeyLocals, VersionTypes
  <2>3. proc' \in [Handlers -> AllLocals]
    BY <1>0, <1>10, LocalsAreAll, AllMoves DEF RecordRollback
  <2> QED BY <1>0, <1>10, <2>2, <2>3
          DEF RecordRollback, canvas, TypesOK, CanvasTypeOK, VersionTypes, versionHistory
<1>11. ASSUME NEW h \in Handlers, InsertDraft(h) \/ RollbackCommit(h)
       PROVE  proc[h].target \in DOMAIN versions
  BY <1>11 DEF TargetsExist, InsertDraft, RollbackCommit
<1> QED BY <1>4, <1>5, <1>6, <1>7, <1>8, <1>9, <1>10, <1>11 DEF RollingBack

(* Importing keeps the types. *)
LEMMA ImportingTypes == VersionsTypeOK /\ Importing => VersionsTypeOK'
<1> SUFFICES ASSUME VersionsTypeOK, Importing PROVE TypesOK' /\ VersionTypes'
  BY DEF VersionsTypeOK, TypesOK, VersionTypes, AllLocals
<1>0. CanvasTypeOK /\ proc \in [Handlers -> AllLocals] /\ VersionTypes
  BY SplitTypes DEF TypesOK
<1>1. CASE ImportPreview \/ ImportReject
  BY <1>0, <1>1 DEF ImportPreview, ImportReject, canvasVars, canvas, TypesOK, CanvasTypeOK,
                    VersionTypes, versionHistory
<1>2. ASSUME NEW h \in Handlers, ImportStart(h) PROVE TypesOK' /\ VersionTypes'
  <2>1. [pc |-> "import"] \in ImportLocals BY DEF ImportLocals
  <2>2. proc' \in [Handlers -> AllLocals] BY <1>0, <1>2, <2>1, LocalsAreAll, AllMoves DEF ImportStart
  <2> QED BY <1>0, <1>2, <2>2
          DEF ImportStart, canvas, TypesOK, CanvasTypeOK, VersionTypes, lifecycle, versionHistory
<1>3. ASSUME NEW h \in Handlers, ImportDraft(h) PROVE TypesOK' /\ VersionTypes'
  <2> DEFINE kept == [d \in DOMAIN drafts |-> [drafts[d] EXCEPT !.archived = TRUE]]
             row == FreshRow(ImportOps)
  <2>1. kept \in Seq(Rows) /\ Len(kept) = Len(drafts) BY <1>0, Archived
  <2>2. ImportOps \in Content /\ row \in Rows BY VersionsAssumption DEF Content, FreshRow, Rows
  <2>3. drafts' = Append(kept, row) /\ Len(drafts) < MaxDrafts BY <1>3 DEF ImportDraft
  <2>4. Len(drafts) \in Nat /\ MaxDrafts \in Nat BY <1>0, BoundsAssumption DEF CanvasTypeOK
  <2> HIDE DEF kept, row
  <2>5. drafts' \in Seq(Rows) /\ Len(drafts') <= MaxDrafts BY <2>1, <2>2, <2>3, <2>4
  <2>6. [pc |-> "imported"] \in ImportLocals BY DEF ImportLocals
  <2>7. proc' \in [Handlers -> AllLocals] BY <1>0, <1>3, <2>6, LocalsAreAll, AllMoves DEF ImportDraft
  <2>8. canonical' \in Content BY <1>3, <2>2 DEF ImportDraft
  <2> QED BY <1>0, <1>3, <2>5, <2>7, <2>8
          DEF ImportDraft, TypesOK, CanvasTypeOK, VersionTypes, lifecycle, versionHistory
<1>4. ASSUME NEW h \in Handlers, ImportMark(h) PROVE TypesOK' /\ VersionTypes'
  <2>1. proc' \in [Handlers -> AllLocals] BY <1>0, <1>4, LocalsAreAll, AllMoves DEF ImportMark
  <2> QED BY <1>0, <1>4, <2>1
          DEF ImportMark, canvas, TypesOK, CanvasTypeOK, VersionTypes, versionHistory
<1> QED BY <1>1, <1>2, <1>3, <1>4 DEF Importing

(* The canvas' own requests, and the requests that fail, among the rest. *)
LEMMA CanvasStepTypes ==
  /\ VersionsTypeOK
  /\ (Locking \/ Editing \/ Restoring \/ Patching) /\ UNCHANGED <<lifecycle, versionHistory>>
  => VersionsTypeOK' /\ (UNCHANGED proc \/ \E h \in Handlers : CanvasMove(h))
<1> SUFFICES ASSUME VersionsTypeOK, Locking \/ Editing \/ Restoring \/ Patching,
                    UNCHANGED <<lifecycle, versionHistory>>
             PROVE  VersionsTypeOK' /\ (UNCHANGED proc \/ \E h \in Handlers : CanvasMove(h))
  OBVIOUS
<1>1. TypesOK /\ VersionTypes BY SplitTypes
<1>2. CanvasTyped BY <1>1, LockingTypes, EditingTypes, RestoringTypes, PatchingTypes
<1>3. VersionTypes' BY <1>1 DEF VersionTypes, lifecycle, versionHistory
<1>4. proc' \in [Handlers -> AllLocals]
  <2>1. CASE UNCHANGED proc BY <1>1, <2>1 DEF TypesOK
  <2>2. ASSUME NEW h \in Handlers, CanvasMove(h) PROVE proc' \in [Handlers -> AllLocals]
    <3>1. PICK l \in CanvasLocals : proc' = [proc EXCEPT ![h] = l] BY <2>2 DEF CanvasMove
    <3>2. l \in AllLocals BY LocalsAreAll
    <3> QED BY <1>1, <3>1, <3>2 DEF TypesOK
  <2> QED BY <1>2, <2>1, <2>2 DEF CanvasTyped
<1>5. VersionsTypeOK'
  BY <1>2, <1>3, <1>4 DEF CanvasTyped, VersionsTypeOK, VersionTypes, AllLocals
<1> QED BY <1>2, <1>5 DEF CanvasTyped

(* A request that ends early keeps the types. *)
LEMMA FailureTypes ==
  ASSUME VersionsTypeOK, NEW h \in Handlers, VersionRequestFails(h)
  PROVE  VersionsTypeOK'
<1>0. CanvasTypeOK /\ proc \in [Handlers -> AllLocals] /\ VersionTypes
  BY SplitTypes DEF TypesOK
<1>1. proc' \in [Handlers -> AllLocals]
  BY <1>0, LocalsAreAll, AllMoves DEF VersionRequestFails, RequestFails
<1>2. disturbed' \subseteq Keys BY <1>0 DEF VersionRequestFails, VersionTypes
<1>3. CanvasTypeOK' /\ VersionTypes'
  BY <1>0, <1>2 DEF VersionRequestFails, RequestFails, canvas, CanvasTypeOK, VersionTypes, lifecycle
<1> QED BY <1>1, <1>3 DEF VersionsTypeOK, VersionTypes, AllLocals

(* The types hold at first. *)
LEMMA VersionsTypeInit == VersionsInit => VersionsTypeOK
<1> SUFFICES ASSUME VersionsInit PROVE VersionsTypeOK
  OBVIOUS
<1>1. TypeOK BY DraftTypesInit DEF VersionsInit
<1>2. proc \in [Handlers -> AllLocals] BY <1>1 DEF TypeOK, AllLocals
<1>3. VersionTypes BY VersionsAssumption DEF VersionsInit, VersionTypes
<1> QED BY <1>1, <1>2, <1>3 DEF TypeOK, VersionsTypeOK, VersionTypes, AllLocals

-----------------------------------------------------------------------------
(* Publishing. A request of n versions keeps what it has looked up among   *)
(* more of them.                                                           *)
VersionLocalGood(l, n) ==
  /\ l.pc \in {"before publish", "version number", "publish"} => PublishGate(l.base)
  /\ l.pc = "publish" => l.no \in 1..(n + 1)
  /\ l.pc \in {"insert draft", "roll back"} => l.target \in 1..n

VersionsGood ==
  /\ VersionNumbersInOrder
  /\ \A v \in DOMAIN versions : PublishGate(versions[v])
  /\ active \in 0..Len(versions)
  /\ \A h \in Handlers : VersionLocalGood(proc[h], Len(versions))

VersionsInv == VersionsTypeOK /\ VersionsGood

(* Requests stay in order when one moves in order and versions are only added. *)
LEMMA LocalsKept ==
  ASSUME proc \in [Handlers -> AllLocals], NEW n \in Nat, NEW m \in Nat, n <= m,
         \A g \in Handlers : VersionLocalGood(proc[g], n),
         NEW h \in Handlers, NEW l, VersionLocalGood(l, m), Continue(h, l)
  PROVE  \A g \in Handlers : VersionLocalGood(proc'[g], m)
<1> TAKE g \in Handlers
<1>1. CASE g = h BY <1>1 DEF Continue
<1>2. CASE g # h
  <2>1. proc'[g] = proc[g] BY <1>2 DEF Continue
  <2>2. VersionLocalGood(proc[g], n) OBVIOUS
  <2>3. 1..n \subseteq 1..m /\ 1..(n + 1) \subseteq 1..(m + 1) OBVIOUS
  <2> QED BY <2>1, <2>2, <2>3 DEF VersionLocalGood
<1> QED BY <1>1, <1>2

(* A request that moves while the versions stay. *)
LEMMA QuietMove ==
  ASSUME VersionsInv, UNCHANGED <<versions, active>>,
         NEW h \in Handlers, NEW l, VersionLocalGood(l, Len(versions)), Continue(h, l)
  PROVE  VersionsGood'
<1>1. proc \in [Handlers -> AllLocals] /\ Len(versions) \in Nat
  BY SplitTypes DEF VersionsInv, TypesOK, VersionTypes
<1>2. \A g \in Handlers : VersionLocalGood(proc'[g], Len(versions))
  BY <1>1, LocalsKept DEF VersionsInv, VersionsGood
<1> QED BY <1>2 DEF VersionsInv, VersionsGood, VersionNumbersInOrder

(* Where no version or number is carried, nothing can be wrong with them. *)
LEMMA PlainIsGood ==
  ASSUME NEW l, NEW n, l.pc \notin {"before publish", "version number", "publish", "insert draft", "roll back"}
  PROVE  VersionLocalGood(l, n)
  BY DEF VersionLocalGood

(* Publishing keeps the numbers in order and makes active what passed the
   gate. *)
LEMMA PublishingGood == VersionsInv /\ Publishing => VersionsGood'
<1> SUFFICES ASSUME VersionsInv, Publishing PROVE VersionsGood'
  OBVIOUS
<1>0. /\ CanvasTypeOK /\ proc \in [Handlers -> AllLocals] /\ VersionTypes
      /\ Len(versions) \in Nat /\ DOMAIN versions = 1..Len(versions)
  BY SplitTypes DEF VersionsInv, TypesOK, VersionTypes
<1>1. ASSUME NEW h \in Handlers, PublishStart(h) PROVE VersionsGood'
  <2>1. PICK d \in DraftIds :
          /\ PublishGate(drafts'[d])
          /\ Continue(h, [pc |-> "before publish", draft |-> d, base |-> drafts'[d]])
    BY <1>1 DEF PublishStart
  <2>2. VersionLocalGood([pc |-> "before publish", draft |-> d, base |-> drafts'[d]], Len(versions))
    BY <2>1 DEF VersionLocalGood
  <2> QED BY <1>1, <2>1, <2>2, QuietMove DEF PublishStart, lifecycle
<1>2. ASSUME NEW h \in Handlers, BeforePublish(h) PROVE VersionsGood'
  <2>1. proc[h] \in PublishingLocals BY <1>0, <1>2, VersionLocalsByStep DEF BeforePublish
  <2>2. PublishGate(proc[h].base)
    BY <1>2 DEF BeforePublish, VersionsInv, VersionsGood, VersionLocalGood
  <2> DEFINE l == [proc[h] EXCEPT !.pc = "version number"]
  <2>3. l.pc = "version number" /\ l.base = proc[h].base BY <2>1 DEF PublishingLocals
  <2>4. VersionLocalGood(l, Len(versions)) BY <2>2, <2>3 DEF VersionLocalGood
  <2> QED BY <1>2, <2>4, QuietMove DEF BeforePublish, lifecycle
<1>3. ASSUME NEW h \in Handlers, NextVersionNo(h) PROVE VersionsGood'
  <2> DEFINE l == [pc |-> "publish", draft |-> proc[h].draft, base |-> proc[h].base,
                   no |-> 1 + Len(versions)]
  <2>1. Continue(h, l) BY <1>0, <1>3, LastNumber DEF NextVersionNo, VersionsInv, VersionsGood
  <2>2. PublishGate(proc[h].base)
    BY <1>3 DEF NextVersionNo, VersionsInv, VersionsGood, VersionLocalGood
  <2>3. 1 + Len(versions) \in 1..(Len(versions) + 1) BY <1>0
  <2>4. VersionLocalGood(l, Len(versions)) BY <2>2, <2>3 DEF VersionLocalGood
  <2> QED BY <1>3, <2>1, <2>4, QuietMove DEF NextVersionNo, lifecycle
<1>4. ASSUME NEW h \in Handlers, PublishCommit(h) PROVE VersionsGood'
  <2> DEFINE new == [no |-> proc[h].no, draft |-> proc[h].draft,
                     rev |-> Published(h).rev, ops |-> Published(h).ops]
             n == Len(versions)
  <2>1. /\ PublishGate(proc[h].base) /\ proc[h].no \in 1..(n + 1)
        /\ \A g \in Handlers : VersionLocalGood(proc[g], n)
    BY <1>4 DEF PublishCommit, VersionsInv, VersionsGood, VersionLocalGood
  <2>2. \A v \in 1..n : versions[v].no = v /\ v # proc[h].no
    BY <1>0, <1>4 DEF PublishCommit, VersionInsertable, VersionsInv, VersionsGood, VersionNumbersInOrder
  <2>3. new.no = n + 1 BY <1>0, <2>1, <2>2
  <2>4. PublishGate(new) BY <2>1 DEF PublishGate, Published
  <2>5. versions' = Append(versions, new) /\ active' = n + 1 /\ Continue(h, Idle)
    BY <1>4 DEF PublishCommit
  <2> HIDE DEF new
  <2>6. versions \in Seq(Versions) BY <1>0 DEF VersionTypes
  <2>7. /\ Len(versions') = n + 1 /\ DOMAIN versions' = 1..(n + 1) /\ versions'[n + 1] = new
        /\ \A v \in 1..n : versions'[v] = versions[v]
    BY <2>5, <2>6
  <2>8. \A v \in DOMAIN versions' : versions'[v].no = v /\ PublishGate(versions'[v])
    <3> TAKE v \in DOMAIN versions'
    <3>1. CASE v = n + 1 BY <2>3, <2>4, <2>7, <3>1
    <3>2. CASE v \in 1..n
      BY <1>0, <2>2, <2>7, <3>2 DEF VersionsInv, VersionsGood
    <3> QED BY <1>0, <2>7, <3>1, <3>2
  <2>9. VersionLocalGood(Idle, n + 1) BY DEF VersionLocalGood, Idle
  <2>10. \A g \in Handlers : VersionLocalGood(proc'[g], n + 1)
    BY <1>0, <2>1, <2>5, <2>9, LocalsKept
  <2>11. active' \in 0..(n + 1) BY <1>0, <2>5
  <2> QED BY <2>7, <2>8, <2>10, <2>11 DEF VersionsGood, VersionNumbersInOrder
<1> QED BY <1>1, <1>2, <1>3, <1>4 DEF Publishing

(* A rollback makes active a version that was published. *)
LEMMA RollingBackGood == VersionsInv /\ RollingBack => VersionsGood'
<1> SUFFICES ASSUME VersionsInv, RollingBack PROVE VersionsGood'
  OBVIOUS
<1>0. /\ proc \in [Handlers -> AllLocals] /\ VersionTypes
      /\ Len(versions) \in Nat /\ DOMAIN versions = 1..Len(versions)
  BY SplitTypes DEF VersionsInv, TypesOK, VersionTypes
<1>1. VersionLocalGood(Idle, Len(versions)) BY DEF VersionLocalGood, Idle
<1>2. ASSUME NEW h \in Handlers PROVE VersionLocalGood(NextAfter(h), Len(versions))
  BY <1>1 DEF NextAfter, VersionLocalGood
<1>3. ASSUME NEW h \in Handlers, NEW v, NEW key, ArchiveForVersion(h, v, key) PROVE VersionsGood'
  <2>1. VersionLocalGood([pc |-> "insert draft", target |-> v, key |-> key], Len(versions))
    BY <1>0, <1>3 DEF ArchiveForVersion, VersionLocalGood
  <2> QED BY <1>3, <2>1, QuietMove DEF ArchiveForVersion, lifecycle
<1>4. ASSUME NEW h \in Handlers, NEW v, NEW key, RollbackStart(h, v, key) PROVE VersionsGood'
  <2>1. VersionLocalGood([pc |-> "roll back", target |-> v, key |-> key], Len(versions))
    BY <1>0, <1>4 DEF RollbackStart, VersionLocalGood
  <2> QED BY <1>4, <2>1, QuietMove DEF RollbackStart, lifecycle
<1>5. ASSUME NEW h \in Handlers, NEW key, DisableStart(h, key) PROVE VersionsGood'
  <2>1. VersionLocalGood([pc |-> "disable", key |-> key], Len(versions)) BY DEF VersionLocalGood
  <2> QED BY <1>5, <2>1, QuietMove DEF DisableStart, lifecycle
<1>6. ASSUME NEW h \in Handlers, InsertDraft(h) \/ EmergencyDisable(h) PROVE VersionsGood'
  BY <1>2, <1>6, QuietMove DEF InsertDraft, EmergencyDisable, lifecycle
<1>7. ASSUME NEW h \in Handlers, RecordRollback(h) PROVE VersionsGood'
  BY <1>1, <1>7, QuietMove DEF RecordRollback
<1>8. ASSUME NEW h \in Handlers, RollbackCommit(h) PROVE VersionsGood'
  <2>1. proc[h].target \in 1..Len(versions)
    BY <1>8 DEF RollbackCommit, VersionsInv, VersionsGood, VersionLocalGood
  <2>2. active' \in 0..Len(versions)
    <3>1. active' = proc[h].target BY <1>8 DEF RollbackCommit
    <3>2. Len(versions) \in Nat BY <1>0
    <3> QED BY <2>1, <3>1, <3>2
  <2>3. /\ Continue(h, NextAfter(h)) /\ VersionLocalGood(NextAfter(h), Len(versions))
        /\ \A g \in Handlers : VersionLocalGood(proc[g], Len(versions))
    BY <1>2, <1>8 DEF RollbackCommit, VersionsInv, VersionsGood
  <2>4. \A g \in Handlers : VersionLocalGood(proc'[g], Len(versions))
    <3>1. Len(versions) <= Len(versions) BY <1>0
    <3> QED BY <1>0, <2>3, <3>1, LocalsKept
  <2>5. UNCHANGED versions /\ VersionNumbersInOrder /\ \A v \in DOMAIN versions : PublishGate(versions[v])
    BY <1>8 DEF RollbackCommit, VersionsInv, VersionsGood
  <2> QED BY <2>2, <2>4, <2>5 DEF VersionsGood, VersionNumbersInOrder
<1> QED BY <1>3, <1>4, <1>5, <1>6, <1>7, <1>8 DEF RollingBack

(* An import touches neither the numbers nor what is active. *)
LEMMA ImportingGood == VersionsInv /\ Importing => VersionsGood'
<1> SUFFICES ASSUME VersionsInv, Importing PROVE VersionsGood'
  OBVIOUS
<1>1. CASE ImportPreview \/ ImportReject
  BY <1>1 DEF ImportPreview, ImportReject, canvasVars, VersionsInv, VersionsGood, VersionNumbersInOrder
<1>2. /\ VersionLocalGood([pc |-> "import"], Len(versions))
      /\ VersionLocalGood([pc |-> "imported"], Len(versions))
      /\ VersionLocalGood(Idle, Len(versions))
  BY DEF VersionLocalGood, Idle
<1>3. ASSUME NEW h \in Handlers, ImportStart(h) \/ ImportDraft(h) \/ ImportMark(h)
      PROVE  VersionsGood'
  BY <1>2, <1>3, QuietMove DEF ImportStart, ImportDraft, ImportMark, lifecycle
<1> QED BY <1>1, <1>3 DEF Importing

(* Every step keeps the invariant of the versions. *)
LEMMA VersionsStep == VersionsInv /\ [VersionsNext]_vars => VersionsInv'
<1> SUFFICES ASSUME VersionsInv, [VersionsNext]_vars PROVE VersionsInv'
  OBVIOUS
<1>0. VersionsTypeOK /\ VersionNumbersInOrder /\ proc \in [Handlers -> AllLocals] /\ VersionTypes
  BY SplitTypes DEF VersionsInv, VersionsGood, TypesOK
<1>1. TargetsExist
  <2>1. DOMAIN versions = 1..Len(versions) BY <1>0 DEF VersionTypes
  <2>2. \A h \in Handlers : VersionLocalGood(proc[h], Len(versions)) BY DEF VersionsInv, VersionsGood
  <2> QED BY <2>1, <2>2 DEF TargetsExist, VersionLocalGood
<1>2. CASE Publishing BY <1>0, <1>2, PublishingTypes, PublishingGood DEF VersionsInv
<1>3. CASE RollingBack BY <1>0, <1>1, <1>3, RollingBackTypes, RollingBackGood DEF VersionsInv
<1>4. CASE Importing BY <1>0, <1>4, ImportingTypes, ImportingGood DEF VersionsInv
<1>5. ASSUME NEW h \in Handlers, VersionRequestFails(h) PROVE VersionsInv'
  <2>1. VersionLocalGood(Idle, Len(versions)) BY DEF VersionLocalGood, Idle
  <2>2. VersionsGood'
    BY <1>5, <2>1, QuietMove DEF VersionRequestFails, RequestFails, lifecycle
  <2> QED BY <1>0, <1>5, <2>2, FailureTypes DEF VersionsInv
<1>6. ASSUME Locking \/ Editing \/ Restoring \/ Patching, UNCHANGED <<lifecycle, versionHistory>>
      PROVE  VersionsInv'
  <2>1. VersionsTypeOK' /\ (UNCHANGED proc \/ \E h \in Handlers : CanvasMove(h))
    BY <1>0, <1>6, CanvasStepTypes
  <2>2. CASE UNCHANGED proc
    BY <1>6, <2>1, <2>2 DEF VersionsInv, VersionsGood, VersionNumbersInOrder, lifecycle
  <2>3. ASSUME NEW h \in Handlers, CanvasMove(h) PROVE VersionsGood'
    <3>1. PICK l \in CanvasLocals : proc' = [proc EXCEPT ![h] = l] BY <2>3 DEF CanvasMove
    <3>2. l.pc \notin {"before publish", "version number", "publish", "insert draft", "roll back"}
      BY DEF CanvasLocals
    <3> QED BY <1>6, <3>1, <3>2, PlainIsGood, QuietMove DEF Continue, lifecycle
  <2> QED BY <2>1, <2>2, <2>3 DEF VersionsInv
<1>7. CASE UNCHANGED vars
  BY <1>7 DEF vars, canvasVars, canvas, lifecycle, versionHistory, VersionsInv, VersionsTypeOK,
              CanvasTypeOK, VersionsGood, VersionNumbersInOrder
<1> QED BY <1>2, <1>3, <1>4, <1>5, <1>6, <1>7 DEF VersionsNext

(* The invariant of the versions holds at first. *)
LEMMA VersionsInvInit == VersionsInit => VersionsInv
<1> SUFFICES ASSUME VersionsInit PROVE VersionsGood
  BY VersionsTypeInit DEF VersionsInv
<1>1. \A h \in Handlers : VersionLocalGood(proc[h], 0) BY DEF VersionsInit, Init, Idle, VersionLocalGood
<1> QED BY <1>1 DEF VersionsInit, VersionsGood, VersionNumbersInOrder

(* Types, numbers, targets and the publish gate hold always: the inductive
   invariant behind the three theorems below. *)
THEOREM VersionsInvariant == VersionsSpec => []VersionsInv
  BY VersionsInvInit, VersionsStep, PTL DEF VersionsSpec

(* The tables and locals of CanvasPublishingService,                       *)
(* CanvasVersioningService and WorkflowCompilerService keep their types.   *)
THEOREM VersionsAreTyped == VersionsSpec => []VersionsTypeOK
<1>1. VersionsInv => VersionsTypeOK BY DEF VersionsInv
<1> QED BY <1>1, VersionsInvariant, PTL

(* However many publications run at once, the number that nextVersionNo    *)
(* draws before the transaction leaves no gap and none twice.              *)
THEOREM VersionsAreNumbered == VersionsSpec => []VersionNumbersInOrder
<1>1. VersionsInv => VersionNumbersInOrder BY DEF VersionsInv, VersionsGood
<1> QED BY <1>1, VersionsInvariant, PTL

(* The active version has passed publishDraft's gate, however publications *)
(* and rollbacks meet.                                                     *)
THEOREM ActiveHasPassed == VersionsSpec => []ActivePassedGate
<1>1. VersionsInv => ActivePassedGate
  <2> SUFFICES ASSUME VersionsInv, active # 0 PROVE PublishGate(versions[active])
    BY DEF ActivePassedGate
  <2>1. versions \in Seq(Versions) /\ active \in 0..Len(versions)
    BY DEF VersionsInv, VersionsTypeOK, VersionsGood
  <2>2. active \in DOMAIN versions BY <2>1
  <2> QED BY <2>2 DEF VersionsInv, VersionsGood
<1> QED BY <1>1, VersionsInvariant, PTL

-----------------------------------------------------------------------------
(* Keys of rollbacks. While a key is not disturbed it is served by at most *)
(* one request, by none once it is in the ledger, and from its effect to   *)
(* the ledger by one that has only the record left to write.               *)
Serves(l, key) == "key" \in DOMAIN l /\ l.key = key

KeyGood(p, led, mov, key) ==
  /\ \A g, h \in Handlers : Serves(p[g], key) /\ Serves(p[h], key) => g = h
  /\ key \in led => \A h \in Handlers : ~Serves(p[h], key)
  /\ key \in mov => key \in led \/ \E h \in Handlers : Serves(p[h], key)
  /\ key \in mov => \A h \in Handlers : Serves(p[h], key) => p[h].pc = "record"

KeysGood == \A key \in Keys \ disturbed : KeyGood(proc, ledger, moved, key)

KeySteps == {"insert draft", "roll back", "disable", "record"}

(* The steps of a rollback are those that have a key. *)
LEMMA KeyedLocals ==
  ASSUME NEW l \in AllLocals
  PROVE  "key" \in DOMAIN l <=> l.pc \in KeySteps
<1>1. ASSUME l \in CanvasLocals PROVE "key" \notin DOMAIN l /\ l.pc \notin KeySteps
  BY <1>1 DEF CanvasLocals, KeySteps
<1>2. ASSUME l \in VersionLocals PROVE "key" \in DOMAIN l <=> l.pc \in KeySteps
  BY <1>2 DEF VersionLocals, KeySteps
<1> QED BY <1>1, <1>2 DEF AllLocals

(* A step that is not about the key. *)
LEMMA OtherKey ==
  ASSUME proc \in [Handlers -> AllLocals], NEW h \in Handlers, NEW l, Continue(h, l),
         NEW key, ~Serves(proc[h], key), ~Serves(l, key),
         NEW led, NEW mov, NEW led2, NEW mov2, key \in led2 <=> key \in led, key \in mov2 <=> key \in mov,
         KeyGood(proc, led, mov, key)
  PROVE  KeyGood(proc', led2, mov2, key)
<1>1. \A g \in Handlers : g # h => proc'[g] = proc[g] BY DEF Continue
<1>2. proc'[h] = l BY DEF Continue
<1>3. \A g \in Handlers : /\ Serves(proc'[g], key) <=> Serves(proc[g], key)
                          /\ Serves(proc'[g], key) => proc'[g] = proc[g]
  BY <1>1, <1>2
<1> QED BY <1>3 DEF KeyGood

(* A step of a request that has no key before it and none after it. *)
LEMMA KeylessStep ==
  ASSUME VersionsTypeOK, KeysGood, NEW h \in Handlers, NEW l, Continue(h, l),
         \A key \in Keys : ~Serves(proc[h], key) /\ ~Serves(l, key),
         UNCHANGED <<ledger, moved>>, disturbed \subseteq disturbed'
  PROVE  KeysGood'
<1>1. proc \in [Handlers -> AllLocals] BY SplitTypes DEF TypesOK
<1> SUFFICES ASSUME NEW key \in Keys \ disturbed' PROVE KeyGood(proc', ledger', moved', key)
  BY DEF KeysGood
<1>2. KeyGood(proc, ledger, moved, key) BY DEF KeysGood
<1> QED BY <1>1, <1>2, OtherKey

(* The key k is looked up and not found. *)
LEMMA AcceptedStep ==
  ASSUME VersionsTypeOK, KeysGood, NEW h \in Handlers, NEW l, Continue(h, l),
         proc[h] = Idle, NEW k \in Keys, KeyAccepted(k), \A key \in Keys : Serves(l, key) => key = k,
         UNCHANGED <<ledger, moved>>
  PROVE  KeysGood'
<1>1. proc \in [Handlers -> AllLocals] BY SplitTypes DEF TypesOK
<1> SUFFICES ASSUME NEW key \in Keys \ disturbed' PROVE KeyGood(proc', ledger, moved, key)
  BY DEF KeysGood
<1>2. KeyGood(proc, ledger, moved, key) BY DEF KeysGood, KeyAccepted
<1>3. ~Serves(proc[h], key) BY DEF Idle, Serves
<1>4. CASE key # k
  <2>1. ~Serves(l, key) BY <1>4
  <2> QED BY <1>1, <1>2, <1>3, <2>1, OtherKey
<1>5. CASE key = k
  <2>1. Served(k) = {} /\ k \notin ledger BY <1>5 DEF KeyAccepted
  <2>2. \A g \in Handlers : ~Serves(proc[g], k) BY <2>1 DEF Served, Serves
  <2>3. k \notin moved BY <1>2, <1>5, <2>1, <2>2 DEF KeyGood
  <2>4. \A g \in Handlers : g # h => ~Serves(proc'[g], k)
    <3>1. \A g \in Handlers : g # h => proc'[g] = proc[g] BY DEF Continue
    <3> QED BY <2>2, <3>1
  <2> QED BY <1>5, <2>1, <2>3, <2>4 DEF KeyGood
<1> QED BY <1>4, <1>5

(* The effect of a rollback with the key k. *)
LEMMA EffectStep ==
  ASSUME VersionsTypeOK, KeysGood, NEW h \in Handlers, NEW k \in Keys, Serves(proc[h], k),
         Continue(h, [pc |-> "record", key |-> k]), moved' = moved \cup {k}, UNCHANGED <<ledger, disturbed>>
  PROVE  KeysGood'
<1> DEFINE l == [pc |-> "record", key |-> k]
<1>1. proc \in [Handlers -> AllLocals] BY SplitTypes DEF TypesOK
<1> SUFFICES ASSUME NEW key \in Keys \ disturbed PROVE KeyGood(proc', ledger, moved', key)
  BY DEF KeysGood
<1>2. KeyGood(proc, ledger, moved, key) BY DEF KeysGood
<1>3. CASE key # k
  <2>1. ~Serves(proc[h], key) /\ ~Serves(l, key) BY <1>3 DEF Serves
  <2>2. key \in moved' <=> key \in moved BY <1>3
  <2> QED BY <1>1, <1>2, <2>1, <2>2, OtherKey
<1>4. CASE key = k
  <2>1. \A g \in Handlers : Serves(proc[g], k) => g = h BY <1>2, <1>4 DEF KeyGood
  <2>2. k \notin ledger BY <1>2, <1>4 DEF KeyGood
  <2>3. (\A g \in Handlers : g # h => proc'[g] = proc[g]) /\ proc'[h] = l
    BY <1>1 DEF Continue
  <2>4. \A g \in Handlers : Serves(proc'[g], k) => g = h BY <2>1, <2>3
  <2>5. Serves(proc'[h], k) /\ proc'[h].pc = "record" BY <2>3 DEF Serves
  <2> QED BY <1>4, <2>2, <2>4, <2>5 DEF KeyGood
<1> QED BY <1>3, <1>4

(* The record of a rollback with the key k. *)
LEMMA RecordStep ==
  ASSUME VersionsTypeOK, KeysGood, NEW h \in Handlers, NEW k \in Keys, Serves(proc[h], k),
         Continue(h, Idle), ledger' = ledger \cup {k}, UNCHANGED <<moved, disturbed>>
  PROVE  KeysGood'
<1>1. proc \in [Handlers -> AllLocals] BY SplitTypes DEF TypesOK
<1> SUFFICES ASSUME NEW key \in Keys \ disturbed PROVE KeyGood(proc', ledger', moved, key)
  BY DEF KeysGood
<1>2. KeyGood(proc, ledger, moved, key) BY DEF KeysGood
<1>3. \A j : ~Serves(Idle, j) BY DEF Idle, Serves
<1>4. CASE key # k
  <2>1. ~Serves(proc[h], key) BY <1>4 DEF Serves
  <2>2. key \in ledger' <=> key \in ledger BY <1>4
  <2> QED BY <1>1, <1>2, <1>3, <2>1, <2>2, OtherKey
<1>5. CASE key = k
  <2>1. \A g \in Handlers : Serves(proc[g], k) => g = h BY <1>2, <1>5 DEF KeyGood
  <2>2. (\A g \in Handlers : g # h => proc'[g] = proc[g]) /\ proc'[h] = Idle
    BY <1>1 DEF Continue
  <2>3. \A g \in Handlers : ~Serves(proc'[g], k) BY <1>3, <2>1, <2>2
  <2> QED BY <1>5, <2>3 DEF KeyGood
<1> QED BY <1>4, <1>5

(* A request that fails; between the effect and the ledger it disturbs.    *)
LEMMA FailureStep ==
  ASSUME VersionsTypeOK, KeysGood, NEW h \in Handlers, VersionRequestFails(h)
  PROVE  KeysGood'
<1>1. proc \in [Handlers -> AllLocals] BY SplitTypes DEF TypesOK
<1>2. Continue(h, Idle) /\ UNCHANGED <<ledger, moved>>
  BY DEF VersionRequestFails, RequestFails, lifecycle
<1>3. disturbed' = disturbed \cup {key \in Keys : h \in Served(key) /\ proc[h].pc = "record"}
  BY DEF VersionRequestFails
<1> SUFFICES ASSUME NEW key \in Keys \ disturbed' PROVE KeyGood(proc', ledger, moved, key)
  BY <1>2 DEF KeysGood
<1>4. KeyGood(proc, ledger, moved, key) BY <1>3 DEF KeysGood
<1>5. ~Serves(Idle, key) BY DEF Idle, Serves
<1>6. CASE ~Serves(proc[h], key) BY <1>1, <1>2, <1>4, <1>5, <1>6, OtherKey
<1>7. CASE Serves(proc[h], key)
  <2>1. proc[h].pc # "record" BY <1>3, <1>7 DEF Served, Serves
  <2>2. key \notin moved /\ key \notin ledger BY <1>4, <1>7, <2>1 DEF KeyGood
  <2>3. \A g \in Handlers : Serves(proc[g], key) => g = h BY <1>4, <1>7 DEF KeyGood
  <2>4. (\A g \in Handlers : g # h => proc'[g] = proc[g]) /\ proc'[h] = Idle
    BY <1>1, <1>2 DEF Continue
  <2>5. \A g \in Handlers : ~Serves(proc'[g], key) BY <1>5, <2>3, <2>4
  <2> QED BY <2>2, <2>5 DEF KeyGood
<1> QED BY <1>6, <1>7

(* Requests that are not rollbacks serve no key. *)
LEMMA NoRollback ==
  ASSUME NEW l \in AllLocals, l.pc \notin KeySteps, NEW key
  PROVE  ~Serves(l, key)
  BY KeyedLocals DEF Serves

(* A rollback that repeats a key was under way when the ledger got it, or
   follows one that ended early. *)
LEMMA RollingBackKeys == VersionsTypeOK /\ KeysGood /\ RollingBack => KeysGood'
<1> SUFFICES ASSUME VersionsTypeOK, KeysGood, RollingBack PROVE KeysGood'
  OBVIOUS
<1>0. proc \in [Handlers -> AllLocals] BY SplitTypes DEF TypesOK
<1>1. \A key : ~Serves(Idle, key) BY DEF Idle, Serves
<1>2. NoKey \notin Keys BY KeysAssumption DEF NoKey
<1>3. ASSUME NEW h \in Handlers, NEW v, NEW k \in Keys \cup {NoKey}, ArchiveForVersion(h, v, k)
      PROVE  KeysGood'
  <2> DEFINE l == [pc |-> "insert draft", target |-> v, key |-> k]
  <2>1. /\ proc[h] = Idle /\ Continue(h, l) /\ UNCHANGED <<ledger, moved>>
        /\ (k \in Keys /\ KeyAccepted(k)) \/ (k = NoKey /\ UNCHANGED disturbed)
    BY <1>3 DEF ArchiveForVersion, lifecycle
  <2>2. \A key : Serves(l, key) => key = k BY DEF Serves
  <2> HIDE DEF l
  <2>3. CASE k \in Keys /\ KeyAccepted(k) BY <2>1, <2>2, <2>3, AcceptedStep
  <2>4. CASE k = NoKey /\ UNCHANGED disturbed
    <3>1. \A key \in Keys : ~Serves(proc[h], key) /\ ~Serves(l, key)
      BY <1>1, <1>2, <2>1, <2>2, <2>4
    <3>2. disturbed \subseteq disturbed' BY <2>4
    <3> QED BY <2>1, <3>1, <3>2, KeylessStep
  <2> QED BY <2>1, <2>3, <2>4
<1>4. ASSUME NEW h \in Handlers, NEW v, NEW k \in Keys, RollbackStart(h, v, k) PROVE KeysGood'
  <2> DEFINE l == [pc |-> "roll back", target |-> v, key |-> k]
  <2>1. \A key : Serves(l, key) => key = k BY DEF Serves
  <2>2. proc[h] = Idle /\ Continue(h, l) /\ KeyAccepted(k) /\ UNCHANGED <<ledger, moved>>
    BY <1>4 DEF RollbackStart, lifecycle
  <2> HIDE DEF l
  <2> QED BY <2>1, <2>2, AcceptedStep
<1>5. ASSUME NEW h \in Handlers, NEW k \in Keys, DisableStart(h, k) PROVE KeysGood'
  <2> DEFINE l == [pc |-> "disable", key |-> k]
  <2>1. \A key : Serves(l, key) => key = k BY DEF Serves
  <2>2. proc[h] = Idle /\ Continue(h, l) /\ KeyAccepted(k) /\ UNCHANGED <<ledger, moved>>
    BY <1>5 DEF DisableStart, lifecycle
  <2> HIDE DEF l
  <2> QED BY <2>1, <2>2, AcceptedStep
<1>6. ASSUME NEW h \in Handlers, proc[h].pc \in KeySteps, Moved(proc[h].key),
             Continue(h, NextAfter(h)), UNCHANGED <<ledger, disturbed>>
      PROVE  KeysGood'
  <2>1. "key" \in DOMAIN proc[h] BY <1>0, <1>6, KeyedLocals
  <2>2. CASE proc[h].key \in Keys
    <3> DEFINE k == proc[h].key
    <3>1. Serves(proc[h], k) BY <2>1 DEF Serves
    <3>2. moved' = moved \cup {k} BY <1>6, <2>2 DEF Moved
    <3>3. Continue(h, [pc |-> "record", key |-> k]) BY <1>6, <2>2 DEF NextAfter
    <3> QED BY <1>6, <2>2, <3>1, <3>2, <3>3, EffectStep
  <2>3. CASE proc[h].key \notin Keys
    <3>1. moved' = moved /\ Continue(h, Idle) BY <1>6, <2>3 DEF Moved, NextAfter
    <3>2. \A key \in Keys : ~Serves(proc[h], key) BY <2>3 DEF Serves
    <3> QED BY <1>1, <1>6, <3>1, <3>2, KeylessStep
  <2> QED BY <2>2, <2>3
<1>7. ASSUME NEW h \in Handlers, InsertDraft(h) \/ RollbackCommit(h) \/ EmergencyDisable(h)
      PROVE  KeysGood'
  BY <1>6, <1>7 DEF InsertDraft, RollbackCommit, EmergencyDisable, lifecycle, KeySteps
<1>8. ASSUME NEW h \in Handlers, RecordRollback(h) PROVE KeysGood'
  <2> DEFINE k == proc[h].key
  <2>1. k \in Keys
    <3>1. proc[h] \in KeyLocals BY <1>0, <1>8, VersionLocalsByStep DEF RecordRollback
    <3> QED BY <3>1 DEF KeyLocals
  <2>2. Serves(proc[h], k) BY <1>0, <1>8, KeyedLocals DEF RecordRollback, KeySteps, Serves
  <2>3. Continue(h, Idle) /\ ledger' = ledger \cup {k} /\ UNCHANGED <<moved, disturbed>>
    BY <1>8 DEF RecordRollback, versionHistory
  <2> QED BY <2>1, <2>2, <2>3, RecordStep
<1> QED BY <1>3, <1>4, <1>5, <1>7, <1>8 DEF RollingBack

(* Every step keeps what is known of the keys. *)
LEMMA KeysStep == VersionsTypeOK /\ KeysGood /\ [VersionsNext]_vars => KeysGood'
<1> SUFFICES ASSUME VersionsTypeOK, KeysGood, [VersionsNext]_vars PROVE KeysGood'
  OBVIOUS
<1>0. proc \in [Handlers -> AllLocals] BY SplitTypes DEF TypesOK
<1>1. ASSUME NEW h \in Handlers, NEW l \in AllLocals, Continue(h, l),
             proc[h].pc \notin KeySteps, l.pc \notin KeySteps, UNCHANGED <<ledger, moved, disturbed>>
      PROVE  KeysGood'
  <2>1. \A key \in Keys : ~Serves(proc[h], key) /\ ~Serves(l, key)
    BY <1>0, <1>1, NoRollback
  <2> QED BY <1>1, <2>1, KeylessStep
<1>2. ASSUME UNCHANGED <<proc, ledger, moved, disturbed>> PROVE KeysGood'
  BY <1>2 DEF KeysGood
<1>3. CASE Publishing
  <2>1. PICK h \in Handlers :
          PublishStart(h) \/ BeforePublish(h) \/ NextVersionNo(h) \/ PublishCommit(h)
    BY <1>3 DEF Publishing
  <2>2. proc[h] \in AllLocals /\ proc[h].pc \notin KeySteps
    <3>1. proc[h] = Idle \/ proc[h].pc \in {"before publish", "version number", "publish"}
      BY <2>1 DEF PublishStart, BeforePublish, NextVersionNo, PublishCommit
    <3>2. Idle.pc = "idle" BY DEF Idle
    <3>3. proc[h].pc \notin KeySteps BY <3>1, <3>2 DEF KeySteps
    <3> QED BY <1>0, <3>3
  <2>3. ASSUME NEW l, Continue(h, l), l.pc \notin KeySteps, "key" \notin DOMAIN l,
               UNCHANGED <<ledger, moved, disturbed>>
        PROVE  KeysGood'
    <3>1. \A key \in Keys : ~Serves(proc[h], key) /\ ~Serves(l, key)
      BY <2>2, <2>3, NoRollback DEF Serves
    <3> QED BY <2>3, <3>1, KeylessStep
  <2>4. CASE PublishStart(h)
    <3>1. PICK d : Continue(h, [pc |-> "before publish", draft |-> d, base |-> drafts'[d]])
      BY <2>4 DEF PublishStart
    <3> QED BY <2>3, <2>4, <3>1 DEF PublishStart, lifecycle, versionHistory, KeySteps
  <2>5. CASE BeforePublish(h)
    <3>1. proc[h] \in PublishingLocals BY <1>0, <2>5, VersionLocalsByStep DEF BeforePublish
    <3>2. /\ [proc[h] EXCEPT !.pc = "version number"].pc = "version number"
          /\ "key" \notin DOMAIN [proc[h] EXCEPT !.pc = "version number"]
      BY <3>1 DEF PublishingLocals
    <3> QED BY <2>3, <2>5, <3>2 DEF BeforePublish, lifecycle, versionHistory, KeySteps
  <2>6. CASE NextVersionNo(h)
    BY <2>3, <2>6 DEF NextVersionNo, lifecycle, versionHistory, KeySteps
  <2>7. CASE PublishCommit(h)
    BY <2>3, <2>7 DEF PublishCommit, versionHistory, KeySteps, Idle
  <2> QED BY <2>1, <2>4, <2>5, <2>6, <2>7
<1>4. CASE Importing
  <2>1. CASE ImportPreview \/ ImportReject
    BY <1>2, <2>1 DEF ImportPreview, ImportReject, canvasVars, versionHistory
  <2>2. ASSUME NEW h \in Handlers, ImportStart(h) \/ ImportDraft(h) \/ ImportMark(h) PROVE KeysGood'
    <3>1. proc[h].pc \notin KeySteps
      <4>1. proc[h] = Idle \/ proc[h].pc \in {"import", "imported"}
        BY <2>2 DEF ImportStart, ImportDraft, ImportMark
      <4>2. Idle.pc = "idle" BY DEF Idle
      <4> QED BY <4>1, <4>2 DEF KeySteps
    <3>2. [pc |-> "import"] \in AllLocals /\ [pc |-> "imported"] \in AllLocals /\ Idle \in AllLocals
      BY LocalsAreAll DEF ImportLocals
    <3>3. /\ [pc |-> "import"].pc \notin KeySteps /\ [pc |-> "imported"].pc \notin KeySteps
          /\ Idle.pc \notin KeySteps
      BY DEF Idle, KeySteps
    <3> QED BY <1>1, <2>2, <3>1, <3>2, <3>3
            DEF ImportStart, ImportDraft, ImportMark, lifecycle, versionHistory
  <2> QED BY <1>4, <2>1, <2>2 DEF Importing
<1>5. ASSUME Locking \/ Editing \/ Restoring \/ Patching, UNCHANGED <<lifecycle, versionHistory>>
      PROVE  KeysGood'
  <2>1. UNCHANGED <<ledger, moved, disturbed>> BY <1>5 DEF lifecycle, versionHistory
  <2>2. UNCHANGED proc \/ \E h \in Handlers : CanvasMove(h) BY <1>5, CanvasStepTypes
  <2>3. ASSUME NEW h \in Handlers, CanvasMove(h) PROVE KeysGood'
    <3>1. PICK l \in CanvasLocals : Continue(h, l) BY <2>3 DEF CanvasMove, Continue
    <3>2. proc[h].pc \notin KeySteps /\ l.pc \notin KeySteps
      BY <2>3 DEF CanvasMove, CanvasLocals, KeySteps
    <3> QED BY <1>1, <2>1, <3>1, <3>2, LocalsAreAll
  <2> QED BY <1>2, <2>1, <2>2, <2>3
<1>6. CASE UNCHANGED vars
  BY <1>2, <1>6 DEF vars, canvasVars, lifecycle, versionHistory
<1> QED BY <1>3, <1>4, <1>5, <1>6, RollingBackKeys, FailureStep DEF VersionsNext

(* No key has been used at first. *)
LEMMA KeysInit == VersionsInit => KeysGood
<1> SUFFICES ASSUME VersionsInit, NEW key \in Keys PROVE KeyGood(proc, ledger, moved, key)
  BY DEF KeysGood
<1>1. \A h \in Handlers : ~Serves(proc[h], key) BY DEF VersionsInit, Init, Idle, Serves
<1> QED BY <1>1 DEF VersionsInit, KeyGood

(* What is known of the ledger's keys and of the requests that carry one holds
   always. *)
THEOREM KeysInvariant == VersionsSpec => []KeysGood
  BY KeysInit, KeysStep, VersionsAreTyped, PTL DEF VersionsSpec

(* A rollback's idempotency key takes effect once, unless its requests     *)
(* overlap or fail before the ledger (loadRollbackByKey, recordRollback).  *)
THEOREM KeysTakeEffectOnce == VersionsSpec => KeyTakesEffectOnce
<1>1. VersionsTypeOK /\ KeysGood /\ [VersionsNext]_vars
        => [\A h \in Handlers : TakesEffect(h) => proc[h].key \notin moved \ disturbed]_vars
  <2> SUFFICES ASSUME VersionsTypeOK, KeysGood, NEW h \in Handlers, TakesEffect(h),
                      proc[h].key \in moved \ disturbed
               PROVE  FALSE
    OBVIOUS
  <2> DEFINE k == proc[h].key
  <2>1. k \in Keys \ disturbed BY SplitTypes DEF VersionTypes
  <2>2. KeyGood(proc, ledger, moved, k) BY <2>1 DEF KeysGood
  <2>3. proc[h] \in AllLocals BY SplitTypes DEF TypesOK
  <2>4. proc[h].pc \in KeySteps /\ proc[h].pc # "record"
    BY DEF TakesEffect, InsertDraft, RollbackCommit, EmergencyDisable, KeySteps
  <2>5. Serves(proc[h], k) BY <2>3, <2>4, KeyedLocals DEF Serves
  <2> QED BY <2>2, <2>4, <2>5 DEF KeyGood
<1> QED BY <1>1, VersionsAreTyped, KeysInvariant, PTL DEF VersionsSpec, KeyTakesEffectOnce
===============================================================================
