-------------------------- MODULE WorkflowGraphProofs --------------------------
(***************************************************************************)
(* Proofs about WorkflowGraph: what the searches find, the search in depth *)
(* for cycles, the order of the compiler, and the invariants of a graph.   *)
(***************************************************************************)
EXTENDS WorkflowGraph, FiniteSetTheorems, WellFoundedInduction, TLAPS

-----------------------------------------------------------------------------
(* Repeating a step. *)

(* A set of naturals that is not empty has a least element. *)
LEMMA LeastOf ==
  ASSUME NEW T \in SUBSET Nat, T # {} PROVE \E x \in T : \A y \in T : x <= y
<1> DEFINE R == OpToRel(<, Nat)
<1>1. IsWellFoundedOn(R, Nat) BY NatLessThanWellFounded, Zenon
<1>2. \A x, y \in Nat : y < x => <<y, x>> \in R BY Zenon DEF OpToRel
<1> HIDE DEF R
<1>3. PICK x \in T : \A y \in T : ~(<<y, x>> \in R) BY <1>1, WFMin
<1>4. \A y \in T : ~ (y < x) BY <1>2, <1>3
<1> QED BY <1>4

(* A set that holds 0 and the successors of its elements holds all of Nat. *)
LEMMA Counting ==
  ASSUME NEW S, 0 \in S, \A n \in Nat : n \in S => n + 1 \in S PROVE Nat \subseteq S
<1>1. SUFFICES ASSUME Nat \ S # {} PROVE FALSE OBVIOUS
<1>2. PICK x \in Nat \ S : \A y \in Nat \ S : x <= y BY <1>1, LeastOf
<1>3. x # 0 /\ x - 1 \in Nat BY <1>2
<1>4. x - 1 \in S BY <1>2, <1>3
<1> QED BY <1>2, <1>3, <1>4

(* The states a repeated step goes through. *)
Goes(after, step, first, n) ==
  after = [i \in 0 .. n |-> IF i = 0 THEN first ELSE step[after[i - 1]]]

(* There are such states, however often the step is repeated. *)
LEMMA GoesOn ==
  ASSUME NEW step, NEW first, NEW n \in Nat PROVE \E after : Goes(after, step, first, n)
<1> DEFINE T == {m \in Nat : \E after : Goes(after, step, first, m)}
<1>1. 0 \in T
  <2>1. Goes([i \in 0 .. 0 |-> first], step, first, 0) BY DEF Goes
  <2> QED BY <2>1
<1>2. ASSUME NEW m \in Nat, m \in T PROVE m + 1 \in T
  <2>1. PICK g : Goes(g, step, first, m) BY <1>2
  <2> DEFINE h == [i \in 0 .. m + 1 |-> IF i = m + 1 THEN step[g[m]] ELSE g[i]]
  <2>2. ASSUME NEW i \in 0 .. m + 1
        PROVE  h[i] = IF i = 0 THEN first ELSE step[h[i - 1]]
    <3>1. CASE i = m + 1 BY <3>1
    <3>2. CASE i # m + 1
      <4>1. i \in 0 .. m BY <3>2
      <4>2. g[i] = IF i = 0 THEN first ELSE step[g[i - 1]] BY <2>1, <4>1 DEF Goes
      <4> QED BY <4>1, <4>2
    <3> QED BY <3>1, <3>2
  <2>3. Goes(h, step, first, m + 1) BY <2>2 DEF Goes
  <2> HIDE DEF h
  <2> QED BY <2>3
<1> HIDE DEF T
<1>3. n \in T BY <1>1, <1>2, Counting
<1> QED BY <1>3 DEF T

(* Repeating a step not at all leaves the first state; once more is once   *)
(* more.                                                                   *)
LEMMA RepeatStep ==
  ASSUME NEW step, NEW first, NEW n \in Nat
  PROVE  /\ Repeat(step, first, 0) = first
         /\ Repeat(step, first, n + 1) = step[Repeat(step, first, n)]
<1>1. ASSUME NEW m \in Nat PROVE \E g : Goes(g, step, first, m) /\ Repeat(step, first, m) = g[m]
  <2> DEFINE g == CHOOSE after : Goes(after, step, first, m)
  <2>1. Goes(g, step, first, m) BY GoesOn
  <2>2. Repeat(step, first, m) = g[m] BY DEF Repeat, Goes
  <2> HIDE DEF g
  <2> QED BY <2>1, <2>2
<1>2. Repeat(step, first, 0) = first
  <2>1. PICK g : Goes(g, step, first, 0) /\ Repeat(step, first, 0) = g[0] BY <1>1
  <2> QED BY <2>1 DEF Goes
<1>3. PICK g : Goes(g, step, first, n) /\ Repeat(step, first, n) = g[n] BY <1>1
<1>4. PICK h : Goes(h, step, first, n + 1) /\ Repeat(step, first, n + 1) = h[n + 1] BY <1>1
<1> DEFINE T == {i \in Nat : i <= n => g[i] = h[i]}
<1>5. 0 \in T BY <1>3, <1>4 DEF Goes
<1>6. ASSUME NEW i \in Nat, i \in T PROVE i + 1 \in T
  <2>1. SUFFICES ASSUME i + 1 <= n PROVE g[i + 1] = h[i + 1] OBVIOUS
  <2>2. g[i + 1] = step[g[i]] BY <2>1, <1>3 DEF Goes
  <2>3. h[i + 1] = step[h[i]] BY <2>1, <1>4 DEF Goes
  <2> QED BY <1>6, <2>1, <2>2, <2>3
<1> HIDE DEF T
<1>7. n \in T BY <1>5, <1>6, Counting
<1>8. g[n] = h[n] BY <1>7 DEF T
<1>9. h[n + 1] = step[h[n]] BY <1>4 DEF Goes
<1> QED BY <1>2, <1>3, <1>4, <1>8, <1>9

(* What holds of the first state and after every step holds at the end.    *)
LEMMA RepeatInd ==
  ASSUME NEW step, NEW first, NEW Inv, NEW n \in Nat,
         <<0, first>> \in Inv,
         \A i \in Nat : \A s : <<i, s>> \in Inv => <<i + 1, step[s]>> \in Inv
  PROVE  <<n, Repeat(step, first, n)>> \in Inv
<1> DEFINE T == {i \in Nat : <<i, Repeat(step, first, i)>> \in Inv}
<1>1. 0 \in T BY RepeatStep
<1>2. ASSUME NEW i \in Nat, i \in T PROVE i + 1 \in T BY <1>2, RepeatStep
<1> HIDE DEF T
<1>3. n \in T BY <1>1, <1>2, Counting
<1> QED BY <1>3 DEF T

-----------------------------------------------------------------------------
(* What the searches find. *)

(* The sets a growing step leads to all grow the same way. *)
Grows(step) ==
  /\ step \in [SUBSET NodeIds -> SUBSET NodeIds]
  /\ \A s \in SUBSET NodeIds : s \subseteq step[s]
  /\ \A s, t \in SUBSET NodeIds : s \subseteq t => step[s] \subseteq step[t]

(* As many rounds as there are blocks are enough for a set that each round *)
(* adds to: what they reach is the least set that has the first and that   *)
(* the step does not add to (the queues of ancestors and of reached ids).  *)
LEMMA RepeatCloses ==
  ASSUME NEW step, Grows(step), NEW first \in SUBSET NodeIds,
         NEW r, r = Repeat(step, first, Cardinality(NodeIds))
  PROVE  /\ r \in SUBSET NodeIds /\ first \subseteq r /\ step[r] = r
         /\ \A closed \in SUBSET NodeIds :
              first \subseteq closed /\ step[closed] \subseteq closed => r \subseteq closed
<1> DEFINE N == Cardinality(NodeIds)
           Least(s) == \A closed \in SUBSET NodeIds :
                         first \subseteq closed /\ step[closed] \subseteq closed => s \subseteq closed
           Inv == {p \in Nat \X SUBSET NodeIds :
                     /\ first \subseteq p[2] /\ Least(p[2])
                     /\ step[p[2]] = p[2] \/ Cardinality(p[2]) >= p[1]}
<1>1. IsFiniteSet(NodeIds) /\ N \in Nat BY GraphAssumption, FS_CardinalityType
<1>2. \A s \in SUBSET NodeIds : IsFiniteSet(s) /\ Cardinality(s) \in Nat /\ Cardinality(s) <= N
  BY <1>1, FS_Subset, FS_CardinalityType
<1>3. <<0, first>> \in Inv BY <1>2
<1>4. ASSUME NEW i \in Nat, NEW s, <<i, s>> \in Inv PROVE <<i + 1, step[s]>> \in Inv
  <2>1. s \in SUBSET NodeIds /\ first \subseteq s /\ Least(s) BY <1>4
  <2>2. step[s] = s \/ Cardinality(s) >= i BY <1>4
  <2>3. step[s] \in SUBSET NodeIds /\ s \subseteq step[s] BY <2>1 DEF Grows
  <2>4. Least(step[s])
    <3>1. ASSUME NEW closed \in SUBSET NodeIds, first \subseteq closed, step[closed] \subseteq closed
          PROVE  step[s] \subseteq closed
      <4>1. s \subseteq closed BY <2>1, <3>1
      <4>2. step[s] \subseteq step[closed] BY <2>1, <4>1 DEF Grows
      <4> QED BY <3>1, <4>2
    <3> QED BY <3>1
  <2>5. step[step[s]] = step[s] \/ Cardinality(step[s]) >= i + 1
    <3>1. CASE step[s] = s BY <3>1
    <3>2. CASE step[s] # s
      <4>1. Cardinality(s) <= Cardinality(step[s]) /\ Cardinality(s) # Cardinality(step[s])
        BY <1>2, <2>1, <2>3, <3>2, FS_Subset
      <4>2. Cardinality(s) >= i BY <2>2, <3>2
      <4> HIDE DEF Inv
      <4> QED BY <1>2, <2>1, <2>3, <4>1, <4>2
    <3> QED BY <3>1, <3>2
  <2> HIDE DEF Least
  <2> QED BY <2>1, <2>3, <2>4, <2>5
<1> HIDE DEF Inv
<1>5. <<N, r>> \in Inv BY <1>1, <1>3, <1>4, RepeatInd
<1>6. r \in SUBSET NodeIds /\ first \subseteq r /\ Least(r) /\ (step[r] = r \/ Cardinality(r) >= N)
  BY <1>5 DEF Inv
<1>7. step[r] = r
  <2>1. CASE Cardinality(r) >= N
    <3>1. r = NodeIds BY <1>1, <1>2, <1>6, <2>1, FS_Subset
    <3> QED BY <3>1 DEF Grows
  <2> QED BY <1>6, <2>1
<1> QED BY <1>6, <1>7

(* ReachedFrom is the least set with the first blocks that no edge leaves. *)
LEMMA Reaches ==
  ASSUME NEW es \in SUBSET Edges, NEW first \in SUBSET NodeIds, NEW r, r = ReachedFrom(es, first)
  PROVE  /\ r \in SUBSET NodeIds /\ first \subseteq r /\ Targets(es, r) \subseteq r
         /\ \A closed \in SUBSET NodeIds :
              first \subseteq closed /\ Targets(es, closed) \subseteq closed => r \subseteq closed
<1> DEFINE step == [reached \in SUBSET NodeIds |-> reached \cup Targets(es, reached)]
<1>1. \A s \in SUBSET NodeIds : Targets(es, s) \in SUBSET NodeIds BY DEF Targets, Edges
<1>2. \A s, t \in SUBSET NodeIds : s \subseteq t => Targets(es, s) \subseteq Targets(es, t)
  BY DEF Targets
<1>3. \A s \in SUBSET NodeIds : step[s] = s \cup Targets(es, s) OBVIOUS
<1>4. step \in [SUBSET NodeIds -> SUBSET NodeIds] BY <1>1
<1>5. r = Repeat(step, first, Cardinality(NodeIds)) BY DEF ReachedFrom
<1> HIDE DEF step
<1>6. Grows(step) BY <1>2, <1>3, <1>4 DEF Grows
<1>7. /\ r \in SUBSET NodeIds /\ first \subseteq r /\ step[r] = r
      /\ \A closed \in SUBSET NodeIds :
              first \subseteq closed /\ step[closed] \subseteq closed => r \subseteq closed
  BY <1>5, <1>6, RepeatCloses
<1> QED BY <1>3, <1>7

(* Ancestors is the least set with the origins of the edges into a block   *)
(* that no edge enters.                                                    *)
LEMMA AncestorsClose ==
  ASSUME NEW es \in SUBSET Edges, NEW n \in NodeIds
  PROVE  /\ Ancestors(es, n) \in SUBSET NodeIds
         /\ Origins(es, {n}) \subseteq Ancestors(es, n)
         /\ Origins(es, Ancestors(es, n)) \subseteq Ancestors(es, n)
         /\ \A closed \in SUBSET NodeIds :
              Origins(es, {n}) \subseteq closed /\ Origins(es, closed) \subseteq closed
                => Ancestors(es, n) \subseteq closed
<1> DEFINE step == [found \in SUBSET NodeIds |-> found \cup Origins(es, found)]
           first == Origins(es, {n})
           r == Ancestors(es, n)
<1>1. \A s \in SUBSET NodeIds : Origins(es, s) \in SUBSET NodeIds BY DEF Origins, Edges
<1>2. \A s, t \in SUBSET NodeIds : s \subseteq t => Origins(es, s) \subseteq Origins(es, t)
  BY DEF Origins
<1>3. \A s \in SUBSET NodeIds : step[s] = s \cup Origins(es, s) OBVIOUS
<1>4. step \in [SUBSET NodeIds -> SUBSET NodeIds] BY <1>1
<1>5. r = Repeat(step, first, Cardinality(NodeIds)) BY DEF Ancestors
<1>6. first \in SUBSET NodeIds BY <1>1
<1> HIDE DEF step, first, r
<1>7. Grows(step) BY <1>2, <1>3, <1>4 DEF Grows
<1>8. /\ r \in SUBSET NodeIds /\ first \subseteq r /\ step[r] = r
      /\ \A closed \in SUBSET NodeIds :
              first \subseteq closed /\ step[closed] \subseteq closed => r \subseteq closed
  BY <1>5, <1>6, <1>7, RepeatCloses
<1>9. /\ r \in SUBSET NodeIds /\ first \subseteq r /\ Origins(es, r) \subseteq r
      /\ \A closed \in SUBSET NodeIds :
              first \subseteq closed /\ Origins(es, closed) \subseteq closed => r \subseteq closed
  BY <1>3, <1>8
<1> QED BY <1>9 DEF r, first

(* Edge by edge: what is in the targets and in the origins of a set. *)
LEMMA TargetsAndOrigins ==
  ASSUME NEW es, NEW s
  PROVE  /\ \A m : m \in Targets(es, s) <=> \E e \in es : e.source \in s /\ e.target = m
         /\ \A m : m \in Origins(es, s) <=> \E e \in es : e.target \in s /\ e.source = m
BY DEF Targets, Origins

(* Followers is the least set with the targets of a block that no edge     *)
(* leaves.                                                                 *)
LEMMA FollowersClose ==
  ASSUME NEW es \in SUBSET Edges, NEW n \in NodeIds
  PROVE  /\ Followers(es, n) \in SUBSET NodeIds
         /\ Targets(es, {n}) \subseteq Followers(es, n)
         /\ Targets(es, Followers(es, n)) \subseteq Followers(es, n)
         /\ \A closed \in SUBSET NodeIds :
              Targets(es, {n}) \subseteq closed /\ Targets(es, closed) \subseteq closed
                => Followers(es, n) \subseteq closed
<1>1. \A s : Targets(es, s) \in SUBSET NodeIds BY DEF Targets, Edges
<1>2. Followers(es, n) \in SUBSET NodeIds BY DEF Followers
<1>3. \A closed \in SUBSET NodeIds :
              Targets(es, {n}) \subseteq closed /\ Targets(es, closed) \subseteq closed
                => Followers(es, n) \subseteq closed
  BY DEF Followers
<1>4. Targets(es, {n}) \subseteq Followers(es, n) BY <1>1 DEF Followers
<1>5. ASSUME NEW m \in Targets(es, Followers(es, n)), NEW closed \in SUBSET NodeIds,
             Targets(es, {n}) \cup Targets(es, closed) \subseteq closed
      PROVE  m \in closed
  <2>1. Followers(es, n) \subseteq closed BY <1>3, <1>5
  <2>2. Targets(es, Followers(es, n)) \subseteq Targets(es, closed) BY <2>1 DEF Targets
  <2> QED BY <1>5, <2>2
<1>6. Targets(es, Followers(es, n)) \subseteq Followers(es, n) BY <1>1, <1>5 DEF Followers
<1> QED BY <1>2, <1>3, <1>4, <1>6

(* To follow what follows is to follow; what an edge leads to follows, and *)
(* a block that follows another is led to and leads the other on.          *)
LEMMA FollowOn ==
  ASSUME NEW es \in SUBSET Edges, NEW n \in NodeIds
  PROVE  /\ \A m \in Followers(es, n) : Followers(es, m) \subseteq Followers(es, n)
         /\ \A e \in es : e.source = n => /\ e.target \in Followers(es, n)
                                          /\ Followers(es, e.target) \subseteq Followers(es, n)
         /\ \A m \in Followers(es, n) : /\ \E e \in es : e.target = m
                                        /\ \E e \in es : e.source = n
<1>1. /\ Followers(es, n) \in SUBSET NodeIds
      /\ Targets(es, {n}) \subseteq Followers(es, n)
      /\ Targets(es, Followers(es, n)) \subseteq Followers(es, n)
      /\ \A closed \in SUBSET NodeIds :
              Targets(es, {n}) \subseteq closed /\ Targets(es, closed) \subseteq closed
                => Followers(es, n) \subseteq closed
  BY FollowersClose
<1>2. ASSUME NEW m \in Followers(es, n) PROVE Followers(es, m) \subseteq Followers(es, n)
  <2>1. m \in NodeIds BY <1>1, <1>2
  <2>2. Targets(es, {m}) \subseteq Followers(es, n) BY <1>1, <1>2 DEF Targets
  <2> QED BY <1>1, <2>1, <2>2, FollowersClose
<1>3. ASSUME NEW e \in es, e.source = n PROVE e.target \in Followers(es, n)
  BY <1>1, <1>3, TargetsAndOrigins
<1> DEFINE led == {m \in NodeIds : \E e \in es : e.target = m}
<1>4. Followers(es, n) \subseteq led
  <2>1. \A s : Targets(es, s) \subseteq led BY DEF Targets, Edges
  <2> HIDE DEF led
  <2>2. led \in SUBSET NodeIds BY DEF led
  <2> QED BY <1>1, <2>1, <2>2
<1>5. ASSUME ~ \E e \in es : e.source = n PROVE Followers(es, n) = {}
  <2>1. Targets(es, {n}) = {} /\ Targets(es, {}) = {} BY <1>5 DEF Targets
  <2> QED BY <1>1, <2>1
<1> QED BY <1>2, <1>3, <1>4, <1>5

(* The searches forwards and backwards agree: a block is an ancestor of    *)
(* those that follow it.                                                   *)
LEMMA AncestorsFollow ==
  ASSUME NEW es \in SUBSET Edges, NEW m \in NodeIds, NEW n \in NodeIds
  PROVE  m \in Ancestors(es, n) <=> n \in Followers(es, m)
<1>1. ASSUME NEW k \in NodeIds
      PROVE  /\ Ancestors(es, k) \in SUBSET NodeIds /\ Origins(es, {k}) \subseteq Ancestors(es, k)
             /\ Origins(es, Ancestors(es, k)) \subseteq Ancestors(es, k)
             /\ \A closed \in SUBSET NodeIds :
                  Origins(es, {k}) \subseteq closed /\ Origins(es, closed) \subseteq closed
                    => Ancestors(es, k) \subseteq closed
  BY AncestorsClose
<1>2. \A e \in es : e.source \in NodeIds /\ e.target \in NodeIds BY DEF Edges
<1>3. ASSUME m \in Ancestors(es, n) PROVE n \in Followers(es, m)
  <2> DEFINE before == {k \in NodeIds : n \in Followers(es, k)}
  <2>1. Origins(es, {n}) \subseteq before
    <3>1. ASSUME NEW e \in es, e.target = n PROVE e.source \in before BY <1>2, <3>1, FollowOn
    <3> QED BY <3>1, TargetsAndOrigins
  <2>2. Origins(es, before) \subseteq before
    <3>1. ASSUME NEW e \in es, e.target \in before PROVE e.source \in before BY <1>2, <3>1, FollowOn
    <3> HIDE DEF before
    <3> QED BY <3>1, TargetsAndOrigins
  <2>3. before \in SUBSET NodeIds OBVIOUS
  <2> HIDE DEF before
  <2>4. Ancestors(es, n) \subseteq before BY <1>1, <2>1, <2>2, <2>3
  <2> QED BY <1>3, <2>4 DEF before
<1>4. ASSUME n \in Followers(es, m) PROVE m \in Ancestors(es, n)
  <2> DEFINE after == {k \in NodeIds : m \in Ancestors(es, k)}
  <2>1. Targets(es, {m}) \subseteq after
    <3>1. ASSUME NEW e \in es, e.source = m PROVE e.target \in after
      <4>1. m \in Origins(es, {e.target}) BY <3>1, TargetsAndOrigins
      <4> QED BY <1>1, <1>2, <4>1
    <3> HIDE DEF after
    <3> QED BY <3>1, TargetsAndOrigins
  <2>2. Targets(es, after) \subseteq after
    <3>1. ASSUME NEW e \in es, e.source \in after PROVE e.target \in after
      <4> DEFINE k == e.source
                 l == e.target
      <4>1. k \in NodeIds /\ l \in NodeIds /\ m \in Ancestors(es, k) BY <1>2, <3>1
      <4>2. k \in Ancestors(es, l)
        <5>1. k \in Origins(es, {l}) BY TargetsAndOrigins
        <5> QED BY <1>1, <4>1, <5>1
      <4>3. Origins(es, {k}) \subseteq Ancestors(es, l)
        <5>1. Origins(es, {k}) \subseteq Origins(es, Ancestors(es, l)) BY <4>2, TargetsAndOrigins
        <5> QED BY <1>1, <4>1, <5>1
      <4> HIDE DEF k, l
      <4>4. Ancestors(es, k) \subseteq Ancestors(es, l) BY <1>1, <4>1, <4>3
      <4> QED BY <4>1, <4>4 DEF l
    <3> HIDE DEF after
    <3> QED BY <3>1, TargetsAndOrigins
  <2>3. after \in SUBSET NodeIds OBVIOUS
  <2> HIDE DEF after
  <2>4. Followers(es, m) \subseteq after BY <2>1, <2>2, <2>3, FollowersClose
  <2> QED BY <1>4, <2>4 DEF after
<1> QED BY <1>3, <1>4

(* What a block reaches is the block itself and what follows it. *)
LEMMA ReachedFollow ==
  ASSUME NEW es \in SUBSET Edges, NEW n \in NodeIds
  PROVE  ReachedFrom(es, {n}) = {n} \cup Followers(es, n)
<1> DEFINE r == ReachedFrom(es, {n})
           f == Followers(es, n)
<1>1. /\ r \in SUBSET NodeIds /\ {n} \subseteq r /\ Targets(es, r) \subseteq r
      /\ \A closed \in SUBSET NodeIds :
           {n} \subseteq closed /\ Targets(es, closed) \subseteq closed => r \subseteq closed
  <2>1. {n} \in SUBSET NodeIds OBVIOUS
  <2> HIDE DEF r
  <2>2. r = ReachedFrom(es, {n}) BY DEF r
  <2> QED BY <2>1, <2>2, Reaches
<1>2. /\ f \in SUBSET NodeIds /\ Targets(es, {n}) \subseteq f /\ Targets(es, f) \subseteq f
      /\ \A closed \in SUBSET NodeIds :
           Targets(es, {n}) \subseteq closed /\ Targets(es, closed) \subseteq closed => f \subseteq closed
  BY FollowersClose
<1> HIDE DEF r, f
<1>3. Targets(es, {n} \cup f) \subseteq f BY <1>2, TargetsAndOrigins
<1>4. r \subseteq {n} \cup f BY <1>1, <1>2, <1>3
<1>5. Targets(es, {n}) \subseteq r BY <1>1, TargetsAndOrigins
<1>6. f \subseteq r BY <1>1, <1>2, <1>5
<1>7. r = {n} \cup f BY <1>1, <1>4, <1>6
<1> QED BY <1>7 DEF r, f

(* Among blocks each of which is led to by one of them, some are on a      *)
(* cycle: the one with the most followers follows itself.                  *)
LEMMA LedToWithin ==
  ASSUME NEW es \in SUBSET Edges, NEW U \in SUBSET NodeIds, U # {},
         \A u \in U : \E e \in es : e.source \in U /\ e.target = u
  PROVE  \E n \in U : n \in Followers(es, n)
<1> DEFINE N == Cardinality(NodeIds)
           size(u) == Cardinality(Followers(es, u))
           lack == {N - size(u) : u \in U}
<1>1. IsFiniteSet(NodeIds) /\ N \in Nat BY GraphAssumption, FS_CardinalityType
<1>2. \A u \in U : /\ Followers(es, u) \in SUBSET NodeIds /\ IsFiniteSet(Followers(es, u))
                   /\ size(u) \in Nat /\ size(u) <= N
  <2>1. ASSUME NEW u \in U
        PROVE  /\ Followers(es, u) \in SUBSET NodeIds /\ IsFiniteSet(Followers(es, u))
               /\ size(u) \in Nat /\ size(u) <= N
    <3>1. Followers(es, u) \in SUBSET NodeIds BY FollowersClose
    <3> QED BY <1>1, <3>1, FS_Subset, FS_CardinalityType
  <2> QED BY <2>1
<1>3. lack \in SUBSET Nat /\ lack # {} BY <1>1, <1>2
<1>4. PICK u \in U : \A v \in U : N - size(u) <= N - size(v)
  <2>1. PICK x \in lack : \A y \in lack : x <= y
    <3> HIDE DEF lack
    <3> QED BY <1>3, LeastOf
  <2> QED BY <2>1
<1>5. PICK e \in es : e.source \in U /\ e.target = u OBVIOUS
<1>6. u \in Followers(es, e.source) /\ Followers(es, u) \subseteq Followers(es, e.source)
  BY <1>5, FollowOn
<1>7. size(e.source) <= size(u)
  <2>1. N - size(u) <= N - size(e.source) BY <1>4, <1>5
  <2> HIDE DEF size, N
  <2> QED BY <1>1, <1>2, <1>5, <2>1
<1>8. Followers(es, u) = Followers(es, e.source)
  <2>1. Cardinality(Followers(es, e.source)) <= Cardinality(Followers(es, u)) BY <1>7
  <2>2. /\ IsFiniteSet(Followers(es, e.source)) /\ Cardinality(Followers(es, e.source)) \in Nat
        /\ Cardinality(Followers(es, u)) \in Nat
    BY <1>2, <1>5
  <2> HIDE DEF size
  <2> QED BY <1>6, <2>1, <2>2, FS_Subset
<1> QED BY <1>6, <1>8

-----------------------------------------------------------------------------
(* The search in depth. *)

(* What holds between two steps of the search: the blocks being visited    *)
(* are those of the path, each leads on to the next, and those done with   *)
(* lead only to others done with and are on no cycle.                      *)
Searching(es, s) ==
  /\ s \in Searches
  /\ s.visiting \cap s.visited = {} /\ Cardinality(s.visiting) = Len(s.path)
  /\ \A i \in 1 .. Len(s.path) : s.path[i] \in s.visiting
  /\ \A m \in s.visiting : \E i \in 1 .. Len(s.path) : s.path[i] = m
  /\ \A i, j \in 1 .. Len(s.path) : i < j => s.path[j] \in Followers(es, s.path[i])
  /\ \A i, j \in 1 .. Len(s.path) : i # j => s.path[i] # s.path[j]
  /\ Targets(es, s.visited) \subseteq s.visited
  /\ \A m \in s.visited : m \notin Followers(es, m)
  /\ s.cycle => \E m \in NodeIds : m \in Followers(es, m)

(* How far the search is: the steps that entered blocks and that left them,*)
(* while there is something left to do.                                    *)
Effort(s) == 2 * Cardinality(s.visited) + Len(s.path)
NothingLeft(s) == s.cycle \/ (s.path = <<>> /\ Blocks \subseteq s.visited)

(* Entering a block that is neither visited nor being visited. *)
LEMMA EnterSearches ==
  ASSUME NEW es \in SUBSET Edges, NEW s, Searching(es, s), ~s.cycle, NEW m \in NodeIds,
         m \notin s.visited, m \notin s.visiting,
         s.path # <<>> => m \in Targets(es, {s.path[Len(s.path)]})
  PROVE  Searching(es, Enter(s, m)) /\ Effort(Enter(s, m)) = Effort(s) + 1
<1> DEFINE t == Enter(s, m)
           k == Len(s.path)
<1>1. s \in Searches BY DEF Searching
<1>2. /\ s.path \in Seq(NodeIds) /\ s.visiting \in SUBSET NodeIds /\ s.visited \in SUBSET NodeIds
      /\ s.cycle \in BOOLEAN /\ k \in Nat
  BY <1>1 DEF Searches
<1>3. /\ t.path = Append(s.path, m) /\ t.visiting = s.visiting \cup {m}
      /\ t.visited = s.visited /\ t.cycle = s.cycle
  BY <1>1 DEF Enter, Searches
<1>4. t \in Searches
  <2>1. Append(s.path, m) \in Seq(NodeIds) /\ s.visiting \cup {m} \in SUBSET NodeIds BY <1>2
  <2> QED BY <1>1, <2>1 DEF Enter, Searches
<1>5. /\ Len(t.path) = k + 1 /\ t.path[k + 1] = m
      /\ \A i \in 1 .. k : t.path[i] = s.path[i]
  BY <1>2, <1>3
<1> HIDE DEF t
<1>6. \A i \in 1 .. k : s.path[i] \in s.visiting BY DEF Searching
<1>7. \A i \in 1 .. k : s.path[i] \in NodeIds /\ m \in Followers(es, s.path[i])
  <2>1. ASSUME NEW i \in 1 .. k PROVE s.path[i] \in NodeIds /\ m \in Followers(es, s.path[i])
    <3>1. s.path # <<>> /\ k \in 1 .. k BY <1>2, <2>1
    <3>2. s.path[i] \in NodeIds /\ s.path[k] \in NodeIds BY <1>2, <3>1
    <3>3. m \in Followers(es, s.path[k]) BY <3>1, <3>2, FollowersClose
    <3>4. i = k \/ s.path[k] \in Followers(es, s.path[i])
      <4>1. i < k => s.path[k] \in Followers(es, s.path[i]) BY <3>1 DEF Searching
      <4> QED BY <1>2, <2>1, <4>1
    <3>5. s.path[k] \in Followers(es, s.path[i])
            => Followers(es, s.path[k]) \subseteq Followers(es, s.path[i])
      <4> DEFINE a == s.path[i]
                 b == s.path[k]
      <4>1. a \in NodeIds BY <3>2
      <4> HIDE DEF a, b
      <4>2. b \in Followers(es, a) => Followers(es, b) \subseteq Followers(es, a)
        BY <4>1, FollowOn
      <4> QED BY <4>2 DEF a, b
    <3> QED BY <3>2, <3>3, <3>4, <3>5
  <2> QED BY <2>1
<1>8. \A i \in 1 .. k + 1 : i \in 1 .. k \/ i = k + 1 BY <1>2
<1>9. Cardinality(t.visiting) = Cardinality(s.visiting) + 1
  <2>1. IsFiniteSet(s.visiting) BY <1>2, GraphAssumption, FS_Subset
  <2> QED BY <1>3, <2>1, FS_AddElement
<1>10. t.visiting \cap t.visited = {} /\ Cardinality(t.visiting) = Len(t.path)
  BY <1>2, <1>3, <1>5, <1>9 DEF Searching
<1>11. \A i \in 1 .. Len(t.path) : t.path[i] \in t.visiting
  <2>1. ASSUME NEW i \in 1 .. k + 1 PROVE t.path[i] \in t.visiting
    <3>1. CASE i = k + 1 BY <1>3, <1>5, <3>1
    <3>2. CASE i \in 1 .. k BY <1>3, <1>5, <1>6, <3>2
    <3> QED BY <1>8, <3>1, <3>2
  <2> QED BY <1>5, <2>1
<1>12. \A n \in t.visiting : \E i \in 1 .. Len(t.path) : t.path[i] = n
  <2>1. ASSUME NEW n \in t.visiting PROVE \E i \in 1 .. k + 1 : t.path[i] = n
    <3>1. CASE n = m BY <1>2, <1>5, <3>1
    <3>2. CASE n \in s.visiting
      <4>1. PICK i \in 1 .. k : s.path[i] = n BY <3>2 DEF Searching
      <4>2. i \in 1 .. k + 1 /\ t.path[i] = n BY <1>2, <1>5, <4>1
      <4> QED BY <4>2
    <3> QED BY <1>3, <3>1, <3>2
  <2> QED BY <1>5, <2>1
<1>13. \A i, j \in 1 .. Len(t.path) : i < j => t.path[j] \in Followers(es, t.path[i])
  <2>1. ASSUME NEW i \in 1 .. k + 1, NEW j \in 1 .. k + 1, i < j
        PROVE  t.path[j] \in Followers(es, t.path[i])
    <3>1. i \in 1 .. k /\ t.path[i] = s.path[i] BY <1>2, <1>5, <2>1
    <3>2. CASE j = k + 1 BY <1>5, <1>7, <3>1, <3>2
    <3>3. CASE j \in 1 .. k BY <1>5, <2>1, <3>1, <3>3 DEF Searching
    <3> QED BY <1>8, <3>2, <3>3
  <2> QED BY <1>5, <2>1
<1>14. \A i, j \in 1 .. Len(t.path) : i # j => t.path[i] # t.path[j]
  <2>1. \A i \in 1 .. k : t.path[i] # t.path[k + 1] BY <1>5, <1>6
  <2>2. \A i, j \in 1 .. k : i # j => t.path[i] # t.path[j] BY <1>5 DEF Searching
  <2> QED BY <1>5, <1>8, <2>1, <2>2
<1>15. /\ Targets(es, t.visited) \subseteq t.visited
       /\ \A n \in t.visited : n \notin Followers(es, n)
       /\ t.cycle => \E n \in NodeIds : n \in Followers(es, n)
  BY <1>3 DEF Searching
<1>16. Searching(es, t) BY <1>4, <1>10, <1>11, <1>12, <1>13, <1>14, <1>15 DEF Searching
<1>17. Effort(t) = Effort(s) + 1
  <2>1. Cardinality(s.visited) \in Nat BY <1>2, GraphAssumption, FS_Subset, FS_CardinalityType
  <2> QED BY <1>2, <1>3, <1>5, <2>1 DEF Effort
<1> QED BY <1>16, <1>17 DEF t

(* Leaving the last block of the path when nothing it leads to is left to  *)
(* visit.                                                                  *)
LEMMA LeaveSearches ==
  ASSUME NEW es \in SUBSET Edges, NEW s, Searching(es, s), s.path # <<>>,
         NEW n, n = s.path[Len(s.path)], Targets(es, {n}) \subseteq s.visited
  PROVE  Searching(es, Leave(s, n)) /\ Effort(Leave(s, n)) = Effort(s) + 1
<1> DEFINE t == Leave(s, n)
           k == Len(s.path)
<1>1. s \in Searches BY DEF Searching
<1>2. /\ s.path \in Seq(NodeIds) /\ s.visiting \in SUBSET NodeIds /\ s.visited \in SUBSET NodeIds
      /\ s.cycle \in BOOLEAN /\ k \in Nat
  BY <1>1 DEF Searches
<1>3. k \in 1 .. k /\ k - 1 \in Nat BY <1>2
<1>4. n \in s.visiting /\ n \in NodeIds /\ n \notin s.visited
  BY <1>2, <1>3 DEF Searching
<1>5. Back(s.path) \in Seq(NodeIds) /\ Len(Back(s.path)) = k - 1
      /\ \A i \in 1 .. k - 1 : Back(s.path)[i] = s.path[i]
  BY <1>2, <1>3 DEF Back
<1>6. /\ t.path = Back(s.path) /\ t.visiting = s.visiting \ {n}
      /\ t.visited = s.visited \cup {n} /\ t.cycle = s.cycle
  BY <1>1 DEF Leave, Searches
<1>7. t \in Searches
  <2>1. s.visiting \ {n} \in SUBSET NodeIds /\ s.visited \cup {n} \in SUBSET NodeIds BY <1>2, <1>4
  <2> QED BY <1>1, <1>5, <2>1 DEF Leave, Searches
<1>8. Len(t.path) = k - 1 /\ \A i \in 1 .. k - 1 : t.path[i] = s.path[i] /\ i \in 1 .. k /\ i # k
  BY <1>2, <1>5, <1>6
<1> HIDE DEF t
<1>9. Cardinality(t.visiting) = Cardinality(s.visiting) - 1
  <2>1. IsFiniteSet(s.visiting) BY <1>2, GraphAssumption, FS_Subset
  <2>2. Cardinality(s.visiting \ {n}) = Cardinality(s.visiting) - 1
    <3>1. Cardinality(s.visiting \ {n}) = IF n \in s.visiting THEN Cardinality(s.visiting) - 1
                                                               ELSE Cardinality(s.visiting)
      BY <2>1, FS_RemoveElement, Zenon
    <3> QED BY <1>4, <3>1
  <2> QED BY <1>6, <2>2
<1>10. t.visiting \cap t.visited = {} /\ Cardinality(t.visiting) = Len(t.path)
  BY <1>2, <1>3, <1>6, <1>8, <1>9 DEF Searching
<1>11. \A i \in 1 .. Len(t.path) : t.path[i] \in t.visiting
  <2>1. \A i \in 1 .. k - 1 : s.path[i] \in s.visiting /\ s.path[i] # n
    BY <1>3, <1>8 DEF Searching
  <2> QED BY <1>6, <1>8, <2>1
<1>12. \A m \in t.visiting : \E i \in 1 .. Len(t.path) : t.path[i] = m
  <2>1. ASSUME NEW m \in t.visiting PROVE \E i \in 1 .. k - 1 : t.path[i] = m
    <3>1. PICK i \in 1 .. k : s.path[i] = m BY <1>6, <2>1 DEF Searching
    <3>2. i # k BY <1>6, <2>1, <3>1
    <3>3. i \in 1 .. k - 1 BY <1>2, <3>1, <3>2
    <3> QED BY <1>8, <3>1, <3>3
  <2> QED BY <1>8, <2>1
<1>13. /\ \A i, j \in 1 .. Len(t.path) : i < j => t.path[j] \in Followers(es, t.path[i])
       /\ \A i, j \in 1 .. Len(t.path) : i # j => t.path[i] # t.path[j]
  BY <1>8 DEF Searching
<1>14. Targets(es, t.visited) \subseteq t.visited
  <2>1. Targets(es, s.visited) \subseteq s.visited BY DEF Searching
  <2> QED BY <1>6, <2>1, TargetsAndOrigins
<1>15. \A m \in t.visited : m \notin Followers(es, m)
  <2>1. Targets(es, s.visited) \subseteq s.visited BY DEF Searching
  <2>2. Followers(es, n) \subseteq s.visited BY <1>2, <1>4, <2>1, FollowersClose
  <2> QED BY <1>4, <1>6, <2>2 DEF Searching
<1>16. t.cycle => \E m \in NodeIds : m \in Followers(es, m) BY <1>6 DEF Searching
<1>17. Searching(es, t)
  BY <1>7, <1>10, <1>11, <1>12, <1>13, <1>14, <1>15, <1>16 DEF Searching
<1>18. Effort(t) = Effort(s) + 1
  <2>1. IsFiniteSet(s.visited) BY <1>2, GraphAssumption, FS_Subset
  <2>2. Cardinality(s.visited) \in Nat /\ Cardinality(t.visited) = Cardinality(s.visited) + 1
    BY <1>4, <1>6, <2>1, FS_AddElement, FS_CardinalityType
  <2> DEFINE a == Cardinality(s.visited)
             b == Cardinality(t.visited)
  <2>3. Effort(s) = 2 * a + k /\ Effort(t) = 2 * b + (k - 1) BY <1>8 DEF Effort
  <2>4. a \in Nat /\ b = a + 1 /\ k \in Nat BY <1>2, <2>2
  <2> HIDE DEF a, b, k
  <2> QED BY <2>3, <2>4
<1> QED BY <1>17, <1>18 DEF t

(* Coming back to a block that is being visited closes a cycle. *)
LEMMA CycleFound ==
  ASSUME NEW es \in SUBSET Edges, NEW s, Searching(es, s), s.path # <<>>,
         NEW m \in s.visiting, m \in Targets(es, {s.path[Len(s.path)]})
  PROVE  m \in NodeIds /\ m \in Followers(es, m)
<1> DEFINE k == Len(s.path)
<1>1. s.path \in Seq(NodeIds) /\ s.visiting \in SUBSET NodeIds /\ k \in 1 .. k /\ k \in Nat
  <2>1. s.path \in Seq(NodeIds) /\ s.visiting \in SUBSET NodeIds BY DEF Searching, Searches
  <2> QED BY <2>1
<1>2. PICK i \in 1 .. k : s.path[i] = m BY DEF Searching
<1>3. s.path[k] \in NodeIds /\ m \in NodeIds BY <1>1
<1>4. m \in Followers(es, s.path[k]) BY <1>3, FollowersClose
<1>5. CASE i = k BY <1>2, <1>3, <1>4, <1>5
<1>6. CASE i < k
  <2>1. s.path[k] \in Followers(es, m) BY <1>1, <1>2, <1>6 DEF Searching
  <2> QED BY <1>3, <1>4, <2>1, FollowOn
<1> QED BY <1>1, <1>2, <1>5, <1>6

(* A step of the search keeps all this and is one step on, unless nothing  *)
(* is left to do.                                                          *)
LEMMA VisitSearches ==
  ASSUME NEW es \in SUBSET Edges, NEW s, Searching(es, s)
  PROVE  /\ Searching(es, Visit(es, s))
         /\ \/ NothingLeft(Visit(es, s))
            \/ ~NothingLeft(s) /\ Effort(Visit(es, s)) = Effort(s) + 1
<1> DEFINE n == s.path[Len(s.path)]
           done == s.visited \ s.visiting
           next == (IF s.path = <<>> THEN Blocks ELSE Targets(es, {n})) \ done
           m == CHOOSE x \in next : TRUE
           t == [s EXCEPT !.cycle = TRUE]
<1>0. done = s.visited BY DEF Searching
<1>1. s \in Searches BY DEF Searching
<1>2. s.path \in Seq(NodeIds) /\ s.visited \in SUBSET NodeIds /\ s.cycle \in BOOLEAN
  BY <1>1 DEF Searches
<1>3. next \in SUBSET NodeIds BY DEF Blocks, Targets, Edges
<1>4. Visit(es, s) = IF s.cycle \/ (s.path = <<>> /\ next = {}) THEN s
                     ELSE IF next = {} THEN Leave(s, n)
                     ELSE IF m \in s.visiting THEN t ELSE Enter(s, m)
  BY DEF Visit
<1>5. NothingLeft(s) <=> s.cycle \/ (s.path = <<>> /\ next = {}) BY <1>0, <1>3 DEF NothingLeft
<1>6. CASE s.cycle \/ (s.path = <<>> /\ next = {})
  BY <1>4, <1>5, <1>6
<1>7. CASE ~ (s.cycle \/ (s.path = <<>> /\ next = {})) /\ next = {}
  <2>1. Visit(es, s) = Leave(s, n) BY <1>4, <1>7
  <2>2. s.path # <<>> /\ Targets(es, {n}) \subseteq s.visited BY <1>0, <1>7
  <2> HIDE DEF next
  <2>3. Searching(es, Leave(s, n)) /\ Effort(Leave(s, n)) = Effort(s) + 1 BY <2>2, LeaveSearches
  <2> QED BY <1>5, <1>7, <2>1, <2>3
<1>8. CASE ~s.cycle /\ next # {} /\ m \notin s.visiting
  <2>1. Visit(es, s) = Enter(s, m) BY <1>4, <1>8
  <2>2. m \in next BY <1>8
  <2>3. m \in NodeIds /\ m \notin s.visited /\ (s.path # <<>> => m \in Targets(es, {n}))
    BY <1>0, <1>3, <2>2
  <2> HIDE DEF next, m
  <2>4. Searching(es, Enter(s, m)) /\ Effort(Enter(s, m)) = Effort(s) + 1
    BY <1>8, <2>3, EnterSearches
  <2> QED BY <1>5, <1>8, <2>1, <2>4
<1>9. CASE ~s.cycle /\ next # {} /\ m \in s.visiting
  <2>1. Visit(es, s) = t BY <1>4, <1>9
  <2>2. m \in next BY <1>9
  <2>3. s.path # <<>>
    <3>1. SUFFICES ASSUME s.path = <<>> PROVE FALSE OBVIOUS
    <3>2. Len(s.path) = 0 BY <3>1
    <3> HIDE DEF next, m
    <3> QED BY <1>9, <3>2 DEF Searching
  <2>4. m \in Targets(es, {n}) BY <2>2, <2>3
  <2> HIDE DEF next, m
  <2>5. m \in NodeIds /\ m \in Followers(es, m) BY <1>9, <2>3, <2>4, CycleFound
  <2>6. /\ t \in Searches /\ t.cycle /\ t.path = s.path /\ t.visiting = s.visiting
        /\ t.visited = s.visited
    BY <1>1 DEF Searches
  <2> HIDE DEF t
  <2>7. Searching(es, t) BY <2>5, <2>6 DEF Searching
  <2> QED BY <2>1, <2>6, <2>7 DEF NothingLeft
<1> QED BY <1>6, <1>7, <1>8, <1>9

(* The search finds a cycle exactly when a block follows itself: twice as  *)
(* many steps as there are blocks are enough to enter and leave them all.  *)
LEMMA HasCycleIsRight ==
  ASSUME NEW es \in SUBSET Edges, \A e \in es : e.source \in Blocks
  PROVE  HasCycle(es) <=> \E n \in Blocks : n \in Followers(es, n)
<1> DEFINE N == Cardinality(NodeIds)
           step == [s \in Searches |-> Visit(es, s)]
           first == [path |-> <<>>, visiting |-> {}, visited |-> {}, cycle |-> FALSE]
           Inv == {p \in Nat \X Searches :
                     Searching(es, p[2]) /\ (NothingLeft(p[2]) \/ Effort(p[2]) = p[1])}
           last == Repeat(step, first, 2 * N)
<1>1. IsFiniteSet(NodeIds) /\ N \in Nat BY GraphAssumption, FS_CardinalityType
<1>2. <<0, first>> \in Inv
  <2>1. first \in Searches BY DEF Searches
  <2>2. Cardinality({}) = 0 BY FS_EmptySet
  <2>3. Targets(es, {}) = {} BY DEF Targets
  <2>4. Searching(es, first) BY <2>1, <2>2, <2>3 DEF Searching
  <2>5. Effort(first) = 0 BY <2>2 DEF Effort
  <2> HIDE DEF first
  <2> QED BY <2>1, <2>4, <2>5
<1>3. ASSUME NEW i \in Nat, NEW s, <<i, s>> \in Inv PROVE <<i + 1, step[s]>> \in Inv
  <2>1. s \in Searches /\ Searching(es, s) /\ (NothingLeft(s) \/ Effort(s) = i) BY <1>3
  <2>2. step[s] = Visit(es, s) BY <2>1
  <2>3. /\ Searching(es, Visit(es, s))
        /\ \/ NothingLeft(Visit(es, s))
           \/ ~NothingLeft(s) /\ Effort(Visit(es, s)) = Effort(s) + 1
    BY <2>1, VisitSearches
  <2>4. Visit(es, s) \in Searches BY <2>3 DEF Searching
  <2> HIDE DEF step
  <2> QED BY <2>1, <2>2, <2>3, <2>4
<1>4. <<2 * N, last>> \in Inv
  <2>1. 2 * N \in Nat BY <1>1
  <2> HIDE DEF Inv, step, first, N
  <2> QED BY <1>2, <1>3, <2>1, RepeatInd
<1>5. HasCycle(es) <=> last.cycle BY DEF HasCycle
<1>6. Searching(es, last) /\ (NothingLeft(last) \/ Effort(last) = 2 * N) BY <1>4
<1> HIDE DEF last, step, first, Inv
<1>7. NothingLeft(last)
  <2>1. SUFFICES ASSUME Effort(last) = 2 * N PROVE NothingLeft(last) BY <1>6
  <2>2. /\ last.path \in Seq(NodeIds) /\ last.visiting \in SUBSET NodeIds
        /\ last.visited \in SUBSET NodeIds /\ last.visiting \cap last.visited = {}
        /\ Cardinality(last.visiting) = Len(last.path)
    BY <1>6 DEF Searching, Searches
  <2> DEFINE a == Cardinality(last.visited)
             b == Cardinality(last.visiting)
  <2>3. IsFiniteSet(last.visited) /\ IsFiniteSet(last.visiting) /\ a \in Nat /\ b \in Nat
    BY <1>1, <2>2, FS_Subset, FS_CardinalityType
  <2>4. a + b <= N
    <3>1. last.visited \cup last.visiting \in SUBSET NodeIds BY <2>2
    <3>2. Cardinality(last.visited \cup last.visiting) <= N BY <1>1, <3>1, FS_Subset
    <3>3. last.visited \cap last.visiting = {} BY <2>2
    <3>4. Cardinality(last.visited \cup last.visiting) = a + b - Cardinality({})
      BY <2>3, <3>3, FS_Union
    <3>5. Cardinality({}) = 0 BY FS_EmptySet
    <3> HIDE DEF a, b, N
    <3> QED BY <2>3, <3>2, <3>4, <3>5
  <2>5. 2 * a + b = 2 * N BY <2>1, <2>2 DEF Effort
  <2>6. a = N /\ b = 0
    <3> HIDE DEF a, b, N
    <3> QED BY <1>1, <2>3, <2>4, <2>5
  <2>7. last.visited = NodeIds BY <1>1, <2>2, <2>6, FS_Subset
  <2>8. last.path = <<>>
    <3>1. Len(last.path) = 0 /\ last.path \in Seq(NodeIds) BY <2>2, <2>6
    <3> QED BY <3>1
  <2> QED BY <2>7, <2>8 DEF NothingLeft, Blocks
<1>8. ASSUME last.cycle PROVE \E n \in Blocks : n \in Followers(es, n)
  <2>1. PICK n \in NodeIds : n \in Followers(es, n) BY <1>6, <1>8 DEF Searching
  <2>2. \E e \in es : e.source = n BY <2>1, FollowOn
  <2> QED BY <2>1, <2>2
<1>9. ASSUME ~last.cycle, NEW n \in Blocks PROVE n \notin Followers(es, n)
  <2>1. n \in last.visited BY <1>7, <1>9 DEF NothingLeft
  <2> QED BY <1>6, <2>1 DEF Searching
<1> QED BY <1>5, <1>8, <1>9

-----------------------------------------------------------------------------
(* The order of the compiler. *)

Placed(place) == {m \in Blocks : place[m] > 0}
Waiting(place, m) == {e \in Flows : e.target = m /\ place[e.source] = 0}

(* What holds between two placements: the queue has the blocks that wait   *)
(* for no other, the degree of a block counts the connections that have    *)
(* their source still to be placed, and connections to placed blocks go    *)
(* forwards.                                                               *)
Compiling(s) ==
  /\ s \in Placings
  /\ s.queue = {m \in Blocks : s.place[m] = 0 /\ s.indegree[m] = 0}
  /\ \A m \in Blocks : /\ s.indegree[m] = Cardinality(Waiting(s.place, m))
                       /\ s.place[m] <= Cardinality(Placed(s.place))
  /\ \A e \in Flows : s.place[e.target] > 0 =>
                        s.place[e.source] > 0 /\ s.place[e.source] < s.place[e.target]

(* Math.max of a natural number and 0. *)
LEMMA MaxOfNat ==
  ASSUME NEW x \in Nat PROVE Max({x, 0}) = x
<1>1. x \in {x, 0} /\ \A y \in {x, 0} : x >= y OBVIOUS
<1>2. \A z \in {x, 0} : (\A y \in {x, 0} : z >= y) => z = x OBVIOUS
<1> QED BY <1>1, <1>2 DEF Max

(* The sets the compiler counts are finite. *)
LEMMA FlowsFinite ==
  ASSUME IsFiniteSet(edges), edges \in SUBSET Edges
  PROVE  /\ \A es \in SUBSET Flows : IsFiniteSet(es) /\ Cardinality(es) \in Nat
         /\ \A ns \in SUBSET Blocks : /\ IsFiniteSet(ns) /\ Cardinality(ns) \in Nat
                                      /\ Cardinality(ns) <= Cardinality(NodeIds)
         /\ \A e \in Flows : e \in Edges /\ e.source \in Blocks /\ e.target \in Blocks
<1>1. Flows \in SUBSET edges /\ Blocks \in SUBSET NodeIds BY DEF Flows, Runtime, Blocks
<1>2. ASSUME NEW es \in SUBSET Flows PROVE IsFiniteSet(es) /\ Cardinality(es) \in Nat
  <2>1. es \in SUBSET edges BY <1>1
  <2> QED BY <2>1, FS_Subset, FS_CardinalityType
<1>3. ASSUME NEW ns \in SUBSET Blocks
      PROVE  IsFiniteSet(ns) /\ Cardinality(ns) \in Nat /\ Cardinality(ns) <= Cardinality(NodeIds)
  <2>1. ns \in SUBSET NodeIds BY <1>1
  <2> QED BY <2>1, GraphAssumption, FS_Subset, FS_CardinalityType
<1>4. \A e \in Flows : e \in Edges /\ e.source \in Blocks /\ e.target \in Blocks
  BY DEF Flows, Runtime
<1> QED BY <1>2, <1>3, <1>4

(* Placing a block n from the queue takes off the connections from n what  *)
(* the other blocks wait for.                                              *)
LEMMA DegreesFall ==
  ASSUME IsFiniteSet(edges), edges \in SUBSET Edges, NEW s, Compiling(s), NEW n \in s.queue,
         NEW c \in Nat \ {0}, NEW m \in Blocks
  PROVE  /\ Cardinality(Waiting([s.place EXCEPT ![n] = c], m))
              = Max({s.indegree[m] - Paths(n, m), 0})
         /\ Cardinality(Waiting([s.place EXCEPT ![n] = c], m)) = s.indegree[m] - Paths(n, m)
         /\ Paths(n, m) \in Nat /\ s.indegree[m] \in Nat
<1> DEFINE more == [s.place EXCEPT ![n] = c]
           old == Waiting(s.place, m)
           new == Waiting(more, m)
           from == {e \in Flows : e.source = n /\ e.target = m}
<1>1. n \in Blocks /\ s.place \in [Blocks -> Nat] /\ s.place[n] = 0 BY DEF Compiling, Placings
<1>2. \A k \in Blocks : more[k] = IF k = n THEN c ELSE s.place[k] BY <1>1
<1>3. \A e \in Flows : e.source \in Blocks BY FlowsFinite
<1> HIDE DEF more
<1>4. old = new \cup from /\ new \cap from = {} BY <1>1, <1>2, <1>3 DEF Waiting
<1>5. /\ IsFiniteSet(new) /\ IsFiniteSet(from)
      /\ Cardinality(new) \in Nat /\ Cardinality(from) \in Nat /\ Cardinality(old) \in Nat
  <2>1. old \in SUBSET Flows /\ new \in SUBSET Flows /\ from \in SUBSET Flows BY DEF Waiting
  <2> HIDE DEF old, new, from
  <2> QED BY <2>1, FlowsFinite
<1>6. Cardinality(old) = s.indegree[m] /\ Paths(n, m) = Cardinality(from)
  BY DEF Compiling, Paths
<1> HIDE DEF old, new, from
<1>7. Cardinality(old) = Cardinality(new) + Cardinality(from)
  <2>1. Cardinality(new \cup from) = Cardinality(new) + Cardinality(from) - Cardinality({})
    BY <1>4, <1>5, FS_Union
  <2>2. Cardinality({}) = 0 BY FS_EmptySet
  <2> QED BY <1>4, <1>5, <2>1, <2>2
<1>8. Cardinality(new) = s.indegree[m] - Paths(n, m) /\ s.indegree[m] - Paths(n, m) \in Nat
  BY <1>5, <1>6, <1>7
<1> QED BY <1>5, <1>6, <1>8, MaxOfNat DEF new, more

(* A placement keeps all this and places one more block, while there are   *)
(* blocks in the queue.                                                    *)
LEMMA PlaceCompiles ==
  ASSUME IsFiniteSet(edges), edges \in SUBSET Edges, NEW s, Compiling(s)
  PROVE  /\ Compiling(Place(s))
         /\ \/ s.queue = {} /\ Place(s) = s
            \/ /\ s.queue # {}
               /\ Cardinality(Placed(Place(s).place)) = Cardinality(Placed(s.place)) + 1
<1>1. CASE s.queue = {} BY <1>1 DEF Place
<1>2. CASE s.queue # {}
  <2> DEFINE n == CHOOSE m \in s.queue : TRUE
             c == 1 + Cardinality(Placed(s.place))
             less == [m \in Blocks |-> Max({s.indegree[m] - Paths(n, m), 0})]
             more == [s.place EXCEPT ![n] = c]
             queue == {m \in s.queue \cup Freed(n, less) : more[m] = 0}
             t == [queue |-> queue, indegree |-> less, place |-> more]
  <2>1. Place(s) = t BY <1>2 DEF Place, Placed
  <2>2. n \in s.queue BY <1>2
  <2>3. /\ s.queue = {m \in Blocks : s.place[m] = 0 /\ s.indegree[m] = 0}
        /\ s.place \in [Blocks -> Nat] /\ s.indegree \in [Blocks -> Nat]
        /\ n \in Blocks /\ s.place[n] = 0 /\ s.indegree[n] = 0
    BY <2>2 DEF Compiling, Placings
  <2>4. Cardinality(Placed(s.place)) \in Nat /\ c \in Nat \ {0}
    <3>1. Placed(s.place) \in SUBSET Blocks BY DEF Placed
    <3> QED BY <3>1, FlowsFinite
  <2>5. \A m \in Blocks : more[m] = IF m = n THEN c ELSE s.place[m] BY <2>3
  <2>6. more \in [Blocks -> Nat] BY <2>3, <2>4
  <2> HIDE DEF n, c
  <2>7. \A m \in Blocks : /\ less[m] = Cardinality(Waiting(more, m)) /\ less[m] \in Nat
                          /\ less[m] = s.indegree[m] - Paths(n, m)
                          /\ Paths(n, m) \in Nat /\ s.indegree[m] \in Nat
    <3>1. ASSUME NEW m \in Blocks
          PROVE  /\ less[m] = Cardinality(Waiting(more, m))
                 /\ less[m] = s.indegree[m] - Paths(n, m)
                 /\ Paths(n, m) \in Nat /\ s.indegree[m] \in Nat
      <4>1. less[m] = Max({s.indegree[m] - Paths(n, m), 0}) OBVIOUS
      <4> HIDE DEF less
      <4> QED BY <2>2, <2>4, <4>1, DegreesFall
    <3>2. ASSUME NEW m \in Blocks PROVE Cardinality(Waiting(more, m)) \in Nat
      <4>1. Waiting(more, m) \in SUBSET Flows BY DEF Waiting
      <4> QED BY <4>1, FlowsFinite
    <3> HIDE DEF less, more
    <3> QED BY <3>1, <3>2
  <2>8. less \in [Blocks -> Nat]
    <3>1. \A m \in Blocks : Max({s.indegree[m] - Paths(n, m), 0}) \in Nat BY <2>7
    <3> QED BY <3>1
  <2>9. Freed(n, less) = {m \in Blocks : Paths(n, m) > 0 /\ less[m] = 0} BY DEF Freed
  <2>10. queue = {m \in Blocks : more[m] = 0 /\ less[m] = 0}
    <3> HIDE DEF less, more
    <3>1. ASSUME NEW m \in queue PROVE m \in Blocks /\ more[m] = 0 /\ less[m] = 0
      <4>1. CASE m \in s.queue BY <2>3, <2>7, <3>1, <4>1
      <4>2. CASE m \in Freed(n, less) BY <2>9, <3>1, <4>2
      <4> QED BY <3>1, <4>1, <4>2
    <3>2. ASSUME NEW m \in Blocks, more[m] = 0, less[m] = 0 PROVE m \in queue
      <4>1. s.place[m] = 0 BY <2>4, <2>5, <3>2
      <4>2. CASE Paths(n, m) > 0 BY <2>9, <3>2, <4>2
      <4>3. CASE Paths(n, m) = 0
        <5>1. s.indegree[m] = 0 BY <2>7, <3>2, <4>3
        <5> QED BY <2>3, <3>2, <4>1, <5>1
      <4> QED BY <2>7, <4>2, <4>3
    <3> HIDE DEF queue
    <3> QED BY <3>1, <3>2
  <2>11. t \in Placings
    <3>1. queue \in SUBSET Blocks BY <2>10
    <3> HIDE DEF queue, less, more
    <3> QED BY <2>6, <2>8, <3>1 DEF Placings
  <2> HIDE DEF queue, less, more
  <2>12. Placed(more) = Placed(s.place) \cup {n} /\ n \notin Placed(s.place)
    BY <2>3, <2>4, <2>5 DEF Placed
  <2>13. Cardinality(Placed(more)) = c
    <3>1. Placed(s.place) \in SUBSET Blocks BY DEF Placed
    <3>2. IsFiniteSet(Placed(s.place)) BY <3>1, FlowsFinite
    <3>3. Cardinality(Placed(more)) = Cardinality(Placed(s.place)) + 1
      BY <2>12, <3>2, FS_AddElement
    <3> QED BY <2>4, <3>3 DEF c
  <2>14. \A m \in Blocks : more[m] <= Cardinality(Placed(more))
    <3>1. \A m \in Blocks : s.place[m] <= Cardinality(Placed(s.place)) BY DEF Compiling
    <3>2. \A m \in Blocks : s.place[m] \in Nat BY <2>3
    <3> QED BY <2>4, <2>5, <2>13, <3>1, <3>2 DEF c
  <2>15. ASSUME NEW e \in Flows, more[e.target] > 0
         PROVE  more[e.source] > 0 /\ more[e.source] < more[e.target]
    <3>1. e.source \in Blocks /\ e.target \in Blocks BY FlowsFinite
    <3>2. s.place[e.source] \in Nat /\ s.place[e.target] \in Nat BY <2>3, <3>1
    <3>3. CASE e.target = n
      <4>1. Waiting(s.place, n) = {}
        <5>1. Cardinality(Waiting(s.place, n)) = 0 BY <2>3 DEF Compiling
        <5>2. Waiting(s.place, n) \in SUBSET Flows BY DEF Waiting
        <5>3. IsFiniteSet(Waiting(s.place, n)) BY <5>2, FlowsFinite
        <5> QED BY <5>1, <5>3, FS_EmptySet
      <4>2. s.place[e.source] # 0 BY <3>3, <4>1 DEF Waiting
      <4>3. more[e.source] = s.place[e.source] /\ more[e.target] = c BY <2>3, <2>5, <3>1, <3>3, <4>2
      <4>4. s.place[e.source] <= Cardinality(Placed(s.place)) BY <3>1 DEF Compiling
      <4> QED BY <2>4, <3>2, <4>2, <4>3, <4>4 DEF c
    <3>4. CASE e.target # n
      <4>1. more[e.target] = s.place[e.target] BY <2>5, <3>1, <3>4
      <4>2. s.place[e.source] > 0 /\ s.place[e.source] < s.place[e.target]
        BY <2>15, <4>1 DEF Compiling
      <4>3. more[e.source] = s.place[e.source] BY <2>3, <2>5, <3>1, <4>2
      <4> QED BY <4>1, <4>2, <4>3
    <3> QED BY <3>3, <3>4
  <2>16. t.queue = queue /\ t.indegree = less /\ t.place = more OBVIOUS
  <2> HIDE DEF t
  <2>17. Compiling(t) BY <2>7, <2>10, <2>11, <2>14, <2>15, <2>16 DEF Compiling
  <2> QED BY <1>2, <2>1, <2>4, <2>13, <2>16, <2>17 DEF c
<1> QED BY <1>1, <1>2

-----------------------------------------------------------------------------
(* What the checks promise of a graph. *)

(* The inductive invariant: the types, finitely many connections, and a    *)
(* block at the source of each; a patch may only turn a connection's       *)
(* target elsewhere.                                                       *)
GraphInv == /\ GraphTypeOK /\ IsFiniteSet(edges)
            /\ \A e \in edges : e.source \in Blocks

(* The connections of the runtime and the blocks, under the invariant. *)
LEMMA RuntimeTypes ==
  ASSUME GraphInv
  PROVE  /\ Runtime \in SUBSET Edges /\ edges \in SUBSET Edges
         /\ Blocks \in SUBSET NodeIds
         /\ \A e \in Runtime : e \in edges /\ e.source \in Blocks /\ e.target \in NodeIds
BY DEF GraphInv, GraphTypeOK, Runtime, Blocks, Edges

(* hasUnsupportedCycle is right about the connections of the runtime. *)
LEMMA CycleCheck ==
  ASSUME GraphInv PROVE CycleCheckIsRight
BY RuntimeTypes, HasCycleIsRight DEF CycleCheckIsRight

(* A draft that may be published has one trigger; it reaches every block   *)
(* and no connection leads to it; connections join blocks, none follows    *)
(* itself.                                                                 *)
LEMMA Publishable ==
  ASSUME GraphInv, CanPublish
  PROVE  /\ \E t \in Blocks : /\ {n \in Blocks : kind[n] = "trigger"} = {t}
                              /\ Followers(Runtime, t) = Blocks \ {t}
         /\ \A e \in edges : e.source \in Blocks /\ e.target \in Blocks
         /\ \A e \in Runtime : kind[e.target] # "trigger"
         /\ Flows = Runtime
         /\ \A n \in NodeIds : n \notin Followers(Runtime, n)
<1> DEFINE triggers == {n \in Blocks : kind[n] = "trigger"}
<1>1. /\ Runtime \in SUBSET Edges /\ Blocks \in SUBSET NodeIds
      /\ \A e \in Runtime : e \in edges /\ e.source \in Blocks
  BY RuntimeTypes
<1>2. /\ Cardinality(triggers) = 1 /\ Disconnected = {} /\ ~HasCycle(Runtime)
      /\ \A e \in edges : EdgeIsSound(e)
  BY DEF CanPublish
<1>3. \A e \in edges : e.source \in Blocks /\ e.target \in Blocks /\ kind[e.target] # "trigger"
  BY <1>2 DEF EdgeIsSound, TakesInput
<1>4. PICK t : triggers = {t}
  <2>1. triggers \in SUBSET NodeIds BY <1>1
  <2>2. IsFiniteSet(triggers) BY <2>1, GraphAssumption, FS_Subset
  <2> HIDE DEF triggers
  <2> QED BY <1>2, <2>2, FS_Singleton
<1>5. t \in Blocks /\ t \in NodeIds /\ kind[t] = "trigger" BY <1>1, <1>4
<1>6. Blocks \subseteq {t} \cup Followers(Runtime, t)
  <2>1. Disconnected = Blocks \ ReachedFrom(Runtime, {t}) BY <1>4 DEF Disconnected
  <2>2. ReachedFrom(Runtime, {t}) = {t} \cup Followers(Runtime, t)
    BY <1>1, <1>5, ReachedFollow
  <2> QED BY <1>2, <2>1, <2>2
<1>7. Followers(Runtime, t) \subseteq Blocks \ {t}
  <2> DEFINE led == {m \in Blocks : kind[m] # "trigger"}
  <2>1. \A s : Targets(Runtime, s) \subseteq led BY <1>1, <1>3 DEF Targets
  <2>2. led \in SUBSET NodeIds /\ led \subseteq Blocks \ {t} BY <1>1, <1>5
  <2> HIDE DEF led
  <2>3. Followers(Runtime, t) \subseteq led BY <1>1, <1>5, <2>1, <2>2, FollowersClose
  <2> QED BY <2>2, <2>3
<1>8. Flows = Runtime BY <1>1, <1>3 DEF Flows
<1>9. ASSUME NEW n \in NodeIds, n \in Followers(Runtime, n) PROVE FALSE
  <2>1. \E e \in Runtime : e.source = n BY <1>1, <1>9, FollowOn
  <2>2. n \in Blocks BY <1>1, <2>1
  <2> QED BY <1>2, <1>9, <2>2, CycleCheck DEF CycleCheckIsRight
<1>10. \E u \in Blocks : triggers = {u} /\ Followers(Runtime, u) = Blocks \ {u}
  <2>1. Followers(Runtime, t) = Blocks \ {t} BY <1>6, <1>7
  <2> QED BY <1>4, <1>5, <2>1
<1> QED BY <1>1, <1>3, <1>8, <1>9, <1>10

(* An approval found before a block is one that leads to it. *)
LEMMA ApprovalLeads ==
  ASSUME GraphInv, NEW es \in SUBSET edges, NEW n \in NodeIds, HasApprovalBefore(es, n)
  PROVE  \E m \in Blocks : kind[m] = "approval" /\ n \in Followers(es, m)
<1>1. es \in SUBSET Edges /\ \A e \in es : e.source \in Blocks BY RuntimeTypes DEF GraphInv
<1>2. PICK m \in Ancestors(es, n) : kind[m] = "approval" BY DEF HasApprovalBefore
<1>3. m \in NodeIds BY <1>1, <1>2, AncestorsClose
<1>4. n \in Followers(es, m) BY <1>1, <1>2, <1>3, AncestorsFollow
<1>5. \E e \in es : e.source = m BY <1>1, <1>3, <1>4, FollowOn
<1> QED BY <1>1, <1>2, <1>4, <1>5

(* What may be published ends, is whole and has its approvals. *)
LEMMA SoundGraph ==
  ASSUME GraphInv PROVE PublishableIsSound
<1> SUFFICES ASSUME CanPublish
             PROVE  /\ \A n \in Blocks : n \notin Followers(Runtime, n)
                    /\ \E first \in Blocks : Followers(Runtime, first) = Blocks \ {first}
                    /\ \A n \in Blocks : kind[n] = "delivery" =>
                         \E m \in Blocks : kind[m] = "approval" /\ n \in Followers(edges, m)
  BY DEF PublishableIsSound
<1>1. Blocks \in SUBSET NodeIds BY RuntimeTypes
<1>2. ASSUME NEW n \in Blocks, kind[n] = "delivery"
      PROVE  \E m \in Blocks : kind[m] = "approval" /\ n \in Followers(edges, m)
  <2>1. HasApprovalBefore(edges, n) BY <1>2 DEF CanPublish
  <2> QED BY <1>1, <2>1, ApprovalLeads
<1> QED BY <1>1, <1>2, Publishable

(* The compiler places every block of what may be published, and each      *)
(* connection forwards: blocks left over would lead to each other, and a   *)
(* cycle among them would have been found.                                 *)
LEMMA InOrder ==
  ASSUME GraphInv, CanPublish, NEW place, place = CompileOrder
  PROVE  /\ \A n \in Blocks : place[n] \in Nat /\ place[n] > 0
         /\ \A e \in Runtime : place[e.source] < place[e.target]
<1> DEFINE N == Cardinality(NodeIds)
           degree == [n \in Blocks |-> Cardinality({e \in Flows : e.target = n})]
           triggers == {n \in Blocks : kind[n] = "trigger"}
           zero == [n \in Blocks |-> 0]
           first == [queue |-> triggers, indegree |-> degree, place |-> zero]
           step == [s \in Placings |-> Place(s)]
           Inv == {p \in Nat \X Placings :
                     /\ Compiling(p[2])
                     /\ p[2].queue = {} \/ Cardinality(Placed(p[2].place)) = p[1]}
           last == Repeat(step, first, N)
<1>1. IsFiniteSet(NodeIds) /\ N \in Nat BY GraphAssumption, FS_CardinalityType
<1>2. IsFiniteSet(edges) /\ edges \in SUBSET Edges BY DEF GraphInv, GraphTypeOK
<1>3. /\ Runtime \in SUBSET Edges /\ Blocks \in SUBSET NodeIds /\ Flows = Runtime
      /\ \A e \in Runtime : e.source \in Blocks /\ e.target \in Blocks /\ kind[e.target] # "trigger"
      /\ \A n \in NodeIds : n \notin Followers(Runtime, n)
  BY RuntimeTypes, Publishable
<1>4. PICK t \in Blocks : triggers = {t} /\ Followers(Runtime, t) = Blocks \ {t}
  BY Publishable
<1>5. /\ \A es \in SUBSET Flows : IsFiniteSet(es) /\ Cardinality(es) \in Nat
      /\ \A ns \in SUBSET Blocks : /\ IsFiniteSet(ns) /\ Cardinality(ns) \in Nat
                                   /\ Cardinality(ns) <= N
  BY <1>2, FlowsFinite
<1>6. place = last.place BY <1>4 DEF CompileOrder
<1>7. <<0, first>> \in Inv
  <2>1. degree \in [Blocks -> Nat] /\ zero \in [Blocks -> Nat]
    <3>1. \A n \in Blocks : {e \in Flows : e.target = n} \in SUBSET Flows OBVIOUS
    <3>2. \A n \in Blocks : Cardinality({e \in Flows : e.target = n}) \in Nat BY <1>5, <3>1
    <3> QED BY <3>2
  <2>2. first \in Placings BY <2>1 DEF Placings
  <2>3. \A n \in Blocks : Waiting(zero, n) = {e \in Flows : e.target = n}
    BY <1>3 DEF Waiting
  <2>4. \A n \in Blocks : degree[n] = Cardinality(Waiting(zero, n)) BY <2>3
  <2>5. Placed(zero) = {} /\ Cardinality(Placed(zero)) = 0
    <3>1. Placed(zero) = {} BY DEF Placed
    <3> QED BY <3>1, FS_EmptySet
  <2>6. \A n \in Blocks : degree[n] = 0 <=> n = t
    <3>1. ASSUME NEW n \in Blocks PROVE degree[n] = 0 <=> {e \in Flows : e.target = n} = {}
      <4>1. {e \in Flows : e.target = n} \in SUBSET Flows OBVIOUS
      <4>2. IsFiniteSet({e \in Flows : e.target = n}) BY <1>5, <4>1
      <4> QED BY <4>2, FS_EmptySet
    <3>2. ASSUME NEW e \in Flows PROVE e.target # t BY <1>3, <1>4
    <3>3. ASSUME NEW n \in Blocks, n # t PROVE \E e \in Flows : e.target = n
      <4>1. n \in Followers(Runtime, t) /\ t \in NodeIds BY <1>3, <1>4, <3>3
      <4> QED BY <1>3, <4>1, FollowOn
    <3> HIDE DEF degree
    <3> QED BY <3>1, <3>2, <3>3
  <2>7. triggers = {m \in Blocks : zero[m] = 0 /\ degree[m] = 0}
    <3> HIDE DEF triggers, degree
    <3> QED BY <1>4, <2>6
  <2>8. first.queue = triggers /\ first.indegree = degree /\ first.place = zero OBVIOUS
  <2>9. \A n \in Blocks : zero[n] = 0 OBVIOUS
  <2>10. \A e \in Flows : ~(zero[e.target] > 0) BY <1>3, <2>9
  <2> HIDE DEF first, triggers, degree, zero
  <2>11. Compiling(first) BY <2>2, <2>4, <2>5, <2>7, <2>8, <2>9, <2>10 DEF Compiling
  <2> QED BY <2>2, <2>5, <2>8, <2>11
<1>8. ASSUME NEW i \in Nat, NEW s, <<i, s>> \in Inv PROVE <<i + 1, step[s]>> \in Inv
  <2>1. /\ s \in Placings /\ Compiling(s)
        /\ s.queue = {} \/ Cardinality(Placed(s.place)) = i
    BY <1>8
  <2>2. step[s] = Place(s) BY <2>1
  <2>3. /\ Compiling(Place(s))
        /\ \/ s.queue = {} /\ Place(s) = s
           \/ /\ s.queue # {}
              /\ Cardinality(Placed(Place(s).place)) = Cardinality(Placed(s.place)) + 1
    BY <1>2, <2>1, PlaceCompiles
  <2>4. Place(s) \in Placings BY <2>3 DEF Compiling
  <2> HIDE DEF step
  <2> QED BY <2>1, <2>2, <2>3, <2>4
<1>9. <<N, last>> \in Inv
  <2> HIDE DEF Inv, step, first, N
  <2> QED BY <1>1, <1>7, <1>8, RepeatInd
<1>10. Compiling(last) /\ (last.queue = {} \/ Cardinality(Placed(last.place)) = N)
  BY <1>9
<1> HIDE DEF last, step, first, Inv
<1>11. /\ last.place \in [Blocks -> Nat] /\ last.indegree \in [Blocks -> Nat]
       /\ last.queue = {m \in Blocks : last.place[m] = 0 /\ last.indegree[m] = 0}
       /\ \A m \in Blocks : last.indegree[m] = Cardinality(Waiting(last.place, m))
       /\ \A e \in Flows : last.place[e.target] > 0 =>
                        last.place[e.source] > 0 /\ last.place[e.source] < last.place[e.target]
  BY <1>10 DEF Compiling, Placings
<1>12. last.queue = {}
  <2>1. SUFFICES ASSUME Cardinality(Placed(last.place)) = N PROVE last.queue = {} BY <1>10
  <2>2. Placed(last.place) \in SUBSET NodeIds BY <1>3 DEF Placed
  <2>3. Placed(last.place) = NodeIds BY <1>1, <2>1, <2>2, FS_Subset
  <2>4. \A m \in Blocks : last.place[m] > 0 BY <1>3, <2>3 DEF Placed
  <2> QED BY <1>11, <2>4
<1>13. \A n \in Blocks : last.place[n] > 0
  <2> DEFINE U == {m \in Blocks : last.place[m] = 0}
  <2>1. SUFFICES ASSUME U # {} PROVE FALSE BY <1>11
  <2>2. ASSUME NEW u \in U PROVE \E e \in Runtime : e.source \in U /\ e.target = u
    <3>1. last.indegree[u] # 0 BY <1>11, <1>12, <2>2
    <3>2. Waiting(last.place, u) # {}
      <4>1. Cardinality(Waiting(last.place, u)) # 0 BY <1>11, <2>2, <3>1
      <4> QED BY <4>1, FS_EmptySet
    <3>3. PICK e \in Flows : e.target = u /\ last.place[e.source] = 0 BY <3>2 DEF Waiting
    <3> QED BY <1>3, <3>3
  <2>3. U \in SUBSET NodeIds BY <1>3
  <2> HIDE DEF U
  <2>4. \E n \in U : n \in Followers(Runtime, n) BY <1>3, <2>1, <2>2, <2>3, LedToWithin
  <2> QED BY <1>3, <2>3, <2>4
<1> QED BY <1>3, <1>6, <1>11, <1>13

(* The compiled flow follows the connections, and its deliveries come      *)
(* after approvals.                                                        *)
LEMMA OrderedGraph ==
  ASSUME GraphInv PROVE CompiledInOrder
<1> DEFINE place == CompileOrder
<1> SUFFICES ASSUME Compiles
             PROVE  /\ \A e \in Runtime : place[e.source] < place[e.target]
                    /\ \A n \in Blocks : kind[n] = "delivery" =>
                         \E m \in Blocks : kind[m] = "approval" /\ place[m] < place[n]
  BY DEF CompiledInOrder
<1>1. CanPublish BY DEF Compiles
<1>2. /\ \A n \in Blocks : place[n] \in Nat /\ place[n] > 0
      /\ \A e \in Runtime : place[e.source] < place[e.target]
  <2>1. place = CompileOrder OBVIOUS
  <2> HIDE DEF place
  <2> QED BY <1>1, <2>1, InOrder
<1>3. /\ Runtime \in SUBSET Edges /\ Runtime \in SUBSET edges /\ Blocks \in SUBSET NodeIds
      /\ \A e \in Runtime : e.source \in Blocks /\ e.target \in Blocks
  BY <1>1, RuntimeTypes, Publishable
<1>4. ASSUME NEW n \in Blocks, kind[n] = "delivery"
      PROVE  \E m \in Blocks : kind[m] = "approval" /\ place[m] < place[n]
  <2>1. HasApprovalBefore(Runtime, n) BY <1>4 DEF Compiles, ApprovedInFlow
  <2>2. PICK m \in Blocks : kind[m] = "approval" /\ n \in Followers(Runtime, m)
    BY <1>3, <2>1, ApprovalLeads
  <2> DEFINE later == {k \in Blocks : place[m] < place[k]}
  <2> HIDE DEF place
  <2>3. Targets(Runtime, {m}) \subseteq later
    <3>1. ASSUME NEW e \in Runtime, e.source = m PROVE e.target \in later BY <1>2, <1>3, <3>1
    <3> HIDE DEF later
    <3> QED BY <3>1, TargetsAndOrigins
  <2>4. Targets(Runtime, later) \subseteq later
    <3>1. ASSUME NEW e \in Runtime, e.source \in later PROVE e.target \in later
      <4>1. e.source \in Blocks /\ e.target \in Blocks /\ place[e.source] < place[e.target]
        BY <1>2, <1>3
      <4>2. place[m] \in Nat /\ place[e.source] \in Nat /\ place[e.target] \in Nat
        BY <1>2, <4>1
      <4> QED BY <3>1, <4>1, <4>2
    <3> HIDE DEF later
    <3> QED BY <3>1, TargetsAndOrigins
  <2>5. later \in SUBSET NodeIds BY <1>3
  <2> HIDE DEF later
  <2>6. Followers(Runtime, m) \subseteq later
    BY <1>3, <2>2, <2>3, <2>4, <2>5, FollowersClose
  <2> QED BY <2>2, <2>6 DEF later
<1> QED BY <1>2, <1>4

(* What may be published, its approvals in the flow, compiles. *)
LEMMA CompilingGraph ==
  ASSUME GraphInv PROVE PublishableCompiles
<1> SUFFICES ASSUME CanPublish, \A n \in Blocks : kind[n] = "delivery" => ApprovedInFlow(n)
             PROVE  Compiles
  BY DEF PublishableCompiles
<1>1. \A n \in Blocks : CompileOrder[n] > 0 BY InOrder
<1> QED BY <1>1 DEF Compiles

-----------------------------------------------------------------------------
(* The operations keep the invariant. *)

Handles == {"main_output", "approved", "rejected", "sent"}

(* The invariant, conjunct by conjunct, of any kinds, edges and patches. *)
GraphIs(kinds, shapes, es, count) ==
  /\ count \in 0 .. MaxPatches
  /\ kinds \in [NodeIds -> Kinds \cup {NoBlock}]
  /\ shapes \in [NodeIds -> Kinds \cup {NoBlock}]
  /\ \A n \in NodeIds : shapes[n] = NoBlock <=> kinds[n] = NoBlock
  /\ count = 0 => shapes = kinds
  /\ es \in SUBSET Edges /\ IsFiniteSet(es) /\ Cardinality(es) <= MaxEdges
  /\ \A e \in es : kinds[e.source] # NoBlock
  /\ count = 0 => \A e \in es : kinds[e.target] # NoBlock /\ e.handle \in Outputs[shapes[e.source]]

(* It is the invariant, now and after a step. *)
LEMMA GraphInvIs == /\ GraphInv <=> GraphIs(kind, shape, edges, patches)
                    /\ GraphInv' <=> GraphIs(kind', shape', edges', patches')
<1>1. \A es \in SUBSET Edges : \A e \in es : e.source \in NodeIds /\ e.target \in NodeIds
  BY DEF Edges
<1>2. GraphInv <=> GraphIs(kind, shape, edges, patches)
  BY <1>1 DEF GraphInv, GraphTypeOK, GraphIs, Blocks
<1>3. GraphInv' <=> GraphIs(kind', shape', edges', patches')
  BY <1>1 DEF GraphInv, GraphTypeOK, GraphIs, Blocks
<1> QED BY <1>2, <1>3

(* What an output is: one of the handles, the wanted one where the block   *)
(* has it, and one the block has unless it has none.                       *)
LEMMA OutputTypes ==
  ASSUME NEW k \in Kinds, NEW wanted \in Handles
  PROVE  /\ Outputs[k] \subseteq Handles
         /\ OutputOf(k, wanted) \in Handles
         /\ wanted \in Outputs[k] => OutputOf(k, wanted) = wanted
         /\ k # "end" => OutputOf(k, wanted) \in Outputs[k]
<1>1. Outputs[k] \subseteq Handles /\ (k # "end" => Outputs[k] # {})
  BY DEF Kinds, Outputs, Handles
<1>2. k = "approval" => "approved" \in Outputs[k] BY DEF Outputs
<1>3. CASE wanted \in Outputs[k] \/ Outputs[k] = {}
  <2>1. OutputOf(k, wanted) = wanted BY <1>1, <1>3 DEF OutputOf
  <2> QED BY <1>1, <1>3, <2>1
<1>4. CASE wanted \notin Outputs[k] /\ Outputs[k] # {} /\ k = "approval"
  <2>1. OutputOf(k, wanted) = "approved" BY <1>4 DEF OutputOf
  <2> QED BY <1>1, <1>2, <1>4, <2>1
<1>5. CASE wanted \notin Outputs[k] /\ Outputs[k] # {} /\ k # "approval"
  <2>1. OutputOf(k, wanted) = CHOOSE handle \in Outputs[k] : TRUE BY <1>5 DEF OutputOf
  <2>2. OutputOf(k, wanted) \in Outputs[k] BY <1>5, <2>1
  <2> QED BY <1>1, <1>5, <2>2
<1> QED BY <1>3, <1>4, <1>5

(* A new connection is one: ids of blocks, a handle and its flow. *)
LEMMA EdgeTypes ==
  ASSUME NEW n \in NodeIds, NEW m \in NodeIds, NEW handle \in Handles
  PROVE  /\ Edge(n, handle, m) \in Edges /\ Edge(n, handle, m).source = n
         /\ Edge(n, handle, m).target = m /\ Edge(n, handle, m).handle = handle
<1>1. FlowOf(handle) \in {"control_flow", "approval_flow", "data_flow"} BY DEF FlowOf
<1> QED BY <1>1 DEF Edge, Edges, Handles

(* The graph of a new draft. *)
LEMMA GraphStarts == ASSUME GraphInit PROVE GraphInv
<1> DEFINE e == Edge(Start, "main_output", Finish)
<1>1. /\ Start \in NodeIds /\ Finish \in NodeIds /\ Start # Finish /\ NoBlock \notin NodeIds
      /\ NoBlock \notin Kinds /\ MaxEdges \in Nat \ {0} /\ MaxPatches \in Nat
  BY GraphAssumption
<1>2. /\ e \in Edges /\ e.source = Start /\ e.target = Finish /\ e.handle = "main_output"
  BY <1>1, EdgeTypes DEF Handles
<1>3. \A n \in NodeIds : (CASE n = Start -> "trigger" [] n = Finish -> "end"
                            [] OTHER -> NoBlock) \in Kinds \cup {NoBlock}
  <2>1. {"trigger", "end"} \subseteq Kinds BY DEF Kinds
  <2> QED BY <2>1
<1>4. kind \in [NodeIds -> Kinds \cup {NoBlock}] BY <1>3 DEF GraphInit
<1>5. kind[Start] = "trigger" /\ kind[Finish] = "end" BY <1>1 DEF GraphInit
<1>6. "trigger" # NoBlock /\ "end" # NoBlock BY <1>1 DEF Kinds
<1>7. edges = {e} /\ IsFiniteSet({e}) /\ Cardinality({e}) = 1
  BY FS_Singleton DEF GraphInit
<1>8. patches \in 0 .. MaxPatches BY <1>1 DEF GraphInit
<1>9. "main_output" \in Outputs["trigger"] BY DEF Outputs
<1> HIDE DEF e
<1>10. Cardinality(edges) <= MaxEdges BY <1>1, <1>7
<1>11. GraphIs(kind, shape, edges, patches)
  <2>1. shape = kind BY DEF GraphInit
  <2> QED BY <1>2, <1>4, <1>5, <1>6, <1>7, <1>8, <1>9, <1>10, <2>1 DEF GraphIs
<1> QED BY <1>11, GraphInvIs

(* Another kind for a block leaves the others as they are. *)
LEMMA KindChanges ==
  ASSUME NEW n \in NodeIds, NEW k, GraphInv, kind' = [kind EXCEPT ![n] = k]
  PROVE  /\ k \in Kinds \cup {NoBlock} => kind' \in [NodeIds -> Kinds \cup {NoBlock}]
         /\ \A m \in NodeIds : kind'[m] = IF m = n THEN k ELSE kind[m]
BY DEF GraphInv, GraphTypeOK

(* So does another code. *)
LEMMA ShapeChanges ==
  ASSUME NEW n \in NodeIds, NEW k, GraphInv, shape' = [shape EXCEPT ![n] = k]
  PROVE  /\ k \in Kinds \cup {NoBlock} => shape' \in [NodeIds -> Kinds \cup {NoBlock}]
         /\ \A m \in NodeIds : shape'[m] = IF m = n THEN k ELSE shape[m]
BY DEF GraphInv, GraphTypeOK

(* A block more. *)
LEMMA AddNodeKeeps ==
  ASSUME NEW n \in NodeIds, NEW k \in Kinds, GraphInv, AddNode(n, k) PROVE GraphInv'
<1>1. GraphIs(kind, shape, edges, patches) BY GraphInvIs
<1>2. kind[n] = NoBlock /\ edges' = edges /\ patches' = patches BY DEF AddNode
<1>3. /\ kind' \in [NodeIds -> Kinds \cup {NoBlock}]
      /\ \A m \in NodeIds : kind'[m] = IF m = n THEN k ELSE kind[m]
  BY KindChanges DEF AddNode
<1>8. /\ shape' \in [NodeIds -> Kinds \cup {NoBlock}]
      /\ \A m \in NodeIds : shape'[m] = IF m = n THEN k ELSE shape[m]
  BY ShapeChanges DEF AddNode
<1>9. patches = 0 => shape' = kind' BY <1>1 DEF GraphIs, AddNode
<1>4. k # NoBlock BY GraphAssumption
<1>5. \A e \in edges : e.source \in NodeIds /\ e.target \in NodeIds BY <1>1 DEF GraphIs, Edges
<1>6. \A e \in edges : e.source # n /\ kind'[e.source] = kind[e.source]
  BY <1>1, <1>2, <1>3, <1>5 DEF GraphIs
<1>7. GraphIs(kind', shape', edges, patches)
  BY <1>1, <1>3, <1>4, <1>5, <1>6, <1>8, <1>9 DEF GraphIs
<1> QED BY <1>2, <1>7, GraphInvIs

(* A block patched. *)
LEMMA UpdateNodeKeeps ==
  ASSUME NEW n \in NodeIds, NEW k \in Kinds, GraphInv, UpdateNode(n, k) PROVE GraphInv'
<1>1. GraphIs(kind, shape, edges, patches) BY GraphInvIs
<1>2. edges' = edges /\ patches' = patches + 1 /\ patches < MaxPatches BY DEF UpdateNode
<1>3. /\ kind' \in [NodeIds -> Kinds \cup {NoBlock}]
      /\ \A m \in NodeIds : kind'[m] = NoBlock <=> kind[m] = NoBlock
  <2>1. CASE kind' = kind BY <1>1, <2>1 DEF GraphIs
  <2>2. CASE kind' = [kind EXCEPT ![n] = k]
    <3>1. /\ kind' \in [NodeIds -> Kinds \cup {NoBlock}]
          /\ \A m \in NodeIds : kind'[m] = IF m = n THEN k ELSE kind[m]
      BY <2>2, KindChanges
    <3>2. k # NoBlock /\ kind[n] # NoBlock BY GraphAssumption DEF UpdateNode, Blocks
    <3> QED BY <3>1, <3>2
  <2> QED BY <2>1, <2>2 DEF UpdateNode
<1>8. /\ shape' \in [NodeIds -> Kinds \cup {NoBlock}]
      /\ \A m \in NodeIds : shape'[m] = NoBlock <=> shape[m] = NoBlock
  <2>1. CASE shape' = shape BY <1>1, <2>1 DEF GraphIs
  <2>2. CASE shape' = [shape EXCEPT ![n] = k]
    <3>1. /\ shape' \in [NodeIds -> Kinds \cup {NoBlock}]
          /\ \A m \in NodeIds : shape'[m] = IF m = n THEN k ELSE shape[m]
      BY <2>2, ShapeChanges
    <3>2. k # NoBlock /\ kind[n] # NoBlock BY GraphAssumption DEF UpdateNode, Blocks
    <3>3. shape[n] # NoBlock BY <1>1, <3>2 DEF GraphIs
    <3> QED BY <3>1, <3>2, <3>3
  <2> QED BY <2>1, <2>2 DEF UpdateNode
<1>4. MaxPatches \in Nat BY GraphAssumption
<1>5. \A e \in edges : e.source \in NodeIds BY <1>1 DEF GraphIs, Edges
<1>6. patches' \in 0 .. MaxPatches /\ patches' # 0 BY <1>1, <1>2, <1>4 DEF GraphIs
<1>7. GraphIs(kind', shape', edges, patches')
  BY <1>1, <1>3, <1>5, <1>6, <1>8 DEF GraphIs
<1> QED BY <1>2, <1>7, GraphInvIs

(* A block less, and its connections. *)
LEMMA DeleteNodeKeeps ==
  ASSUME NEW n \in NodeIds, GraphInv, DeleteNode(n) PROVE GraphInv'
<1>1. GraphIs(kind, shape, edges, patches) BY GraphInvIs
<1>2. edges' = {e \in edges : n \notin {e.source, e.target}} /\ patches' = patches
  BY DEF DeleteNode
<1>3. /\ kind' \in [NodeIds -> Kinds \cup {NoBlock}]
      /\ \A m \in NodeIds : kind'[m] = IF m = n THEN NoBlock ELSE kind[m]
  BY KindChanges DEF DeleteNode
<1>8. /\ shape' \in [NodeIds -> Kinds \cup {NoBlock}]
      /\ \A m \in NodeIds : shape'[m] = IF m = n THEN NoBlock ELSE shape[m]
  BY ShapeChanges DEF DeleteNode
<1>9. patches = 0 => shape' = kind' BY <1>1 DEF GraphIs, DeleteNode
<1>4. \A e \in edges' : e \in edges /\ e.source # n /\ e.target # n BY <1>2
<1>5. \A e \in edges : e.source \in NodeIds /\ e.target \in NodeIds BY <1>1 DEF GraphIs, Edges
<1>6. IsFiniteSet(edges') /\ Cardinality(edges') <= MaxEdges
  <2>1. edges' \in SUBSET edges /\ IsFiniteSet(edges) /\ Cardinality(edges) <= MaxEdges
    BY <1>1, <1>4 DEF GraphIs
  <2>2. IsFiniteSet(edges') /\ Cardinality(edges') <= Cardinality(edges) BY <2>1, FS_Subset
  <2>3. Cardinality(edges') \in Nat /\ Cardinality(edges) \in Nat
    BY <2>1, <2>2, FS_CardinalityType
  <2> QED BY <2>1, <2>2, <2>3, GraphAssumption
<1>7. GraphIs(kind', shape', edges', patches)
  BY <1>1, <1>3, <1>4, <1>5, <1>6, <1>8, <1>9 DEF GraphIs
<1> QED BY <1>2, <1>7, GraphInvIs

(* A connection more, after the checks. *)
LEMMA AddEdgeKeeps ==
  ASSUME NEW e \in Edges, GraphInv, AddEdge(e) PROVE GraphInv'
<1>1. GraphIs(kind, shape, edges, patches) BY GraphInvIs
<1>2. /\ kind' = kind /\ shape' = shape /\ patches' = patches /\ edges' = edges \cup {e} /\ e \notin edges
      /\ Cardinality(edges) < MaxEdges /\ MayAddEdge(e)
  BY DEF AddEdge
<1>3. /\ kind[e.source] # NoBlock /\ kind[e.target] # NoBlock
      /\ e.handle \in Outputs[shape[e.source]]
  BY <1>2 DEF MayAddEdge, Connects, Blocks
<1>4. IsFiniteSet(edges') /\ Cardinality(edges') <= MaxEdges
  <2>1. IsFiniteSet(edges) /\ Cardinality(edges) \in Nat BY <1>1, FS_CardinalityType DEF GraphIs
  <2>2. IsFiniteSet(edges') /\ Cardinality(edges') = Cardinality(edges) + 1
    BY <1>2, <2>1, FS_AddElement
  <2> QED BY <1>2, <2>1, <2>2, GraphAssumption
<1>5. GraphIs(kind, shape, edges', patches) BY <1>1, <1>2, <1>3, <1>4 DEF GraphIs
<1> QED BY <1>2, <1>5, GraphInvIs

(* A connection less. *)
LEMMA DeleteEdgeKeeps ==
  ASSUME NEW e \in edges, GraphInv, DeleteEdge(e) PROVE GraphInv'
<1>1. GraphIs(kind, shape, edges, patches) BY GraphInvIs
<1>2. kind' = kind /\ shape' = shape /\ patches' = patches /\ edges' = edges \ {e}
  BY DEF DeleteEdge
<1>3. IsFiniteSet(edges') /\ Cardinality(edges') <= MaxEdges
  <2>1. edges' \in SUBSET edges /\ IsFiniteSet(edges) /\ Cardinality(edges) <= MaxEdges
    BY <1>1, <1>2 DEF GraphIs
  <2>2. IsFiniteSet(edges') /\ Cardinality(edges') <= Cardinality(edges) BY <2>1, FS_Subset
  <2>3. Cardinality(edges') \in Nat /\ Cardinality(edges) \in Nat
    BY <2>1, <2>2, FS_CardinalityType
  <2> QED BY <2>1, <2>2, <2>3, GraphAssumption
<1>4. GraphIs(kind, shape, edges', patches) BY <1>1, <1>2, <1>3 DEF GraphIs
<1> QED BY <1>2, <1>4, GraphInvIs

(* A connection patched: its source stays. *)
LEMMA UpdateEdgeKeeps ==
  ASSUME NEW e \in edges, GraphInv, UpdateEdge(e) PROVE GraphInv'
<1>1. GraphIs(kind, shape, edges, patches) BY GraphInvIs
<1>2. PICK patched \in Patched(e) :
        /\ kind' = kind /\ shape' = shape /\ patches' = patches + 1 /\ patches < MaxPatches
        /\ edges' = (edges \ {e}) \cup {patched}
  BY DEF UpdateEdge
<1>3. patched \in Edges /\ patched.source = e.source
  <2>1. e \in Edges BY <1>1 DEF GraphIs
  <2>2. CASE patched = [e EXCEPT !.flow = "data_flow"] BY <2>1, <2>2 DEF Edges
  <2>3. ASSUME NEW m \in NodeIds, patched = [e EXCEPT !.target = m]
        PROVE  patched \in Edges /\ patched.source = e.source
    BY <2>1, <2>3 DEF Edges
  <2> QED BY <1>2, <2>2, <2>3 DEF Patched
<1>4. patches' \in 0 .. MaxPatches /\ patches' # 0 BY <1>1, <1>2, GraphAssumption DEF GraphIs
<1>5. IsFiniteSet(edges') /\ Cardinality(edges') <= MaxEdges
  <2> DEFINE rest == edges \ {e}
  <2>1. IsFiniteSet(edges) /\ Cardinality(edges) \in Nat /\ Cardinality(edges) <= MaxEdges
    BY <1>1, FS_CardinalityType DEF GraphIs
  <2>2. IsFiniteSet(rest) /\ Cardinality(rest) = Cardinality(edges) - 1 BY <2>1, FS_RemoveElement
  <2>3. edges' = rest \cup {patched} BY <1>2
  <2> HIDE DEF rest
  <2>4. IsFiniteSet(edges') /\ (Cardinality(edges') = Cardinality(rest)
                                 \/ Cardinality(edges') = Cardinality(rest) + 1)
    BY <2>2, <2>3, FS_AddElement
  <2> QED BY <2>1, <2>2, <2>4, GraphAssumption
<1>6. \A f \in edges' : f \in Edges /\ kind[f.source] # NoBlock
  BY <1>1, <1>2, <1>3 DEF GraphIs
<1>7. GraphIs(kind, shape, edges', patches') BY <1>1, <1>4, <1>5, <1>6 DEF GraphIs
<1> QED BY <1>2, <1>7, GraphInvIs

(* A module inserted, with up to two connections: what it follows is named  *)
(* by the request, by a connection taken out, or the last block there is.  *)
LEMMA InsertModuleKeeps ==
  ASSUME NEW n \in NodeIds, NEW k \in Kinds, NEW after \in Blocks \cup {NoBlock},
         NEW before \in Blocks \cup {NoBlock}, GraphInv, InsertModule(n, k, after, before)
  PROVE  GraphInv'
<1>1. GraphIs(kind, shape, edges, patches) BY GraphInvIs
<1>2. /\ kind[n] = NoBlock /\ k \in KindsFor(n) \ {"trigger", "end"}
      /\ kind' = [kind EXCEPT ![n] = k] /\ shape' = [shape EXCEPT ![n] = k]
      /\ Cardinality(edges') <= MaxEdges /\ patches' = patches
  BY DEF InsertModule
<1>3. PICK o \in Openings(k, after, before) :
       edges' = (edges \ o.taken)
                  \cup {Edge(m, OutputOf(shape[m], o.handle), n) : m \in {o.source} \ {NoBlock}}
                  \cup {Edge(n, OutputOf(k, "main_output"), m) : m \in {before} \ {NoBlock}}
  BY DEF InsertModule
<1> DEFINE taken == o.taken
           source == o.source
           handle == o.handle
<1>4. after # NoBlock => source = after /\ handle \in Outputs[shape[after]]
  <2>1. ASSUME after # NoBlock PROVE o \in OpeningsAfter(k, after, before)
    BY <1>3, <2>1 DEF Openings
  <2>2. ASSUME after # NoBlock
        PROVE  \E t : \E h \in Outputs[shape[after]] : o = Opening(t, after, h)
    <3> DEFINE incoming == {e \in edges : e.target = before}
               takens == OneOf({e \in incoming : e.source = after})
                           \cup (IF AtEnd(before) THEN OneOf(incoming) ELSE {})
               handles == {h \in Outputs[shape[after]] :
                             Connects(shape[after], h, k, "control_flow",
                                      HasApprovalBefore(edges, after))}
    <3>1. o \in {Opening(t, after, h) : t \in takens, h \in handles}
      BY <2>1, <2>2 DEF OpeningsAfter
    <3>2. handles \in SUBSET Outputs[shape[after]] OBVIOUS
    <3> HIDE DEF takens, handles
    <3> QED BY <3>1, <3>2
  <2> QED BY <2>2 DEF Opening
<1>5. after = NoBlock => \/ source = NoBlock /\ handle = "main_output"
                         \/ \E e \in edges : source = e.source /\ handle = e.handle
                         \/ source \in Blocks /\ kind[source] # "end" /\ handle = "main_output"
  <2>1. ASSUME after = NoBlock PROVE o \in OpeningsBefore(before) BY <1>3, <2>1 DEF Openings
  <2> DEFINE incoming == {e \in edges : e.target = before}
             last == {m \in Blocks : AtEnd(before) /\ incoming = {} /\ kind[m] # "end"}
  <2>2. ASSUME after = NoBlock
        PROVE  \/ o = Opening({}, NoBlock, "main_output")
               \/ \E e \in incoming : o = Opening({e}, e.source, e.handle)
               \/ \E m \in last : o = Opening({}, m, "main_output")
    BY <2>1, <2>2 DEF OpeningsBefore
  <2>3. CASE o = Opening({}, NoBlock, "main_output") BY <2>3 DEF Opening
  <2>4. ASSUME NEW e \in incoming, o = Opening({e}, e.source, e.handle)
        PROVE  e \in edges /\ source = e.source /\ handle = e.handle
    BY <2>4 DEF Opening
  <2>5. ASSUME NEW m \in last, o = Opening({}, m, "main_output")
        PROVE  source \in Blocks /\ kind[source] # "end" /\ handle = "main_output"
    <3>1. m \in Blocks /\ kind[m] # "end" OBVIOUS
    <3>2. source = m /\ handle = "main_output" BY <2>5 DEF Opening
    <3> HIDE DEF source, handle
    <3> QED BY <3>1, <3>2
  <2> HIDE DEF incoming, last, source, handle
  <2> QED BY <2>2, <2>3, <2>4, <2>5
<1>6. NoBlock \notin NodeIds /\ NoBlock \notin Kinds BY GraphAssumption
<1>7. k \in {"legal_action", "approval", "delivery"} /\ k # NoBlock BY <1>2, <1>6 DEF Kinds
<1>8. /\ kind' \in [NodeIds -> Kinds \cup {NoBlock}]
      /\ \A m \in NodeIds : kind'[m] = IF m = n THEN k ELSE kind[m]
  BY <1>2, KindChanges
<1>9. /\ shape' \in [NodeIds -> Kinds \cup {NoBlock}]
      /\ \A m \in NodeIds : shape'[m] = IF m = n THEN k ELSE shape[m]
  BY <1>2, ShapeChanges
<1>10. patches = 0 => shape' = kind' BY <1>1, <1>2 DEF GraphIs
<1>11. \A e \in edges : /\ e.source \in NodeIds /\ e.target \in NodeIds
                        /\ kind[e.source] # NoBlock /\ e.source # n
                        /\ shape[e.source] \in Kinds
  BY <1>1, <1>2 DEF GraphIs, Edges
<1>12. \A m \in Blocks : m \in NodeIds /\ shape[m] \in Kinds /\ kind[m] # NoBlock /\ m # n
  BY <1>1, <1>2 DEF Blocks, GraphIs
<1>13. handle \in Handles
  <2>1. \A j \in Kinds : Outputs[j] \subseteq Handles BY DEF Outputs, Kinds, Handles
  <2>2. \A e \in edges : e.handle \in Handles BY <1>1 DEF GraphIs, Edges, Handles
  <2>3. "main_output" \in Handles BY DEF Handles
  <2>4. after # NoBlock => shape[after] \in Kinds BY <1>12
  <2> HIDE DEF handle, source
  <2> QED BY <1>4, <1>5, <2>1, <2>2, <2>3, <2>4
<1>14. source # NoBlock => /\ source \in NodeIds /\ shape[source] \in Kinds /\ source # n
                           /\ kind[source] # NoBlock
                           /\ patches = 0 => shape[source] # "end"
  <2>1. Outputs["end"] = {} BY DEF Outputs
  <2>2. CASE source = NoBlock BY <2>2
  <2>3. ASSUME NEW e \in edges, source = e.source PROVE patches = 0 => shape[source] # "end"
    <3>1. patches = 0 => e.handle \in Outputs[shape[e.source]] BY <1>1 DEF GraphIs
    <3> QED BY <2>1, <2>3, <3>1
  <2>4. CASE \E e \in edges : source = e.source BY <1>11, <2>3, <2>4
  <2>5. CASE source \in Blocks /\ kind[source] # "end"
    <3>1. patches = 0 => shape = kind BY <1>1 DEF GraphIs
    <3> QED BY <1>12, <2>5, <3>1
  <2>6. CASE after # NoBlock
    <3>1. source = after /\ handle \in Outputs[shape[after]] /\ after \in Blocks BY <1>4, <2>6
    <3> QED BY <1>12, <2>1, <3>1
  <2> QED BY <1>5, <2>2, <2>4, <2>5, <2>6
<1>15. before # NoBlock => before \in NodeIds /\ kind[before] # NoBlock /\ before # n BY <1>12
<1>16. edges' = (edges \ taken)
                  \cup {Edge(m, OutputOf(shape[m], handle), n) : m \in {source} \ {NoBlock}}
                  \cup {Edge(n, OutputOf(k, "main_output"), m) : m \in {before} \ {NoBlock}}
  BY <1>3
<1> HIDE DEF taken, source, handle
<1> DEFINE x == Edge(source, OutputOf(shape[source], handle), n)
           y == Edge(n, OutputOf(k, "main_output"), before)
           xs == {Edge(m, OutputOf(shape[m], handle), n) : m \in {source} \ {NoBlock}}
           ys == {Edge(n, OutputOf(k, "main_output"), m) : m \in {before} \ {NoBlock}}
<1>17. /\ \A e \in xs : e = x /\ source # NoBlock
       /\ \A e \in ys : e = y /\ before # NoBlock
  OBVIOUS
<1>18. edges' = (edges \ taken) \cup xs \cup ys BY <1>16
<1>19. source # NoBlock => /\ x \in Edges /\ x.source = source /\ x.target = n
                           /\ patches = 0 => x.handle \in Outputs[shape[source]]
  <2>1. ASSUME source # NoBlock
        PROVE  /\ OutputOf(shape[source], handle) \in Handles
               /\ shape[source] # "end" => OutputOf(shape[source], handle) \in Outputs[shape[source]]
    BY <1>13, <1>14, <2>1, OutputTypes
  <2>2. ASSUME source # NoBlock
        PROVE  /\ x \in Edges /\ x.source = source /\ x.target = n
               /\ x.handle = OutputOf(shape[source], handle)
    BY <1>14, <2>1, <2>2, EdgeTypes
  <2> HIDE DEF x
  <2> QED BY <1>14, <2>1, <2>2
<1>20. before # NoBlock => /\ y \in Edges /\ y.source = n /\ y.target = before
                           /\ y.handle \in Outputs[k]
  <2>1. OutputOf(k, "main_output") \in Handles /\ OutputOf(k, "main_output") \in Outputs[k]
    <3>1. "main_output" \in Handles BY DEF Handles
    <3> QED BY <1>7, <3>1, OutputTypes
  <2> QED BY <1>15, <2>1, EdgeTypes
<1>21. IsFiniteSet(edges')
  <2>1. xs \in SUBSET {x} /\ ys \in SUBSET {y} BY <1>17
  <2> HIDE DEF xs, ys, x, y
  <2>2. IsFiniteSet(xs) /\ IsFiniteSet(ys) BY <2>1, FS_Singleton, FS_Subset
  <2>3. IsFiniteSet(edges \ taken)
    <3>1. edges \ taken \in SUBSET edges OBVIOUS
    <3> QED BY <1>1, <3>1, FS_Subset DEF GraphIs
  <2>4. IsFiniteSet((edges \ taken) \cup xs) BY <2>2, <2>3, FS_Union
  <2> QED BY <1>18, <2>2, <2>4, FS_Union
<1> HIDE DEF xs, ys, x, y
<1>22. ASSUME NEW e \in edges'
       PROVE  /\ e \in Edges /\ kind'[e.source] # NoBlock
              /\ patches = 0 => kind'[e.target] # NoBlock /\ e.handle \in Outputs[shape'[e.source]]
  <2>1. CASE e \in edges
    <3>1. /\ e.source \in NodeIds /\ e.target \in NodeIds /\ e.source # n
          /\ kind[e.source] # NoBlock /\ e \in Edges
      BY <1>1, <1>11, <2>1 DEF GraphIs
    <3>2. patches = 0 => kind[e.target] # NoBlock /\ e.handle \in Outputs[shape[e.source]]
      BY <1>1, <2>1 DEF GraphIs
    <3> QED BY <1>7, <1>8, <1>9, <3>1, <3>2
  <2>2. CASE e \in xs
    <3>1. e = x /\ source # NoBlock BY <1>17, <2>2
    <3>2. /\ kind'[source] = kind[source] /\ kind'[n] = k /\ kind[source] # NoBlock
          /\ shape'[source] = shape[source]
      BY <1>8, <1>14, <1>9, <3>1
    <3> QED BY <1>7, <1>19, <3>1, <3>2
  <2>3. CASE e \in ys
    <3>1. e = y /\ before # NoBlock BY <1>17, <2>3
    <3>2. kind'[before] = kind[before] /\ kind'[n] = k /\ shape'[n] = k
      BY <1>8, <1>15, <1>9, <3>1
    <3> QED BY <1>7, <1>15, <1>20, <3>1, <3>2
  <2> QED BY <1>18, <2>1, <2>2, <2>3
<1>23. GraphIs(kind', shape', edges', patches)
  BY <1>1, <1>2, <1>6, <1>7, <1>8, <1>21, <1>22, <1>9, <1>10 DEF GraphIs
<1> QED BY <1>2, <1>23, GraphInvIs

(* Every operation keeps the invariant. *)
LEMMA GraphKeeps == ASSUME GraphInv, [GraphNext]_graphTables PROVE GraphInv'
<1>1. CASE UNCHANGED graphTables
  <2>1. kind' = kind /\ shape' = shape /\ edges' = edges /\ patches' = patches
    BY <1>1 DEF graphTables
  <2> QED BY <2>1, GraphInvIs
<1>2. ASSUME NEW n \in NodeIds, NEW k \in Kinds, AddNode(n, k) \/ UpdateNode(n, k) PROVE GraphInv'
  BY <1>2, AddNodeKeeps, UpdateNodeKeeps
<1>3. ASSUME NEW n \in NodeIds, DeleteNode(n) PROVE GraphInv' BY <1>3, DeleteNodeKeeps
<1>4. ASSUME NEW e \in Edges, AddEdge(e) PROVE GraphInv' BY <1>4, AddEdgeKeeps
<1>5. ASSUME NEW e \in edges, DeleteEdge(e) PROVE GraphInv' BY <1>5, DeleteEdgeKeeps
<1>6. ASSUME NEW e \in edges, UpdateEdge(e) PROVE GraphInv' BY <1>6, UpdateEdgeKeeps
<1>7. ASSUME NEW n \in NodeIds, NEW k \in Kinds, NEW after \in Blocks \cup {NoBlock},
             NEW before \in Blocks \cup {NoBlock}, InsertModule(n, k, after, before)
      PROVE  GraphInv'
  BY <1>7, InsertModuleKeeps
<1> QED BY <1>1, <1>2, <1>3, <1>4, <1>5, <1>6, <1>7 DEF GraphNext

(* The types of a graph, in every behaviour of the operations. *)
THEOREM GraphTypes == GraphSpec => []GraphTypeOK
<1>1. GraphInit => GraphInv BY GraphStarts
<1>2. GraphInv /\ [GraphNext]_graphTables => GraphInv' BY GraphKeeps
<1>3. GraphInv => GraphTypeOK BY DEF GraphInv
<1> QED BY <1>1, <1>2, <1>3, PTL DEF GraphSpec

(* Whatever was added, patched, inserted and deleted: the search for       *)
(* cycles is right, what may be published is sound, and what compiles is   *)
(* in order and compiles whenever it may be published.                     *)
THEOREM GraphChecks ==
  GraphSpec => [](CycleCheckIsRight /\ PublishableIsSound /\ CompiledInOrder /\ PublishableCompiles)
<1>1. GraphInit => GraphInv BY GraphStarts
<1>2. GraphInv /\ [GraphNext]_graphTables => GraphInv' BY GraphKeeps
<1>3. GraphInv => CycleCheckIsRight /\ PublishableIsSound /\ CompiledInOrder /\ PublishableCompiles
  BY CycleCheck, SoundGraph, OrderedGraph, CompilingGraph
<1> QED BY <1>1, <1>2, <1>3, PTL DEF GraphSpec

===============================================================================
