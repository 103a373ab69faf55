---------------------------- MODULE WorkflowGraph ----------------------------
(* The workflow a canvas draft holds, as a graph: the operations of        *)
(* CanvasOperationService.applySingleOperation on blocks and connections,  *)
(* and the checks CanvasValidationService makes on the result before it    *)
(* may be published.  Five kinds of block stand for the catalogue; error   *)
(* outputs, branches, loops and merges, input bindings and duplicate ids   *)
(* are left out.                                                           *)
EXTENDS Naturals, Sequences, FiniteSets, FiniteSetsExt

CONSTANTS NodeIds,   \* ids of the blocks
          Start, Finish, \* the two blocks of a new draft; bound: only patches give
                     \* the other ids a trigger or an end, or these another kind
          NoBlock,   \* an id no block has, or a missing end of an insertion
          MaxEdges,  \* bound on the number of connections
          MaxPatches \* bound on the patches made to blocks and connections

Kinds == {"trigger", "legal_action", "approval", "delivery", "end"}

ASSUME GraphAssumption == /\ IsFiniteSet(NodeIds)
                          /\ Start \in NodeIds /\ Finish \in NodeIds \ {Start}
                          /\ NoBlock \notin NodeIds \cup Kinds
                          /\ MaxEdges \in Nat \ {0} /\ MaxPatches \in Nat

VARIABLES kind,   \* what block an id has: its type
          shape,  \* its block_code and handles, as those of a kind of block
          edges,  \* workflow.edges
          patches \* history: patches made so far

graphTables == <<kind, shape, edges, patches>>

KindsFor(n) == CASE n = Start -> {"trigger"} [] n = Finish -> {"end"}
                 [] OTHER -> Kinds \ {"trigger", "end"}

(* The handles a block of each kind offers, and the type of their edges.   *)
Outputs == [trigger |-> {"main_output"}, legal_action |-> {"main_output"},
            approval |-> {"approved", "rejected"}, delivery |-> {"sent"}, end |-> {}]
TakesInput(k) == k # "trigger"
FlowOf(handle) == IF handle \in {"approved", "rejected"} THEN "approval_flow"
                                                          ELSE "control_flow"

Edges == [source : NodeIds, handle : {"main_output", "approved", "rejected", "sent"},
          target : NodeIds, flow : {"control_flow", "approval_flow", "data_flow"}]
Edge(n, handle, m) == [source |-> n, handle |-> handle, target |-> m, flow |-> FlowOf(handle)]

Blocks == {n \in NodeIds : kind[n] # NoBlock}
Runtime == {e \in edges : e.flow # "data_flow"}

-----------------------------------------------------------------------------
(* The searches of the code, as it makes them: a number of steps that is   *)
(* enough for each, the last ones of which may find nothing more to do.    *)
Repeat(step, first, n) ==
  LET after[i \in 0 .. n] == IF i = 0 THEN first ELSE step[after[i - 1]]
  IN after[n]

Targets(es, from) == {e.target : e \in {f \in es : f.source \in from}}
Origins(es, to) == {e.source : e \in {f \in es : f.target \in to}}

(* hasApprovalBefore: an approval among the ancestors, whatever the edges  *)
(* in between; an edge of data counts.                                     *)
Ancestors(es, n) ==
  Repeat([found \in SUBSET NodeIds |-> found \cup Origins(es, found)],
         Origins(es, {n}), Cardinality(NodeIds))
HasApprovalBefore(es, n) == \E m \in Ancestors(es, n) : kind[m] = "approval"

(* hasUnsupportedCycle: a search in depth.  The path has the blocks whose  *)
(* visit has not returned.                                                 *)
Searches == [path : Seq(NodeIds), visiting : SUBSET NodeIds, visited : SUBSET NodeIds,
             cycle : BOOLEAN]
Enter(s, n) == [s EXCEPT !.path = Append(@, n), !.visiting = @ \cup {n}]
Back(path) == SubSeq(path, 1, Len(path) - 1)

(* Faulty: a block stays marked as visiting after the search left it.      *)
LeaveMarked(s, n) == [s EXCEPT !.path = Back(@), !.visited = @ \cup {n}]

Leave(s, n) == [s EXCEPT !.path = Back(@), !.visiting = @ \ {n}, !.visited = @ \cup {n}]

(* The next block the loop of the current visit comes to and has not been  *)
(* done with, or the next one the search may begin at.                     *)
Visit(es, s) ==
  LET n == s.path[Len(s.path)]
      done == s.visited \ s.visiting
      next == (IF s.path = <<>> THEN Blocks ELSE Targets(es, {n})) \ done
  IN IF s.cycle \/ (s.path = <<>> /\ next = {}) THEN s
     ELSE IF next = {} THEN Leave(s, n)
     ELSE LET m == CHOOSE m \in next : TRUE
          IN IF m \in s.visiting THEN [s EXCEPT !.cycle = TRUE] ELSE Enter(s, m)

(* Each step but the last ones enters a block or leaves one.               *)
HasCycle(es) ==
  Repeat([s \in Searches |-> Visit(es, s)],
         [path |-> <<>>, visiting |-> {}, visited |-> {}, cycle |-> FALSE],
         2 * Cardinality(NodeIds)).cycle

(* disconnectedControlNodes: what the trigger does not reach.              *)
ReachedFrom(es, first) ==
  Repeat([reached \in SUBSET NodeIds |-> reached \cup Targets(es, reached)],
         first, Cardinality(NodeIds))
Disconnected == Blocks \ ReachedFrom(Runtime, {n \in Blocks : kind[n] = "trigger"})

-----------------------------------------------------------------------------
(* validateCanvasConnection, of the codes the blocks have: connections no  *)
(* rule names are allowed.                                                 *)
Connects(k, handle, target, flow, approved) ==
  /\ k # "end" /\ target # "trigger"
  /\ handle \in Outputs[k] /\ flow = FlowOf(handle)
  /\ ~(handle = "rejected" /\ target = "delivery")
  /\ k = "legal_action" /\ target = "delivery" => approved

(* validateNewEdge.                                                        *)
MayAddEdge(e) ==
  /\ {e.source, e.target} \subseteq Blocks /\ e.source # e.target
  /\ Connects(shape[e.source], e.handle, shape[e.target], e.flow, HasApprovalBefore(edges, e.target))
  /\ ~HasCycle(edges \cup {e})

(* Without the block, some delivery has no approval before it any more.    *)
DeliveryWouldLoseApproval(n) ==
  LET rest == {e \in edges : n \notin {e.source, e.target}}
  IN \E m \in Blocks \ {n} : kind[m] = "delivery" /\ ~HasApprovalBefore(rest, m)

(* Validation: no structural error (a draft is in guided mode: exactly one *)
(* trigger) and no policy block.                                           *)
EdgeIsSound(e) ==
  /\ {e.source, e.target} \subseteq Blocks /\ e.source # e.target
  /\ e.handle \in Outputs[shape[e.source]] /\ TakesInput(shape[e.target])
  /\ kind[e.source] # "end" /\ kind[e.target] # "trigger"
CanPublish ==
  /\ Cardinality({n \in Blocks : kind[n] = "trigger"}) = 1
  /\ \E n \in Blocks : kind[n] = "end"
  /\ \A e \in edges : EdgeIsSound(e)
  /\ Disconnected = {}
  /\ ~HasCycle(Runtime)
  /\ \A n \in Blocks : kind[n] = "delivery" => HasApprovalBefore(edges, n)

(* WorkflowGraphValidator: the compiler puts the blocks in a row, a block   *)
(* once all that lead to it are placed, and the flow runs them in this     *)
(* order.  (Of those that may be next it takes the first by id: any one.)  *)
Flows == {e \in Runtime : {e.source, e.target} \subseteq Blocks}
Paths(n, m) == Cardinality({e \in Flows : e.source = n /\ e.target = m})

(* Faulty: a block is placed as soon as one that leads to it is.           *)
FreedAtOnce(n, indegree) == {m \in Blocks : Paths(n, m) > 0}

Freed(n, indegree) == {m \in Blocks : Paths(n, m) > 0 /\ indegree[m] = 0}

Placings == [queue : SUBSET Blocks, indegree : [Blocks -> Nat], place : [Blocks -> Nat]]
Place(s) ==
  IF s.queue = {} THEN s
  ELSE LET n == CHOOSE m \in s.queue : TRUE
           less == [m \in Blocks |-> Max({s.indegree[m] - Paths(n, m), 0})]
           more == [s.place EXCEPT ![n] = 1 + Cardinality({m \in Blocks : s.place[m] > 0})]
       IN [queue |-> {m \in s.queue \cup Freed(n, less) : more[m] = 0},
           indegree |-> less, place |-> more]
CompileOrder ==
  LET indegree == [n \in Blocks |-> Cardinality({e \in Flows : e.target = n})]
      triggers == {n \in Blocks : kind[n] = "trigger"}
      roots == IF triggers # {} THEN triggers ELSE {n \in Blocks : indegree[n] = 0}
  IN Repeat([s \in Placings |-> Place(s)],
            [queue |-> roots, indegree |-> indegree, place |-> [n \in Blocks |-> 0]],
            Cardinality(NodeIds)).place

(* The compiler asks for no blocking issue of the validation, for a place  *)
(* for every block, and for the approvals again, but not over data.        *)
ApprovedInFlow(n) == HasApprovalBefore(Runtime, n)
Compiles ==
  /\ CanPublish
  /\ \A n \in Blocks : CompileOrder[n] > 0 /\ (kind[n] = "delivery" => ApprovedInFlow(n))

-----------------------------------------------------------------------------
AddNode(n, k) ==
  /\ kind[n] = NoBlock /\ k \in KindsFor(n)
  /\ kind' = [kind EXCEPT ![n] = k] /\ shape' = [shape EXCEPT ![n] = k]
  /\ UNCHANGED <<edges, patches>>

(* A patch may give a block the type of another kind, its code and handles *)
(* or both: what the patch does not name stays.                            *)
UpdateNode(n, k) ==
  /\ n \in Blocks
  /\ patches < MaxPatches /\ patches' = patches + 1
  /\ ~(kind[n] = "approval" /\ DeliveryWouldLoseApproval(n))
  /\ kind' \in {kind, [kind EXCEPT ![n] = k]}
  /\ shape' \in {shape, [shape EXCEPT ![n] = k]}
  /\ UNCHANGED edges

(* Faulty: the connections of the block stay.                              *)
DeleteNodeOnly(n) ==
  /\ n \in Blocks
  /\ kind' = [kind EXCEPT ![n] = NoBlock] /\ shape' = [shape EXCEPT ![n] = NoBlock]
  /\ UNCHANGED <<edges, patches>>

DeleteNode(n) ==
  /\ n \in Blocks
  /\ kind' = [kind EXCEPT ![n] = NoBlock] /\ shape' = [shape EXCEPT ![n] = NoBlock]
  /\ edges' = {e \in edges : n \notin {e.source, e.target}}
  /\ UNCHANGED patches

AddEdge(e) ==
  /\ e \notin edges /\ Cardinality(edges) < MaxEdges
  /\ MayAddEdge(e)
  /\ edges' = edges \cup {e}
  /\ UNCHANGED <<kind, shape, patches>>

DeleteEdge(e) ==
  /\ e \in edges
  /\ edges' = edges \ {e}
  /\ UNCHANGED <<kind, shape, patches>>

(* A patch of an edge is not checked: it may turn the edge elsewhere or    *)
(* make it an edge of data.                                                *)
Patched(e) ==
  {[e EXCEPT !.flow = "data_flow"]} \cup {[e EXCEPT !.target = m] : m \in NodeIds}
UpdateEdge(e) ==
  /\ e \in edges
  /\ patches < MaxPatches /\ patches' = patches + 1
  /\ \E patched \in Patched(e) : edges' = (edges \ {e}) \cup {patched}
  /\ UNCHANGED <<kind, shape>>

(* outputHandleForNode: an output a block has, rather than the one wanted. *)
OutputOf(k, wanted) ==
  CASE wanted \in Outputs[k] \/ Outputs[k] = {} -> wanted
    [] wanted \notin Outputs[k] /\ k = "approval" -> "approved"
    [] OTHER -> CHOOSE handle \in Outputs[k] : TRUE

(* A module of the catalogue is inserted after a block, before one, or      *)
(* between two; at the start nothing is taken out, at the end whatever      *)
(* leads to the end, and without that the block that happens to be the last *)
(* is followed.  Only the connection from the block the request names is    *)
(* checked, as one of control.  (No triggers and ends are inserted.)        *)
Opening(taken, source, handle) == [taken |-> taken, source |-> source, handle |-> handle]
OneOf(es) == IF es = {} THEN {{}} ELSE {{e} : e \in es}
AtEnd(before) == IF before = NoBlock THEN \A m \in Blocks : kind[m] # "end"
                                     ELSE kind[before] = "end"
OpeningsAfter(k, after, before) ==
  LET incoming == {e \in edges : e.target = before}
      handles == {handle \in Outputs[shape[after]] :
                    Connects(shape[after], handle, k, "control_flow",
                             HasApprovalBefore(edges, after))}
  IN {Opening(taken, after, handle) :
        taken \in OneOf({e \in incoming : e.source = after})
                    \cup (IF AtEnd(before) THEN OneOf(incoming) ELSE {}),
        handle \in handles}
OpeningsBefore(before) ==
  LET incoming == {e \in edges : e.target = before}
      last == {m \in Blocks : AtEnd(before) /\ incoming = {} /\ kind[m] # "end"}
  IN {Opening({}, NoBlock, "main_output")}
       \cup {Opening({e}, e.source, e.handle) : e \in incoming}
       \cup {Opening({}, m, "main_output") : m \in last}
Openings(k, after, before) ==
  IF after = NoBlock THEN OpeningsBefore(before) ELSE OpeningsAfter(k, after, before)

InsertModule(n, k, after, before) ==
  /\ kind[n] = NoBlock /\ k \in KindsFor(n) \ {"trigger", "end"}
  /\ k = "delivery" => \E m \in Blocks : shape[m] = "legal_action"
  /\ kind' = [kind EXCEPT ![n] = k] /\ shape' = [shape EXCEPT ![n] = k]
  /\ \E o \in Openings(k, after, before) :
       edges' = (edges \ o.taken)
                  \cup {Edge(m, OutputOf(shape[m], o.handle), n) : m \in {o.source} \ {NoBlock}}
                  \cup {Edge(n, OutputOf(k, "main_output"), m) : m \in {before} \ {NoBlock}}
  /\ Cardinality(edges') <= MaxEdges
  /\ UNCHANGED patches

GraphInit ==
  /\ kind = [n \in NodeIds |-> CASE n = Start -> "trigger" [] n = Finish -> "end"
                                 [] OTHER -> NoBlock]
  /\ shape = kind
  /\ edges = {Edge(Start, "main_output", Finish)}
  /\ patches = 0

GraphNext ==
  \/ \E n \in NodeIds : \/ \E k \in Kinds : AddNode(n, k) \/ UpdateNode(n, k)
                        \/ DeleteNode(n)
  \/ \E e \in Edges : AddEdge(e)
  \/ \E e \in edges : DeleteEdge(e) \/ UpdateEdge(e)
  \/ \E n \in NodeIds \ Blocks, k \in Kinds, after, before \in Blocks \cup {NoBlock} :
       InsertModule(n, k, after, before)

GraphSpec == GraphInit /\ [][GraphNext]_graphTables
-----------------------------------------------------------------------------
(* Types; only a patch can give a block handles that are not its type's,   *)
(* leave a connection without its two blocks, or leave one from an output  *)
(* its source does not have.                                               *)
GraphTypeOK == /\ patches \in 0 .. MaxPatches
               /\ {kind, shape} \subseteq [NodeIds -> Kinds \cup {NoBlock}]
               /\ \A n \in NodeIds : shape[n] = NoBlock <=> n \notin Blocks
               /\ edges \subseteq Edges /\ Cardinality(edges) <= MaxEdges
               /\ patches = 0 =>
                    /\ shape = kind
                    /\ \A e \in edges : /\ {e.source, e.target} \subseteq Blocks
                                         /\ e.handle \in Outputs[shape[e.source]]

(* Reference: the blocks that one or more of the edges lead to from n, the *)
(* least set of blocks they lead into and never out of.                    *)
Followers(es, n) ==
  LET closed == {found \in SUBSET NodeIds :
                   Targets(es, {n}) \cup Targets(es, found) \subseteq found}
  IN {m \in NodeIds : \A found \in closed : m \in found}

(* The search in depth finds a cycle exactly when there is one; branches   *)
(* that meet again are none.                                               *)
CycleCheckIsRight == HasCycle(Runtime) <=> \E n \in Blocks : n \in Followers(Runtime, n)

(* A run of a workflow that may be published ends, can come to every       *)
(* block, and each of its deliveries has an approval somewhere before it.  *)
PublishableIsSound ==
  CanPublish =>
    /\ \A n \in Blocks : n \notin Followers(Runtime, n)
    /\ \E first \in Blocks : Followers(Runtime, first) = Blocks \ {first}
    /\ \A n \in Blocks : kind[n] = "delivery" =>
         \E m \in Blocks : kind[m] = "approval" /\ n \in Followers(edges, m)

(* In the row the compiler makes, every connection goes forwards and every *)
(* delivery comes after an approval: however blocks were inserted, patched *)
(* and deleted, and whichever of several blocks is taken first.            *)
CompiledInOrder ==
  Compiles =>
    LET place == CompileOrder
    IN /\ \A e \in Runtime : place[e.source] < place[e.target]
       /\ \A n \in Blocks : kind[n] = "delivery" =>
            \E m \in Blocks : kind[m] = "approval" /\ place[m] < place[n]

(* The two searches agree: what may be published can be compiled and so    *)
(* synced, unless an approval leads to its delivery over data only.        *)
PublishableCompiles ==
  CanPublish /\ (\A n \in Blocks : kind[n] = "delivery" => ApprovedInFlow(n)) => Compiles

(* What the policy is for: nothing leaves before a person has approved it, *)
(* that is, every way from the trigger to a delivery leaves some approval  *)
(* by its approved output.  The code asks for an approval among the        *)
(* ancestors only, which a way round it or its rejected output satisfies.  *)
PublishableIsApproved ==
  CanPublish =>
    LET unapproved == {e \in Runtime : ~(kind[e.source] = "approval" /\ e.handle = "approved")}
    IN \A n \in ReachedFrom(unapproved, {m \in Blocks : kind[m] = "trigger"}) : kind[n] # "delivery"
=============================================================================
