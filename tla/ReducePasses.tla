---------------------------- MODULE ReducePasses ----------------------------
(***************************************************************************)
(* A client records a command graph, then optimizes it with the passes     *)
(* reduce-node (src/pod/reduce-node.cc) and reduce-edge                    *)
(* (src/pod/reduce-edge.cc), in any order and any number of times, and may *)
(* go on recording between two optimizations.                              *)
(*                                                                         *)
(* Each pass first lists the nodes it will visit (create_node_iterators),  *)
(* then visits them one by one on the live graph: what it decides at a     *)
(* node depends on what it already did at others.  The list is a depth     *)
(* first pre-order in the code; here the nodes are visited in any order.   *)
(***************************************************************************)
EXTENDS CommandGraph

VARIABLES
  g,      \* the command graph
  pc,     \* "idle", or the pass that is running
  visit,  \* the nodes the running pass has not visited yet
  cur,    \* reduce-edge: the node being visited
  left,   \* reduce-edge: the successors of cur not examined yet
  reach,  \* reduce-edge: the reachability matrix computed before any erase
  sealed  \* history: no edge was recorded since the last call of optimize()

vars == <<g, pc, visit, cur, left, reach, sealed>>

Init ==
  /\ \E allocated \in SUBSET Inner, type \in [Node -> NodeType] :
       /\ type[entry] = "EMPTY" /\ type[exit] = "EMPTY"
       /\ \A u \in Inner \ allocated : type[u] = "EMPTY"
       /\ g = Fresh(type, allocated)
  /\ pc = "idle"
  /\ visit = {}
  /\ cur = entry
  /\ left = {}
  /\ reach = {}
  /\ sealed = FALSE

-----------------------------------------------------------------------------
(***************************************************************************)
(* The client records u -> v.  precedes() checks nothing; that the graph   *)
(* is a DAG with one source and one sink, and that an edge is not recorded *)
(* twice, is what every assertion in the code takes for granted, so it is  *)
(* the client's side of the contract.                                      *)
(***************************************************************************)
Record(u, v) ==
  /\ pc = "idle"
  /\ u # v /\ v # entry /\ u # exit
  /\ g.successors[u][v] = 0
  /\ <<v, u>> \notin Paths(g)
  /\ g' = Precedes(g, u, v)
  /\ sealed' = FALSE
  /\ UNCHANGED <<pc, visit, cur, left, reach>>

(* The nodes a walk from the entry visits. *)
Reachable == After(g, entry)

(* What can be reached from each of them. *)
Reachability == LET P == Paths(g) IN {p \in P : <<entry, p[1]>> \in P}

-----------------------------------------------------------------------------
(* optimize(COMMAND_GRAPH_PASS_REDUCE_NODE): the iterators leave out entry *)
(* and exit. *)
StartReduceNode ==
  /\ pc = "idle"
  /\ Coherent(g)
  /\ pc' = "reduce-node"
  /\ visit' = Reachable \ {entry, exit}
  /\ sealed' = TRUE
  /\ UNCHANGED <<g, cur, left, reach>>

(* A mistake, off by one: a removal may add an edge. *)
WorthlessOrEqual(u) ==
  LET m == Length(g.predecessors[u])
      n == Length(g.successors[u])
  IN  m * n <= 1 + m + n

(* Connecting the neighbours of the control node u directly costs less. *)
Worthless(u) ==
  LET m == Length(g.predecessors[u])
      n == Length(g.successors[u])
  IN  m * n < 1 + m + n

ReduceNode(u) ==
  /\ pc = "reduce-node"
  /\ u \in visit
  /\ visit' = visit \ {u}
  /\ g' = IF g.type[u] = "EMPTY" /\ Worthless(u) THEN Remove(g, u) ELSE g
  /\ UNCHANGED <<pc, cur, left, reach, sealed>>

-----------------------------------------------------------------------------
(* optimize(COMMAND_GRAPH_PASS_REDUCE_EDGE): the iterators include entry   *)
(* and exit, and a post-order walk fills the reachability matrix.          *)
StartReduceEdge ==
  /\ pc = "idle"
  /\ Coherent(g)
  /\ pc' = "reduce-edge"
  /\ visit' = Reachable
  /\ reach' = Reachability
  /\ sealed' = TRUE
  /\ UNCHANGED <<g, cur, left>>

(* The outer loop moves on to the node u. *)
VisitEdges(u) ==
  /\ pc = "reduce-edge"
  /\ left = {}
  /\ u \in visit
  /\ visit' = visit \ {u}
  /\ cur' = u
  /\ left' = Succs(g, u)
  /\ UNCHANGED <<g, pc, reach, sealed>>

(* Mistakes: v itself counts as the other successor, the matrix is read by *)
(* the wrong index first, or only edges count and not paths. *)
RedundantBySelf(u, v) == \E w \in Succs(g, u) : <<w, v>> \in reach
RedundantReversed(u, v) == \E w \in Succs(g, u) \ {v} : <<v, w>> \in reach
RedundantDirectly(u, v) == \E w \in Succs(g, u) \ {v} : g.successors[w][v] > 0

(* v is also reached through another successor w of u. *)
Redundant(u, v) == \E w \in Succs(g, u) \ {v} : <<w, v>> \in reach

(* A mistake: no break after the erase, so that it is done once for every  *)
(* successor that reaches v. *)
ReduceEdgeWithoutBreak(v) ==
  /\ v \in left
  /\ left' = left \ {v}
  /\ LET n == Cardinality({w \in Succs(g, cur) \ {v} : <<w, v>> \in reach})
     IN  g' = [g EXCEPT !.successors[cur][v] = @ - n, !.predecessors[v][cur] = @ - n]
  /\ UNCHANGED <<pc, visit, cur, reach, sealed>>

(* The inner loop examines the successor v of cur. *)
ReduceEdge(v) ==
  /\ v \in left
  /\ left' = left \ {v}
  /\ g' = IF Redundant(cur, v) THEN Erase(g, cur, v) ELSE g
  /\ UNCHANGED <<pc, visit, cur, reach, sealed>>

(* The pass returns; its local storage is gone. *)
EndPass ==
  /\ pc # "idle"
  /\ visit = {}
  /\ left = {}
  /\ pc' = "idle"
  /\ cur' = entry
  /\ reach' = {}
  /\ UNCHANGED <<g, visit, left, sealed>>

-----------------------------------------------------------------------------
Next ==
  \/ \E u, v \in g.members : Record(u, v)
  \/ StartReduceNode
  \/ \E u \in Inner : ReduceNode(u)
  \/ StartReduceEdge
  \/ \E u \in Node : VisitEdges(u)
  \/ \E v \in Node : ReduceEdge(v)
  \/ EndPass

Spec == Init /\ [][Next]_vars

-----------------------------------------------------------------------------
TypeOK ==
  /\ g \in Graphs
  /\ pc \in {"idle", "reduce-node", "reduce-edge"}
  /\ visit \in SUBSET Node
  /\ cur \in Node
  /\ left \in SUBSET Node
  /\ reach \in SUBSET (Node \X Node)
  /\ sealed \in BOOLEAN

(***************************************************************************)
(* Every erase(find(...)) of the passes finds what it looks for: an edge   *)
(* is in both lists or in none, a node that was removed is in no list, no  *)
(* node is twice in a list (remove() must not add an edge that is there),  *)
(* and the graph stays a DAG.                                              *)
(***************************************************************************)
WellFormed == EdgesMirrored(g) /\ SimpleEdges(g) /\ Acyclic(g)

(* The passes keep entry the only source and exit the only sink: what      *)
(* coherence_checks() asserts after a pass.                                *)
StaysCoherent == sealed => Coherent(g)

(***************************************************************************)
(* reduce-edge erases edges while it consults a reachability matrix that   *)
(* was computed before the first erase.  It never goes stale: no erase     *)
(* changes what is reachable.                                              *)
(***************************************************************************)
MatrixExact == pc = "reduce-edge" => reach = Reachability

(***************************************************************************)
(* The passes keep the execution order: two commands that were ordered     *)
(* stay ordered, and no order is added between others.                     *)
(***************************************************************************)
Commands == {u \in g.members : g.type[u] = "COMMAND"}
ExecutionOrder == Precedence(g, Commands \union {entry, exit})
OrderKept == [][sealed' => ExecutionOrder' = ExecutionOrder]_vars

(* The passes never lose a command: what they take out is a control node. *)
(* Removing it does not increase the number of edges.                      *)
ComplexityFalls ==
  [][sealed' => /\ Commands' = Commands
                /\ EdgeCount(g') <= EdgeCount(g)]_vars

(***************************************************************************)
(* When reduce-edge returns, no edge is left whose target is reachable     *)
(* through an intermediate path: the graph is its transitive reduction.    *)
(***************************************************************************)
Reduced(G) ==
  LET P == Paths(G)
  IN  \A u \in G.members : <<entry, u>> \in P =>
        \A v \in Succs(G, u) : \A w \in Succs(G, u) \ {v} : <<w, v>> \notin P
EdgesReduced ==
  [][pc = "reduce-edge" /\ pc' = "idle" => Reduced(g)]_vars
=============================================================================
