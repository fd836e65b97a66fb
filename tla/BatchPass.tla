----------------------------- MODULE BatchPass -----------------------------
(***************************************************************************)
(* The pass batch (src/pod/batch.cc): islands of nodes on one device       *)
(* become the sub-graphs of BATCH nodes.                                   *)
(*                                                                         *)
(* The union-find forest is abstracted to the partition it stands for.     *)
(***************************************************************************)
EXTENDS NestedGraph

VARIABLES
  g,           \* the top-level command graph
  kind, dev,   \* what each node is, and its device
  inside,      \* the nodes each BATCH node groups
  ends,        \* the members its sub-graph's entry and exit are linked to
  pc,          \* the phase of the pass
  listed,      \* the nodes of the walk (create_node_iterators)
  island,      \* the partition of the listed nodes into islands
  todo,        \* the edges that are still to be rewired
  origin       \* history: the graph as it was when the pass began

vars == <<g, kind, dev, inside, ends, pc, listed, island, todo, origin>>

(* The edges of a graph between the listed nodes. *)
EdgesOf(G, S) == {e \in S \X S : G.successors[e[1]][e[2]] > 0}

Init ==
  /\ \E E \in EdgeSets, l \in Labels :
       /\ kind = l.kind
       /\ dev = l.dev
       /\ g = RecordedGraph(E, kind)
  /\ inside = NothingNested
  /\ ends = [B \in Batch |-> [entry |-> {}, exit |-> {}]]
  /\ pc = "flood"
  /\ listed = After(g, entry)
  /\ island = {}
  /\ todo = {}
  /\ origin = g

-----------------------------------------------------------------------------
(* The entry, the exit and earlier batches are boundaries. *)
Candidate(u) == u \in Inner /\ kind[u] # "batch"

(* A mistake: it goes along sequence edges only. *)
FloodsChains(u, v) ==
  /\ Candidate(u) /\ Candidate(v)
  /\ dev[u] = dev[v]
  /\ AreSequence(g, u, v)

(* An edge that the flood-fill goes along. *)
Floods(u, v) ==
  /\ Candidate(u) /\ Candidate(v)
  /\ dev[u] = dev[v]
  /\ g.successors[u][v] > 0

(* The sets of listed nodes that no such edge crosses; the islands are the *)
(* smallest of them. *)
Uncrossed ==
  {S \in SUBSET listed : S # {} /\ \A u, v \in listed : Floods(u, v) => (u \in S <=> v \in S)}

Flood ==
  /\ pc = "flood"
  /\ LET U == Uncrossed
     IN  island' = {S \in U : \A T \in U : T \subseteq S => T = S}
  /\ pc' = "fold"
  /\ UNCHANGED <<g, kind, dev, inside, ends, listed, todo, origin>>

-----------------------------------------------------------------------------
(* Whether an edge leads from the island I to the island J. *)
Linked(I, J) == I # J /\ \E u \in I, v \in J : g.successors[u][v] > 0

(* A mistake: the device is left out of the key. *)
TwinIslandsAnywhere(I, J) ==
  /\ \A u \in I \union J : Candidate(u)
  /\ \A K \in island : (Linked(I, K) <=> Linked(J, K)) /\ (Linked(K, I) <=> Linked(K, J))

(* A mistake: only nodes are folded that stand alone, not what was merged. *)
TwinNodes(I, J) ==
  /\ Cardinality(I) = 1 /\ Cardinality(J) = 1
  /\ \A u \in I \union J : Candidate(u)
  /\ {dev[u] : u \in I} = {dev[u] : u \in J}
  /\ \A K \in island : (Linked(I, K) <=> Linked(J, K)) /\ (Linked(K, I) <=> Linked(K, J))

(* Two islands on one device with the same neighbour islands. *)
TwinIslands(I, J) ==
  /\ \A u \in I \union J : Candidate(u)
  /\ {dev[u] : u \in I} = {dev[u] : u \in J}
  /\ \A K \in island : (Linked(I, K) <=> Linked(J, K)) /\ (Linked(K, I) <=> Linked(K, J))

(* One round of the while loop: the neighbours of all islands are computed *)
(* before any two are united. *)
Folded == {UNION {J \in island : J = I \/ TwinIslands(I, J)} : I \in island}

(* A mistake: an island is found to be its own twin. *)
SettledNever == ~\E I, J \in island : TwinIslands(I, J)

Settled == Folded = island

Fold ==
  /\ pc = "fold"
  /\ ~Settled
  /\ island' = Folded
  /\ UNCHANGED <<g, kind, dev, inside, ends, pc, listed, todo, origin>>

(* A round that changed nothing: every island with two commands gets a     *)
(* fresh BATCH node and a sub-graph, not linked to anything yet. *)
Commands(I) == {u \in I : kind[u] # "control"}

(* A mistake: it takes more than two. *)
GroupedIfMore ==
  {I \in island : (\A u \in I : Candidate(u)) /\ Cardinality(Commands(I)) > 2}

Grouped == {I \in island : (\A u \in I : Candidate(u)) /\ Cardinality(Commands(I)) >= 2}

Materialize ==
  /\ pc = "fold"
  /\ Settled
  /\ \E node \in Injection(Grouped, Batch) :
       /\ inside' = [B \in Node |-> UNION {I \in Grouped : node[I] = B}]
       /\ dev' = [u \in Node |-> IF inside'[u] = {} THEN dev[u]
                                 ELSE dev[CHOOSE x \in inside'[u] : TRUE]]
       /\ g' = [g EXCEPT !.members = (g.members \ UNION Grouped)
                                        \union {node[I] : I \in Grouped}]
  /\ pc' = "rewire"
  /\ todo' = EdgesOf(g, listed)
  /\ UNCHANGED <<kind, ends, listed, island, origin>>

-----------------------------------------------------------------------------
(* The representative of u after batching. *)
Rep(u) == Home(inside, u)

(* Mistakes: the opposite edge is erased, the edge is added a second time, *)
(* or it is dropped when the opposite edge is there. *)
MovedReversed(u, v) == Precedes(Erase(g, v, u), Rep(u), Rep(v))

MovedTwice(u, v) == Precedes(Erase(g, u, v), Rep(u), Rep(v))

MovedUnlessBack(u, v) ==
  LET cut == Erase(g, u, v)
  IN  IF g.successors[Rep(v)][Rep(u)] = 0 /\ g.successors[Rep(u)][Rep(v)] = 0
      THEN Precedes(cut, Rep(u), Rep(v)) ELSE cut

(* The boundary edge u -> v moves to the representatives, once.            *)
Moved(u, v) ==
  LET cut == Erase(g, u, v)
  IN  IF g.successors[Rep(u)][Rep(v)] = 0 THEN Precedes(cut, Rep(u), Rep(v)) ELSE cut

Rewire(u, v) ==
  /\ pc = "rewire"
  /\ <<u, v>> \in todo
  /\ todo' = todo \ {<<u, v>>}
  /\ g' = IF Rep(u) = Rep(v) \/ (Rep(u) = u /\ Rep(v) = v) THEN g ELSE Moved(u, v)
  /\ UNCHANGED <<kind, dev, inside, ends, pc, listed, island, origin>>

(* The sub-graphs' entry and exit nodes are linked to the members that     *)
(* have no predecessor or no successor any more. *)
Connect ==
  /\ pc = "rewire"
  /\ todo = {}
  /\ ends' = [B \in Batch |-> [entry |-> {u \in inside[B] : Preds(g, u) = {}},
                               exit  |-> {u \in inside[B] : Succs(g, u) = {}}]]
  /\ pc' = "done"
  /\ UNCHANGED <<g, kind, dev, inside, listed, island, todo, origin>>

Next ==
  \/ Flood
  \/ Fold
  \/ Materialize
  \/ \E u, v \in Node : Rewire(u, v)
  \/ Connect

Spec == Init /\ [][Next]_vars

(* The pass is one thread that runs on. *)
FairSpec == Spec /\ WF_vars(Next)

-----------------------------------------------------------------------------
TypeOK ==
  /\ g \in Graphs
  /\ kind \in [Node -> Kind]
  /\ dev \in [Node -> Device]
  /\ inside \in [Node -> SUBSET Node]
  /\ ends \in [Batch -> [entry : SUBSET Node, exit : SUBSET Node]]
  /\ pc \in {"flood", "fold", "rewire", "done"}
  /\ listed \subseteq Node
  /\ island \subseteq SUBSET listed
  /\ todo \subseteq listed \X listed

Done == pc = "done"

(***************************************************************************)
(* The rewiring turns the top level into the quotient of the recorded      *)
(* graph: an edge between two representatives, listed once on each side,   *)
(* when an edge led from the one group to the other ("deduplicated").      *)
(***************************************************************************)
TopIsQuotient ==
  Done =>
    \A A, B \in {Rep(u) : u \in listed} :
      LET linked == A # B /\ \E u, v \in listed :
                      Rep(u) = A /\ Rep(v) = B /\ origin.successors[u][v] > 0
      IN  /\ g.successors[A][B] = IF linked THEN 1 ELSE 0
          /\ g.predecessors[B][A] = g.successors[A][B]

(***************************************************************************)
(* Grouping loses no order: two nodes that were ordered still are, inside  *)
(* a sub-graph or between the nodes that stand for them.  When an island   *)
(* that is not convex has made the top level cyclic, nothing can execute   *)
(* the graph; then a path between two nodes of the island may have left it. *)
(***************************************************************************)
OrderNotLost ==
  Done /\ Acyclic(g) => Precedence(origin, listed) \subseteq NestedPrecedence(g, inside, listed)

(***************************************************************************)
(* A sub-graph can be captured for one device and on its own: its nodes    *)
(* share a device, no edge leaves it, and its entry and exit reach all of  *)
(* them.                                                                   *)
(***************************************************************************)
SubGraphsSound ==
  TypeOK /\ (Done =>
    \A B \in Batch : inside[B] # {} =>
      /\ \A u \in inside[B] : dev[u] = dev[B]
      /\ \A u \in inside[B] : Succs(g, u) \union Preds(g, u) \subseteq inside[B]
      /\ LET P == PathsInside(g, inside, B)
         IN  \A u \in inside[B] : /\ \E x \in ends[B].entry : <<x, u>> \in P
                                  /\ \E x \in ends[B].exit : <<u, x>> \in P)

(* Two sets of nodes that could be one batch: candidates on one device, with *)
(* the same neighbour islands in the recorded graph.                         *)
TwinsAtFirst(I, J) ==
  LET linked(A, B) == A # B /\ \E u \in A, v \in B : origin.successors[u][v] > 0
  IN  /\ \A u \in I \union J : Candidate(u)
      /\ {dev[u] : u \in I} = {dev[u] : u \in J}
      /\ \A K \in island : (linked(I, K) <=> linked(J, K)) /\ (linked(K, I) <=> linked(K, J))

(***************************************************************************)
(* command_graph_t::pass_batch groups as much as edges and twins allow.    *)
(* When it is done every node of the walk is in one island; no recorded    *)
(* edge leads from one island to another between candidates on one device; *)
(* no two islands are twins, also where only a fold has made them so; and  *)
(* an island of candidates that is not in a batch as a whole holds fewer   *)
(* than two commands.                                                      *)
(***************************************************************************)
IslandsMaximal ==
  Done =>
    /\ UNION island = listed
    /\ \A I, J \in island : I # J =>
         /\ I \intersect J = {}
         /\ \A u \in I, v \in J : origin.successors[u][v] > 0 /\ Candidate(u) /\ Candidate(v)
                                    => dev[u] # dev[v]
         /\ ~TwinsAtFirst(I, J)
    /\ \A I \in island : (\A u \in I : Candidate(u)) /\ (\A B \in Batch : inside[B] # I)
                            => Cardinality(Commands(I)) < 2

(* "A command graph is a directed acyclic graph." *)
StaysAcyclic == Done => Acyclic(g)

(* The loop that folds twins comes to an end. *)
Returns == <>Done
=============================================================================
