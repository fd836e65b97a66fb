------------------------------- MODULE Walks -------------------------------
(***************************************************************************)
(* Walks of command graphs.  A walk marks the nodes it has visited with    *)
(* the walk id of the graph, an int8_t that the graph increments for every *)
(* walk, so that no mark is ever reset.  Everything that looks at a graph  *)
(* walks it: create_node_iterators (every pass), coherence_checks, the     *)
(* metrics and the dump.                                                   *)
(*                                                                         *)
(* The pass sequence turns a chain of nodes into a sub-graph: a new        *)
(* command_graph_t, whose walk id starts at 0, over nodes that keep the    *)
(* marks the parent graph's walks left on them.                            *)
(***************************************************************************)
EXTENDS Integers, FiniteSets

CONSTANTS
  Node,          \* node objects
  Graph,         \* command_graph_t objects
  top,           \* the graph the client records
  entry, exit,   \* its entry and its exit
  no_graph,      \* no graph
  Bits,          \* width of command_graph_walk_id_t
  MaxWalks       \* bound of this model: walks per graph

ASSUME WalksAssumption ==
  /\ IsFiniteSet(Node) /\ entry \in Node /\ exit \in Node /\ entry # exit
  /\ top \in Graph /\ no_graph \notin Graph
  /\ Bits \in Nat \ {0} /\ 2 ^ Bits \in Nat \ {0} /\ MaxWalks \in Nat

Id == 0 .. 2 ^ Bits - 1

VARIABLES
  next,      \* next[n]: the successors of n
  nodes,     \* the nodes that have been allocated
  mark,      \* node->walk_id
  root,      \* the entry of each graph that has been created
  walk_id,   \* its walk_id
  walks,     \* history: how many walks it has seen
  running,   \* the graph being walked, or no_graph
  pending,   \* the edges out of visited nodes that are not followed yet
  seen,      \* the nodes the running walk has passed to its callback
  listed     \* history: the nodes of the top graph's last complete walk

walksVars == <<next, nodes, mark, root, walk_id, walks, running, pending, seen, listed>>

WalksInit ==
  /\ nodes = {entry, exit}
  /\ next = [n \in Node |-> IF n = entry THEN {exit} ELSE {}]
  /\ mark = [n \in Node |-> 0]
  /\ root = [G \in {top} |-> entry]
  /\ walk_id = [G \in {top} |-> 0]
  /\ walks = [G \in {top} |-> 0]
  /\ running = no_graph
  /\ pending = {}
  /\ seen = {}
  /\ listed = {}

OutOf(n) == {n} \X next[n]

(* The nodes that can be reached from m: the least set around it that no    *)
(* edge leaves. *)
ReachFrom(m) ==
  {n \in nodes : \A S \in SUBSET nodes :
     m \in S /\ (\A x \in S : next[x] \subseteq S) => n \in S}
Reach(G) == ReachFrom(root[G])

-----------------------------------------------------------------------------
(* The client records p -> n, where n is a new node ... *)
Record(p, n) ==
  /\ running = no_graph
  /\ n \in Node \ nodes
  /\ p \in Reach(top) \ {exit}
  /\ nodes' = nodes \union {n}
  /\ next' = [next EXCEPT ![p] = next[p] \union {n}]
  /\ mark' = [mark EXCEPT ![n] = 0]
  /\ listed' = {}
  /\ UNCHANGED <<root, walk_id, walks, running, pending, seen>>

(* ... or one more edge; the graph stays acyclic. *)
Link(p, s) ==
  /\ running = no_graph
  /\ p \in Reach(top) \ {exit} /\ s \in Reach(top)
  /\ p \notin ReachFrom(s)
  /\ s \notin next[p]
  /\ next' = [next EXCEPT ![p] = next[p] \union {s}]
  /\ listed' = {}
  /\ UNCHANGED <<nodes, root, mark, walk_id, walks, running, pending, seen>>

(* Mistakes: the id is wider in the graph than in the nodes, or not counted *)
(* up. *)
StartWalkWide(G) ==
  /\ running = no_graph
  /\ G \in DOMAIN root
  /\ walks[G] < MaxWalks
  /\ walks' = [walks EXCEPT ![G] = @ + 1]
  /\ walk_id' = [walk_id EXCEPT ![G] = @ + 1]
  /\ mark' = [mark EXCEPT ![root[G]] = walk_id'[G]]
  /\ running' = G
  /\ seen' = {root[G]}
  /\ pending' = OutOf(root[G])
  /\ UNCHANGED <<next, nodes, root, listed>>

StartWalkAgain(G) ==
  /\ running = no_graph
  /\ G \in DOMAIN root
  /\ walks[G] < MaxWalks
  /\ walks' = [walks EXCEPT ![G] = @ + 1]
  /\ walk_id' = [walk_id EXCEPT ![G] = 1]
  /\ mark' = [mark EXCEPT ![root[G]] = walk_id'[G]]
  /\ running' = G
  /\ seen' = {root[G]}
  /\ pending' = OutOf(root[G])
  /\ UNCHANGED <<next, nodes, root, listed>>

(* command_graph_t::walk(entry, f). *)
StartWalk(G) ==
  /\ running = no_graph
  /\ G \in DOMAIN root
  /\ walks[G] < MaxWalks
  /\ walks' = [walks EXCEPT ![G] = @ + 1]
  /\ walk_id' = [walk_id EXCEPT ![G] = (@ + 1) % 2 ^ Bits]
  /\ mark' = [mark EXCEPT ![root[G]] = walk_id'[G]]
  /\ running' = G
  /\ seen' = {root[G]}
  /\ pending' = OutOf(root[G])
  /\ UNCHANGED <<next, nodes, root, listed>>

(***************************************************************************)
(* command_graph_node_t::walk: the walk looks at the successor s of a node *)
(* it has visited.  A depth-first and a breadth-first walk differ in the   *)
(* order of these steps only.                                              *)
(***************************************************************************)
Follow(n, s) ==
  /\ <<n, s>> \in pending
  /\ IF mark[s] = walk_id[running]
     THEN /\ pending' = pending \ {<<n, s>>}
          /\ UNCHANGED <<mark, seen>>
     ELSE /\ mark' = [mark EXCEPT ![s] = walk_id[running]]
          /\ seen' = seen \union {s}
          /\ pending' = (pending \ {<<n, s>>}) \union OutOf(s)
  /\ UNCHANGED <<next, nodes, root, walk_id, walks, running, listed>>

End ==
  /\ running # no_graph
  /\ pending = {}
  /\ running' = no_graph
  /\ seen' = {}
  /\ listed' = IF running = top THEN seen ELSE listed
  /\ UNCHANGED <<next, nodes, mark, root, walk_id, walks, pending>>

(***************************************************************************)
(* pass_sequence, after its walk: the chain u -> v becomes the sub-graph   *)
(* G, with u and v as its entry and exit, and the fresh node B takes its   *)
(* place in the top graph.                                                 *)
(***************************************************************************)
Before(n) == {p \in nodes : n \in next[p]}

Split(u, v, B, G) ==
  /\ running = no_graph
  /\ {u, v} \subseteq listed \ {entry, exit}
  /\ next[u] = {v} /\ Before(v) = {u}
  /\ B \in Node \ nodes
  /\ G \in Graph \ DOMAIN root
  /\ nodes' = nodes \union {B}
  /\ next' = [p \in Node |-> CASE u \in next[p] -> (next[p] \ {u}) \union {B}
                               [] p = B         -> next[v]
                               [] p = v         -> {}
                               [] OTHER         -> next[p]]
  /\ mark' = [mark EXCEPT ![B] = 0]
  /\ root' = [H \in DOMAIN root \union {G} |-> IF H = G THEN u ELSE root[H]]
  /\ walk_id' = [H \in DOMAIN root \union {G} |-> IF H = G THEN 0 ELSE walk_id[H]]
  /\ walks' = [H \in DOMAIN root \union {G} |-> IF H = G THEN 0 ELSE walks[H]]
  /\ listed' = {}
  /\ UNCHANGED <<running, pending, seen>>

WalksNext ==
  \/ \E p, n \in Node : Record(p, n)
  \/ \E p, s \in Node : Link(p, s)
  \/ \E G \in Graph : StartWalk(G)
  \/ \E n, s \in Node : Follow(n, s)
  \/ End
  \/ \E u, v, B \in Node, G \in Graph : Split(u, v, B, G)

WalksSpec == WalksInit /\ [][WalksNext]_walksVars

-----------------------------------------------------------------------------
WalksTypeOK ==
  /\ nodes \subseteq Node
  /\ next \in [Node -> SUBSET nodes]
  /\ mark \in [Node -> Id]
  /\ DOMAIN root \subseteq Graph /\ top \in DOMAIN root
  /\ root \in [DOMAIN root -> nodes]
  /\ walk_id \in [DOMAIN root -> Id]
  /\ walks \in [DOMAIN root -> 0 .. MaxWalks]
  /\ running \in DOMAIN root \union {no_graph}
  /\ pending \subseteq Node \X Node
  /\ seen \subseteq nodes
  /\ listed \subseteq nodes

(* A walk of G is over. *)
Over(G) == running = G /\ pending = {}

(***************************************************************************)
(* As long as the walk id of the top graph has not wrapped around, a walk  *)
(* of it passes every node of the graph to its callback: those recorded    *)
(* since the last walk and the fresh BATCH nodes too, whatever walks of    *)
(* sub-graphs happened in between.                                         *)
(***************************************************************************)
TopWalksSeeAll ==
  Over(top) /\ walks[top] < 2 ^ Bits => seen = Reach(top)

(* The same of the graph that the pass sequence created.                   *)
SubGraphWalksSeeAll ==
  \A G \in DOMAIN root \ {top} :
    Over(G) /\ walks[G] < 2 ^ Bits => seen = Reach(G)
=============================================================================
