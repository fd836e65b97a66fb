----------------------------- MODULE GraphEdit -----------------------------
(***************************************************************************)
(* A client edits a recorded command graph through the two operations of   *)
(* command_graph_t that change its nodes: remove() and the six flavours of *)
(* contract().  contract() asserts what its hint says about the two nodes; *)
(* a call that breaks the assertion is not made.                           *)
(***************************************************************************)
EXTENDS CommandGraph

CONSTANTS
  Allocated,   \* the nodes the client has allocated
  Recordings,  \* the sets of edges the client may have recorded
  Control      \* the nodes that stand for no command

ASSUME RecordingsAssumption ==
  LET members == Allocated \union {entry, exit}
  IN  /\ Allocated \subseteq Inner
      /\ Recordings \subseteq SUBSET (members \X members)

VARIABLES
  graph,     \* the command graph
  holds  \* history: the recorded nodes that each node stands for by now

editVars == <<graph, holds>>

EditInit ==
  /\ \E E \in Recordings :
       graph = Recorded([u \in Node |-> "EMPTY"], Allocated, E)
  /\ Acyclic(graph)
  /\ Coherent(graph)
  /\ holds = [u \in Node |-> IF u \in graph.members THEN {u} ELSE {}]

(* command_graph_node_new: a node object that was never used before. *)
Unused(w) == w \in Inner \ graph.members /\ holds[w] = {}

Edits(u, v) == u \in graph.members /\ v \in graph.members /\ u # v

-----------------------------------------------------------------------------
(* A control node is removed, as reduce-node does. *)
RemoveNode(u) ==
  /\ u \in graph.members
  /\ holds[u] \subseteq Control
  /\ graph' = Remove(graph, u)
  /\ UNCHANGED holds

(* contract<..., INPLACE>(u, v): u stands for both. *)
Inplace(u, v) == holds' = [holds EXCEPT ![u] = holds[u] \union holds[v]]

(* contract<...>(u, v) without INPLACE: the new node w stands for both. *)
Into(u, v, w) == holds' = [holds EXCEPT ![w] = holds[u] \union holds[v]]

FuseTwins(u, v) ==
  /\ Edits(u, v) /\ AreFalseTwins(graph, u, v)
  /\ graph' = ContractTwins(graph, u, v)
  /\ Inplace(u, v)

FuseTwinsInto(u, v, w) ==
  /\ Edits(u, v) /\ AreFalseTwins(graph, u, v) /\ Unused(w)
  /\ graph' = ContractTwinsInto(graph, u, v, w)
  /\ Into(u, v, w)

FuseUV(u, v) ==
  /\ Edits(u, v) /\ AreSequence(graph, u, v)
  /\ graph' = ContractUV(graph, u, v)
  /\ Inplace(u, v)

FuseVU(u, v) ==
  /\ Edits(u, v) /\ AreSequence(graph, v, u)
  /\ graph' = ContractVU(graph, u, v)
  /\ Inplace(u, v)

FuseUVInto(u, v, w) ==
  /\ Edits(u, v) /\ AreSequence(graph, u, v) /\ Unused(w)
  /\ graph' = ContractUVInto(graph, u, v, w)
  /\ Into(u, v, w)

FuseVUInto(u, v, w) ==
  /\ Edits(u, v) /\ AreSequence(graph, v, u) /\ Unused(w)
  /\ graph' = ContractUVInto(graph, v, u, w)
  /\ Into(u, v, w)

(***************************************************************************)
(* The entry and the exit are no operands: neither operation moves         *)
(* command_graph_t::entry and ::exit to the node that takes their place.   *)
(***************************************************************************)
EditNext ==
  \/ \E u \in Inner : RemoveNode(u)
  \/ \E u, v \in Inner :
       \/ FuseTwins(u, v)
       \/ FuseUV(u, v)
       \/ FuseVU(u, v)
       \/ \E w \in Inner :
            \/ FuseTwinsInto(u, v, w)
            \/ FuseUVInto(u, v, w)
            \/ FuseVUInto(u, v, w)

EditSpec == EditInit /\ [][EditNext]_editVars

-----------------------------------------------------------------------------
EditTypeOK ==
  /\ graph \in Graphs
  /\ holds \in [Node -> SUBSET Node]

(***************************************************************************)
(* Whatever is removed or contracted, in whatever order, the two lists of  *)
(* every edge agree, no node is twice in a list, no member is linked to a  *)
(* node that left (the asserts count(...) == 1 of contract() hold), the    *)
(* graph is acyclic, entry its only source and exit its only sink.         *)
(***************************************************************************)
EditWellFormed == EditTypeOK /\ EdgesMirrored(graph) /\ SimpleEdges(graph) /\ Acyclic(graph) /\ Coherent(graph)

(***************************************************************************)
(* An edit merges two blocks of the program that no other block can tell   *)
(* apart, or drops a control node: no command is lost, and the order of    *)
(* commands in different blocks is the one that was recorded.              *)
(***************************************************************************)
Program == INSTANCE Schedule WITH
  blocks <- {holds[u] : u \in graph.members},
  order  <- {<<holds[p[1]], holds[p[2]]>> : p \in {q \in Paths(graph) : q[1] # q[2]}}
EditsSchedule == Program!Spec
=============================================================================
