---------------------------- MODULE CommandGraph ----------------------------
(***************************************************************************)
(* The command graph of include/cgir/command-graph.hpp as a value, and the *)
(* operations of command_graph_t that edit it.                             *)
(*                                                                         *)
(* A node's two std::lists are kept as multiplicities: successors[u][v] is *)
(* the number of times v occurs in u->successors, and predecessors[v][u]   *)
(* the number of times u occurs in v->predecessors.  The two are separate  *)
(* state, as in the code: every operation has to update both.  The order   *)
(* of a list is abstracted; loops over a list are taken in any order.      *)
(*                                                                         *)
(* "members" is a history field: the nodes that have been allocated and    *)
(* neither removed nor contracted away.  The code has no such field; a     *)
(* node that left the graph keeps its own two lists, stale.                *)
(***************************************************************************)
EXTENDS Integers, FiniteSets, Functions

CONSTANTS
  Node,        \* every node object the program can allocate
  entry, exit  \* the source and the sink of the graph

ASSUME NodeAssumption ==
  /\ IsFiniteSet(Node)
  /\ entry \in Node
  /\ exit \in Node
  /\ entry # exit

Inner == Node \ {entry, exit}

NodeType == {"EMPTY", "COMMAND"}

Lists == [Node -> [Node -> Nat]]

Graphs == [successors : Lists, predecessors : Lists,
           type : [Node -> NodeType], members : SUBSET Node]

NoEdge == [u \in Node |-> [v \in Node |-> 0]]

(* A list holding v once and nothing else. *)
Just(v) == [x \in Node |-> IF x = v THEN 1 ELSE 0]

Succs(g, u) == {v \in Node : g.successors[u][v] > 0}
Preds(g, u) == {p \in Node : g.predecessors[u][p] > 0}

(* std::list: size(), push_back(v), and erase() of one occurrence of v. *)
Length(list) == SumFunction(list)
PushBack(list, v) == [list EXCEPT ![v] = @ + 1]
EraseOne(list, v) == [list EXCEPT ![v] = @ - 1]

-----------------------------------------------------------------------------
(***************************************************************************)
(* command_graph_t::init without entry and exit: two fresh EMPTY nodes,    *)
(* linked.  The other members are the nodes the client allocated.          *)
(***************************************************************************)
Fresh(type, allocated) ==
  [successors   |-> [NoEdge EXCEPT ![entry] = Just(exit)],
   predecessors |-> [NoEdge EXCEPT ![exit] = Just(entry)],
   type         |-> type,
   members      |-> allocated \union {entry, exit}]

(* The graph with the edges E among these nodes, each recorded once. *)
Recorded(type, allocated, E) ==
  [successors   |-> [u \in Node |-> [v \in Node |-> IF <<u, v>> \in E THEN 1 ELSE 0]],
   predecessors |-> [v \in Node |-> [u \in Node |-> IF <<u, v>> \in E THEN 1 ELSE 0]],
   type         |-> type,
   members      |-> allocated \union {entry, exit}]

(* command_graph_node_t::precedes: one push_back on each side. *)
Precedes(g, u, v) ==
  [g EXCEPT
    !.successors   = [g.successors EXCEPT ![u] = PushBack(g.successors[u], v)],
    !.predecessors = [g.predecessors EXCEPT ![v] = PushBack(g.predecessors[v], u)]]

(* Drop the edge u -> v: one erase on each side. *)
Erase(g, u, v) ==
  [g EXCEPT
    !.successors   = [g.successors EXCEPT ![u] = EraseOne(g.successors[u], v)],
    !.predecessors = [g.predecessors EXCEPT ![v] = EraseOne(g.predecessors[v], u)]]

(* A mistake to be told from the code: the predecessors are not compared.  *)
AreFalseTwinsBelow(g, u, v) == g.successors[u] = g.successors[v]

(* command_graph_t::are_false_twins: the lists are permutations of each other. *)
AreFalseTwins(g, u, v) ==
  /\ g.predecessors[u] = g.predecessors[v]
  /\ g.successors[u] = g.successors[v]

(* A mistake: v may have other predecessors. *)
AreSequenceForward(g, u, v) == g.successors[u] = Just(v)

(* command_graph_t::are_sequence *)
AreSequence(g, u, v) ==
  /\ g.successors[u] = Just(v)
  /\ g.predecessors[v] = Just(u)

-----------------------------------------------------------------------------
(***************************************************************************)
(* command_graph_t::remove(u).  One occurrence of u is erased from each    *)
(* predecessor's successors, and from each successor's predecessors, per   *)
(* occurrence in u's own lists; then every predecessor is connected to     *)
(* every successor unless it already is.  u keeps its own lists.           *)
(***************************************************************************)
(* A mistake: "only add if they are not already connected" is forgotten. *)
BridgedAgain(g, u, p, s) == p \in Preds(g, u) /\ s \in Succs(g, u)

Bridged(g, u, p, s) ==
  p \in Preds(g, u) /\ s \in Succs(g, u) /\ g.successors[p][s] = 0

(* A mistake: the neighbours are cut off and not connected. *)
RemoveWithoutBridges(g, u) ==
  [g EXCEPT
    !.successors = [p \in Node |-> [g.successors[p] EXCEPT ![u] = 0]],
    !.predecessors = [s \in Node |-> [g.predecessors[s] EXCEPT ![u] = 0]],
    !.members = @ \ {u}]

Remove(g, u) ==
  [g EXCEPT
    !.successors = [p \in Node |-> [s \in Node |->
        IF s = u THEN g.successors[p][u] - g.predecessors[u][p]
        ELSE IF Bridged(g, u, p, s) THEN 1
        ELSE g.successors[p][s]]],
    !.predecessors = [s \in Node |-> [p \in Node |->
        IF p = u THEN g.predecessors[s][u] - g.successors[u][s]
        ELSE IF Bridged(g, u, p, s) THEN g.predecessors[s][p] + 1
        ELSE g.predecessors[s][p]]],
    !.members = @ \ {u}]

(* Mistakes: only the successor lists are updated, or v is left alone. *)
ContractTwinsHalf(g, u, v) ==
  [g EXCEPT
    !.successors = [p \in Node |->
        IF p \in Preds(g, u) THEN EraseOne(g.successors[p], v)
                             ELSE g.successors[p]],
    !.members = @ \ {v}]

ContractTwinsNot(g, u, v) == g

(***************************************************************************)
(* command_graph_t::contract<FALSE_TWINS | INPLACE>(u, v): v disappears    *)
(* from the lists of its neighbours, u stays as it is.                     *)
(***************************************************************************)
ContractTwins(g, u, v) ==
  [g EXCEPT
    !.successors = [p \in Node |->
        IF p \in Preds(g, u) THEN EraseOne(g.successors[p], v)
                             ELSE g.successors[p]],
    !.predecessors = [s \in Node |->
        IF s \in Succs(g, u) THEN EraseOne(g.predecessors[s], v)
                             ELSE g.predecessors[s]],
    !.members = @ \ {v}]

(***************************************************************************)
(* contract<FALSE_TWINS>(u, v): both disappear, a fresh EMPTY node w takes *)
(* their place.                                                            *)
(***************************************************************************)
ContractTwinsInto(g, u, v, w) ==
  [g EXCEPT
    !.successors = [p \in Node |->
        IF p \in Preds(g, u) THEN PushBack(EraseOne(EraseOne(g.successors[p], u), v), w)
        ELSE IF p = w THEN g.successors[u]
        ELSE g.successors[p]],
    !.predecessors = [s \in Node |->
        IF s \in Succs(g, u) THEN PushBack(EraseOne(EraseOne(g.predecessors[s], u), v), w)
        ELSE IF s = w THEN g.predecessors[u]
        ELSE g.predecessors[s]],
    !.type[w] = "EMPTY",
    !.members = (@ \ {u, v}) \union {w}]

(* A mistake: v's successors keep pointing back to v. *)
ContractUVHalf(g, u, v) ==
  [g EXCEPT
    !.successors = [@ EXCEPT ![u] = g.successors[v], ![v] = [x \in Node |-> 0]],
    !.members = @ \ {v}]

(***************************************************************************)
(* contract<U_V_SEQUENCE | INPLACE>(u, v): v's successors point back to u, *)
(* and u takes v's successor list over (std::move empties v's list).       *)
(***************************************************************************)
ContractUV(g, u, v) ==
  [g EXCEPT
    !.predecessors = [s \in Node |->
        IF s \in Succs(g, v) THEN PushBack(EraseOne(g.predecessors[s], v), u)
                             ELSE g.predecessors[s]],
    !.successors = [@ EXCEPT ![u] = g.successors[v], ![v] = [x \in Node |-> 0]],
    !.members = @ \ {v}]

(* contract<V_U_SEQUENCE | INPLACE>(u, v), the mirror image: v -> u. *)
ContractVU(g, u, v) ==
  [g EXCEPT
    !.successors = [p \in Node |->
        IF p \in Preds(g, v) THEN PushBack(EraseOne(g.successors[p], v), u)
                             ELSE g.successors[p]],
    !.predecessors = [@ EXCEPT ![u] = g.predecessors[v], ![v] = [x \in Node |-> 0]],
    !.members = @ \ {v}]

(***************************************************************************)
(* contract<U_V_SEQUENCE>(u, v): a fresh EMPTY node w takes u's            *)
(* predecessors and v's successors.  contract<V_U_SEQUENCE>(u, v) is       *)
(* ContractUVInto(g, v, u, w).                                             *)
(***************************************************************************)
ContractUVInto(g, u, v, w) ==
  [g EXCEPT
    !.successors = [p \in Node |->
        IF p \in Preds(g, u) THEN PushBack(EraseOne(g.successors[p], u), w)
        ELSE IF p = w THEN g.successors[v]
        ELSE g.successors[p]],
    !.predecessors = [s \in Node |->
        IF s \in Succs(g, v) THEN PushBack(EraseOne(g.predecessors[s], v), w)
        ELSE IF s = w THEN g.predecessors[u]
        ELSE g.predecessors[s]],
    !.type[w] = "EMPTY",
    !.members = (@ \ {u, v}) \union {w}]

-----------------------------------------------------------------------------
(***************************************************************************)
(* What the operations are judged by.                                      *)
(***************************************************************************)

(* A set of members that no edge leaves. *)
Closed(g) ==
  LET next == [x \in g.members |-> Succs(g, x)]
  IN  {S \in SUBSET g.members : \A x \in S : next[x] \subseteq S}

(* The pairs <<a, b>> with a path from a to b, possibly empty: those that   *)
(* no such set separates.                                                   *)
Separated(g) == UNION {S \X (g.members \ S) : S \in Closed(g)}
Paths(g) == (g.members \X g.members) \ Separated(g)

(* Everything there is a path to from a. *)
After(g, a) == LET P == Paths(g) IN {b \in g.members : <<a, b>> \in P}

(* The two directions of every edge agree, and no member is linked to a    *)
(* node that has left the graph.                                           *)
EdgesMirrored(g) ==
  \A u \in g.members, v \in Node :
    IF v \in g.members
    THEN g.successors[u][v] = g.predecessors[v][u]
    ELSE g.successors[u][v] = 0 /\ g.predecessors[u][v] = 0

(* "a node should never appear more than once in these lists" *)
SimpleEdges(g) ==
  \A u \in g.members, v \in Node : g.successors[u][v] <= 1

(* A directed acyclic graph. *)
Acyclic(g) ==
  LET P == Paths(g)
  IN  \A u \in g.members : \A v \in Succs(g, u) : <<v, u>> \notin P

(* entry is the only source and exit the only sink among the nodes that    *)
(* can be reached from the entry (coherence_checks).                       *)
Coherent(g) ==
  LET P == Paths(g)
  IN  /\ Preds(g, entry) = {}
      /\ Succs(g, exit) = {}
      /\ \A u \in g.members :
           <<entry, u>> \in P =>
             /\ u # entry => Preds(g, u) # {}
             /\ u # exit  => Succs(g, u) # {}

(* The precedence a set of nodes C is executed under. *)
Precedence(g, C) == {p \in Paths(g) : p[1] \in C /\ p[2] \in C /\ p[1] # p[2]}

(* What reduce-node and reduce-edge set out to lower: nodes plus edges. *)
EdgeCount(g) == Cardinality({e \in g.members \X g.members : g.successors[e[1]][e[2]] > 0})
=============================================================================
