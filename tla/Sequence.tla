------------------------------ MODULE Sequence ------------------------------
(***************************************************************************)
(* The pass sequence (src/pod/sequence.cc): every maximal chain of task    *)
(* nodes on one device becomes the sub-graph of a BATCH node.              *)
(*                                                                         *)
(* The nodes are visited in the depth-first pre-order of a walk made       *)
(* before the first edit.  Here any order is allowed in which a node comes *)
(* after one of its predecessors.                                          *)
(***************************************************************************)
EXTENDS NestedGraph

VARIABLES
  g,           \* the top-level command graph
  kind, dev,   \* what each node is, and its device
  inside,      \* the nodes each BATCH node groups
  flagged,     \* the BATCH nodes whose sub-graph is marked is_sequence
  pc,          \* "scan" or "done"
  listed,      \* the nodes of the walk (create_node_iterators)
  visited,     \* those the scan has passed
  contracted,  \* the nodes marked node.data.contracted
  origin       \* history: the graph as it was when the pass began

vars == <<g, kind, dev, inside, flagged, pc, listed, visited, contracted, origin>>

Init ==
  /\ \E E \in EdgeSets, l \in Labels :
       /\ kind = l.kind
       /\ dev = l.dev
       /\ g = RecordedGraph(E, kind)
  /\ inside = NothingNested
  /\ flagged = {}
  /\ pc = "scan"
  /\ listed = After(g, entry)
  /\ visited = {}
  /\ contracted = {}
  /\ origin = g

-----------------------------------------------------------------------------
(* is_cand *)
Candidate(u) == u \in Inner /\ kind[u] \in {"control", "task"}

(* u -> v is a sequence edge of the graph G. *)
ChainedIn(G, u, v) ==
  /\ Candidate(u) /\ Candidate(v)
  /\ dev[u] = dev[v]
  /\ AreSequence(G, u, v)
Chained(u, v) == ChainedIn(g, u, v)

(***************************************************************************)
(* The nodes that the walk along the chain from u on marks contracted: the *)
(* least set around u that no sequence edge leaves.                        *)
(***************************************************************************)
Chain(u) ==
  LET next == [y \in g.members |-> {z \in g.members : Chained(y, z)}]
  IN  {z \in g.members :
         \A S \in SUBSET g.members : u \in S /\ (\A y \in S : next[y] \subseteq S) => z \in S}

Tail(chain) == CHOOSE x \in chain : \A y \in chain : ~Chained(x, y)

(* The list, with u replaced by B. *)
Swap(list, u, B) == PushBack(EraseOne(list, u), B)

(* Mistakes: head and tail are confused on one side, or the successors of  *)
(* the tail keep pointing back to it. *)
DetachConfused(G, B, head, tail) ==
  [G EXCEPT
    !.successors = [p \in Node |->
        IF p \in Preds(G, head) THEN Swap(G.successors[p], tail, B)
        ELSE IF p = B THEN G.successors[tail]
        ELSE G.successors[p]]]

DetachHalf(G, B, head, tail) ==
  [G EXCEPT
    !.successors = [p \in Node |->
        IF p \in Preds(G, head) THEN Swap(G.successors[p], head, B)
        ELSE IF p = B THEN G.successors[tail]
        ELSE G.successors[p]],
    !.predecessors = [G.predecessors EXCEPT ![B] = G.predecessors[head]]]

(***************************************************************************)
(* detach_boundary(B, head, tail): the predecessors of the head and the    *)
(* successors of the tail are linked to B instead.                         *)
(***************************************************************************)
Detach(G, B, head, tail) ==
  LET empty == [x \in Node |-> 0]
  IN  [G EXCEPT
        !.successors = [p \in Node |->
            IF p \in Preds(G, head) THEN Swap(G.successors[p], head, B)
            ELSE IF p = B    THEN G.successors[tail]
            ELSE IF p = tail THEN empty
            ELSE G.successors[p]],
        !.predecessors = [s \in Node |->
            IF s \in Succs(G, tail) THEN Swap(G.predecessors[s], tail, B)
            ELSE IF s = B    THEN G.predecessors[head]
            ELSE IF s = head THEN empty
            ELSE G.predecessors[s]]]

-----------------------------------------------------------------------------
(* A mistake: the walk is a post-order. *)
ReachedPostOrder(u) ==
  /\ pc = "scan"
  /\ u \in listed \ visited
  /\ Succs(origin, u) \subseteq visited
  /\ visited' = visited \union {u}

(* The scan comes to a node of the walk. *)
Reached(u) ==
  /\ pc = "scan"
  /\ u \in listed \ visited
  /\ u = entry \/ \E p \in visited : u \in Succs(origin, p)
  /\ visited' = visited \union {u}

(* It is not the head of a chain, or was absorbed into one. *)
IsHead(u) == u \notin contracted /\ \E v \in g.members : Chained(u, v)

Pass(u) ==
  /\ Reached(u)
  /\ ~IsHead(u)
  /\ UNCHANGED <<g, kind, dev, inside, flagged, pc, contracted, listed, origin>>

Tasks(S) == {x \in S : kind[x] = "task"}

(* A chain with fewer than two commands is marked and left alone. *)
TooShort(u) ==
  /\ Reached(u)
  /\ IsHead(u)
  /\ LET chain == Chain(u)
     IN  /\ Cardinality(Tasks(chain)) < 2
         /\ contracted' = contracted \union chain
  /\ UNCHANGED <<g, kind, dev, inside, flagged, pc, listed, origin>>

(* The chain from u on becomes the sub-graph of the new node B. *)
Group(u, B) ==
  /\ Reached(u)
  /\ IsHead(u)
  /\ B \in Batch \ g.members
  /\ LET chain == Chain(u)
     IN  /\ Cardinality(Tasks(chain)) >= 2
         /\ contracted' = contracted \union chain
         /\ g' = [Detach(g, B, u, Tail(chain)) EXCEPT
                     !.members = (g.members \ chain) \union {B}]
         /\ inside' = [inside EXCEPT ![B] = chain]
  /\ dev' = [dev EXCEPT ![B] = dev[u]]
  /\ flagged' = flagged \union {B}
  /\ UNCHANGED <<kind, pc, listed, origin>>

Return ==
  /\ pc = "scan"
  /\ visited = listed
  /\ pc' = "done"
  /\ UNCHANGED <<g, kind, dev, inside, flagged, visited, contracted, listed, origin>>

Next ==
  \/ \E u \in Node :
       \/ Pass(u)
       \/ TooShort(u)
       \/ \E B \in Batch : Group(u, B)
  \/ Return

Spec == Init /\ [][Next]_vars

-----------------------------------------------------------------------------
TypeOK ==
  /\ g \in Graphs
  /\ kind \in [Node -> Kind]
  /\ dev \in [Node -> Device]
  /\ inside \in [Node -> SUBSET Node]
  /\ flagged \subseteq Batch
  /\ pc \in {"scan", "done"}
  /\ visited \subseteq listed /\ listed \subseteq Node
  /\ contracted \subseteq Node

(* Every grouping leaves the top-level graph a coherent DAG.               *)
StaysCoherent ==
  [][g' # g => (TypeOK /\ EdgesMirrored(g) /\ SimpleEdges(g) /\ Acyclic(g) /\ Coherent(g))']_vars

(***************************************************************************)
(* Grouping changes the order of no two nodes: those of a chain keep it    *)
(* inside the sub-graph, and every other node sees the BATCH where it saw  *)
(* the chain.                                                              *)
(***************************************************************************)
OrderKept ==
  [][g' # g => NestedPrecedence(g, inside, RecordedNodes)'
                 = Precedence(origin, RecordedNodes)]_vars

(***************************************************************************)
(* "a chain's head precedes its interior": no chain is entered in its      *)
(* middle.  When the pass returns, a sequence edge of the recorded graph   *)
(* is inside a sub-graph, unless its chain has fewer than two commands.    *)
(***************************************************************************)
ChainsMaximal ==
  pc = "done" =>
    \A u, v \in RecordedNodes : ChainedIn(origin, u, v) =>
      \/ Home(inside, u) = Home(inside, v) /\ Home(inside, u) # u
      \/ {u, v} \subseteq g.members /\ Cardinality(Tasks(Chain(u))) < 2
=============================================================================
