---------------------------- MODULE Edits_proofs ----------------------------
(***************************************************************************)
(* Edits of a recorded graph, for every graph: by the passes reduce-node   *)
(* and reduce-edge, and by the operations of command_graph_t.              *)
(***************************************************************************)
EXTENDS ReducePasses, GraphEdit, CommandGraph_proofs

-----------------------------------------------------------------------------
(***************************************************************************)
(* The safety of reduce-node and reduce-edge.  The proofs follow one       *)
(* inductive invariant: the graph is a DAG, the nodes a running pass still *)
(* has to visit are reachable members of it, and what reduce-edge has      *)
(* already examined is transitively reduced.                               *)
(***************************************************************************)
(* What the running pass keeps on its stack still names nodes and edges of *)
(* the live graph.                                                         *)
Locals ==
  /\ entry \in g.members
  /\ exit \in g.members
  /\ visit \subseteq Reachable
  /\ pc = "idle" => visit = {} /\ left = {}
  /\ pc = "reduce-node" => visit \subseteq Inner /\ left = {}
  /\ left # {} => cur \in Reachable /\ left \subseteq Succs(g, cur)
  /\ pc # "idle" => sealed

(* The edges reduce-edge has examined and kept are not redundant. *)
Examined ==
  pc = "reduce-edge" =>
    \A x \in Reachable \ visit : \A v \in Succs(g, x) :
      (x = cur => v \notin left) =>
        \A w \in Succs(g, x) \ {v} : <<w, v>> \notin Paths(g)

IInv == TypeOK /\ WellFormed /\ StaysCoherent /\ MatrixExact /\ Locals /\ Examined

-----------------------------------------------------------------------------
THEOREM InitIInv == Init => IInv
<1> SUFFICES ASSUME Init PROVE IInv
  OBVIOUS
<1>1. PICK allocated \in SUBSET Inner, type \in [Node -> NodeType] :
        g = Fresh(type, allocated)
  BY DEF Init
<1>2. g \in Graphs /\ WellFormed
  BY <1>1, FreshWellFormed DEF WellFormed
<1>3. entry \in g.members /\ exit \in g.members
  BY <1>1 DEF Fresh
<1>4. TypeOK /\ StaysCoherent /\ MatrixExact /\ Locals /\ Examined
  BY <1>2, <1>3, NodeAssumption
     DEF Init, TypeOK, StaysCoherent, MatrixExact, Locals, Examined
<1> QED
  BY <1>2, <1>4 DEF IInv

-----------------------------------------------------------------------------
(* One lemma per action of the system. *)
LEMMA RecordIInv ==
  ASSUME IInv, NEW u \in g.members, NEW v \in g.members, Record(u, v)
  PROVE  IInv'
<1>1. g \in Graphs /\ EdgesMirrored(g) /\ SimpleEdges(g) /\ Acyclic(g)
  BY DEF IInv, TypeOK, WellFormed
<1>2. g' = Precedes(g, u, v) /\ g.successors[u][v] = 0 /\ <<v, u>> \notin Paths(g)
  BY DEF Record
<1>3. g' \in Graphs /\ g'.members = g.members
  BY <1>1, <1>2, PrecedesEdges
<1>4. WellFormed'
  BY <1>1, <1>2, PrecedesEdges, PrecedesAcyclic DEF WellFormed
<1>5. TypeOK'
  BY <1>3 DEF IInv, TypeOK, Record
<1>6. StaysCoherent' /\ MatrixExact' /\ Locals' /\ Examined'
  BY <1>3 DEF IInv, Locals, Record, StaysCoherent, MatrixExact, Examined
<1> QED
  BY <1>4, <1>5, <1>6 DEF IInv

LEMMA StartReduceNodeIInv ==
  ASSUME IInv, StartReduceNode
  PROVE  IInv'
<1>1. g' = g /\ g \in Graphs
  BY DEF IInv, TypeOK, StartReduceNode
<1>2. Reachable \subseteq g.members /\ g.members \subseteq Node
  BY <1>1 DEF Reachable, After, Graphs
<1>3. Reachable' = Reachable
  BY <1>1 DEF Reachable
<1>4. TypeOK' /\ Locals'
  BY <1>1, <1>2, <1>3 DEF IInv, TypeOK, Locals, StartReduceNode, Inner
<1>5. WellFormed' /\ StaysCoherent' /\ MatrixExact' /\ Examined'
  BY <1>1 DEF IInv, StartReduceNode, WellFormed, StaysCoherent, MatrixExact, Examined
<1> QED
  BY <1>4, <1>5 DEF IInv

LEMMA StartReduceEdgeIInv ==
  ASSUME IInv, StartReduceEdge
  PROVE  IInv'
<1>1. g' = g /\ g \in Graphs
  BY DEF IInv, TypeOK, StartReduceEdge
<1>2. Reachable \subseteq g.members /\ g.members \subseteq Node
  BY <1>1 DEF Reachable, After, Graphs
<1>3. Reachable' = Reachable /\ Reachability' = Reachability
  BY <1>1 DEF Reachable, Reachability
<1>4. Reachability \in SUBSET (Node \X Node)
  BY <1>2 DEF Reachability, Paths
<1>5. TypeOK' /\ Locals'
  BY <1>1, <1>2, <1>3, <1>4 DEF IInv, TypeOK, Locals, StartReduceEdge
<1>6. WellFormed' /\ StaysCoherent' /\ MatrixExact' /\ Examined'
  BY <1>1, <1>3 DEF IInv, StartReduceEdge, WellFormed, StaysCoherent, MatrixExact, Examined
<1> QED
  BY <1>5, <1>6 DEF IInv

(* reduce-node visits a node that is still a member, and removes it only   *)
(* then: the nodes still to be visited stay reachable.                     *)
LEMMA ReduceNodeIInv ==
  ASSUME IInv, NEW u \in Inner, ReduceNode(u)
  PROVE  IInv'
<1>1. /\ g \in Graphs /\ EdgesMirrored(g) /\ SimpleEdges(g) /\ Acyclic(g)
      /\ Coherent(g)
      /\ pc = "reduce-node" /\ pc' = pc /\ sealed' = sealed /\ left = {} /\ left' = {}
      /\ entry \in g.members /\ exit \in g.members
  BY DEF IInv, TypeOK, WellFormed, StaysCoherent, Locals, ReduceNode
<1>2. u \in g.members \ {entry, exit} /\ <<entry, u>> \in Paths(g)
  BY DEF IInv, Locals, ReduceNode, Reachable, After, Inner
<1>3. CASE g' = g
  BY <1>1, <1>3 DEF IInv, TypeOK, WellFormed, StaysCoherent, MatrixExact, Locals, Examined,
                    ReduceNode, Reachable
<1>4. CASE g' = Remove(g, u)
  <2>1. g' \in Graphs /\ g'.members = g.members \ {u}
    BY <1>1, <1>2, <1>4, RemoveType, RemoveKeepsType
  <2>2. WellFormed'
    BY <1>1, <1>2, <1>4, RemoveMirrored, RemoveSimple, RemoveAcyclic DEF WellFormed
  <2>3. Coherent(g')
    BY <1>1, <1>2, <1>4, RemoveCoherent
  <2>4. Reachable' = Reachable \ {u}
    BY <1>1, <1>2, <1>4, <2>1, RemovePaths DEF Reachable, After
  <2>5. TypeOK'
    BY <2>1 DEF IInv, TypeOK, ReduceNode
  <2>6. Locals'
    BY <1>1, <1>2, <2>1, <2>4 DEF IInv, Locals, ReduceNode
  <2>7. StaysCoherent' /\ MatrixExact' /\ Examined'
    BY <1>1, <2>3 DEF StaysCoherent, MatrixExact, Examined
  <2> QED
    BY <2>2, <2>5, <2>6, <2>7 DEF IInv
<1> QED
  BY <1>3, <1>4 DEF ReduceNode

LEMMA VisitEdgesIInv ==
  ASSUME IInv, NEW u \in Node, VisitEdges(u)
  PROVE  IInv'
<1>1. g' = g /\ pc' = pc /\ left = {} /\ u \in visit /\ pc = "reduce-edge"
  BY DEF VisitEdges
<1>2. g \in Graphs /\ Succs(g, u) \subseteq Node
  BY DEF IInv, TypeOK, Succs
<1>3. Reachable' = Reachable /\ Reachability' = Reachability
  BY <1>1 DEF Reachable, Reachability
<1>4. TypeOK' /\ Locals'
  BY <1>1, <1>2, <1>3 DEF IInv, TypeOK, Locals, VisitEdges
<1>5. WellFormed' /\ StaysCoherent' /\ MatrixExact'
  BY <1>1, <1>3 DEF IInv, VisitEdges, WellFormed, StaysCoherent, MatrixExact
<1>6. Examined'
  BY <1>1, <1>3 DEF IInv, Examined, VisitEdges
<1> QED
  BY <1>4, <1>5, <1>6 DEF IInv

(***************************************************************************)
(* reduce-edge decides by the matrix it computed at the start.  As the     *)
(* matrix is exact, an erase changes no path, which keeps it exact.        *)
(***************************************************************************)
LEMMA ReduceEdgeIInv ==
  ASSUME IInv, NEW v \in Node, ReduceEdge(v)
  PROVE  IInv'
<1>1. /\ g \in Graphs /\ EdgesMirrored(g) /\ SimpleEdges(g) /\ Acyclic(g)
      /\ entry \in g.members /\ exit \in g.members
      /\ v \in left /\ left' = left \ {v}
      /\ cur' = cur /\ pc' = pc /\ visit' = visit /\ reach' = reach /\ sealed' = sealed
  BY DEF IInv, TypeOK, WellFormed, Locals, ReduceEdge
<1>2. cur \in Reachable /\ left \subseteq Succs(g, cur)
  BY <1>1 DEF IInv, Locals
<1>3. pc = "reduce-edge" /\ sealed /\ Coherent(g) /\ reach = Reachability
  BY <1>1 DEF IInv, Locals, TypeOK, StaysCoherent, MatrixExact
<1>4. cur \in g.members /\ v \in Succs(g, cur) /\ <<entry, cur>> \in Paths(g)
  BY <1>1, <1>2 DEF Reachable, After
<1>5. ASSUME NEW w \in Succs(g, cur)
      PROVE  <<w, v>> \in reach <=> <<w, v>> \in Paths(g)
  <2>1. <<entry, w>> \in Paths(g)
    BY <1>1, <1>4, EdgesArePaths, PathsTransitive
  <2> QED
    BY <1>3, <2>1 DEF Reachability
<1>6. CASE ~Redundant(cur, v)
  <2>1. g' = g
    BY <1>6 DEF ReduceEdge
  <2>2. \A w \in Succs(g, cur) \ {v} : <<w, v>> \notin Paths(g)
    BY <1>5, <1>6 DEF Redundant
  <2>3. Reachable' = Reachable /\ Reachability' = Reachability
    BY <2>1 DEF Reachable, Reachability
  <2>4. Examined'
    BY <1>1, <2>1, <2>2, <2>3 DEF IInv, Examined
  <2>5. TypeOK' /\ Locals'
    BY <1>1, <1>2, <2>1, <2>3 DEF IInv, TypeOK, Locals
  <2>6. WellFormed' /\ StaysCoherent' /\ MatrixExact'
    BY <1>1, <2>1, <2>3 DEF IInv, WellFormed, StaysCoherent, MatrixExact
  <2> QED
    BY <2>4, <2>5, <2>6 DEF IInv
<1>7. CASE Redundant(cur, v)
  <2>1. g' = Erase(g, cur, v)
    BY <1>7 DEF ReduceEdge
  <2>2. PICK w \in Succs(g, cur) \ {v} : <<w, v>> \in Paths(g)
    BY <1>5, <1>7 DEF Redundant
  <2>3. g' \in Graphs /\ g'.members = g.members /\ Paths(g') = Paths(g)
    BY <1>1, <1>4, <2>1, <2>2, EraseLists, ErasePaths
  <2>4. \A x \in g.members : Succs(g', x) = IF x = cur THEN Succs(g, cur) \ {v}
                                                        ELSE Succs(g, x)
    BY <1>1, <1>4, <2>1, EraseLists DEF Graphs
  <2>5. Reachable' = Reachable /\ Reachability' = Reachability
    BY <2>3 DEF Reachable, After, Reachability
  <2>6. Examined'
    BY <1>1, <1>4, <2>3, <2>4, <2>5 DEF IInv, Examined, Reachable, After
  <2>7. TypeOK' /\ Locals'
    BY <1>1, <1>2, <1>4, <2>3, <2>4, <2>5 DEF IInv, TypeOK, Locals
  <2>8. WellFormed'
    BY <1>1, <1>4, <2>1, <2>2, EraseLists, EraseAcyclic DEF WellFormed
  <2>9. StaysCoherent' /\ MatrixExact'
    BY <1>1, <1>3, <1>4, <2>1, <2>2, <2>5, EraseCoherent DEF StaysCoherent, MatrixExact
  <2> QED
    BY <2>6, <2>7, <2>8, <2>9 DEF IInv
<1> QED
  BY <1>6, <1>7

LEMMA EndPassIInv ==
  ASSUME IInv, EndPass
  PROVE  IInv'
<1>1. g' = g /\ visit = {} /\ left = {} /\ Reachable' = Reachable
  BY DEF EndPass, Reachable
<1>2. TypeOK' /\ Locals'
  BY <1>1, NodeAssumption DEF IInv, TypeOK, Locals, EndPass
<1>3. WellFormed' /\ StaysCoherent' /\ MatrixExact' /\ Examined'
  BY <1>1 DEF IInv, EndPass, WellFormed, StaysCoherent, MatrixExact, Examined
<1> QED
  BY <1>2, <1>3 DEF IInv

LEMMA StutterIInv ==
  ASSUME IInv, UNCHANGED vars
  PROVE  IInv'
BY DEF vars, IInv, TypeOK, WellFormed, StaysCoherent, MatrixExact, Locals, Examined,
       Reachable, Reachability

THEOREM NextIInv == IInv /\ [Next]_vars => IInv'
<1> SUFFICES ASSUME IInv, [Next]_vars PROVE IInv'
  OBVIOUS
<1>1. ASSUME NEW u \in g.members, NEW v \in g.members, Record(u, v) PROVE IInv'
  BY <1>1, RecordIInv
<1>2. CASE StartReduceNode
  BY <1>2, StartReduceNodeIInv
<1>3. ASSUME NEW u \in Inner, ReduceNode(u) PROVE IInv'
  BY <1>3, ReduceNodeIInv
<1>4. CASE StartReduceEdge
  BY <1>4, StartReduceEdgeIInv
<1>5. ASSUME NEW u \in Node, VisitEdges(u) PROVE IInv'
  BY <1>5, VisitEdgesIInv
<1>6. ASSUME NEW v \in Node, ReduceEdge(v) PROVE IInv'
  BY <1>6, ReduceEdgeIInv
<1>7. CASE EndPass
  BY <1>7, EndPassIInv
<1>8. CASE UNCHANGED vars
  BY <1>8, StutterIInv
<1> QED
  BY <1>1, <1>2, <1>3, <1>4, <1>5, <1>6, <1>7, <1>8 DEF Next

(* The inductive invariant holds in every reachable state. *)
THEOREM Invariance == Spec => []IInv
BY InitIInv, NextIInv, PTL DEF Spec

-----------------------------------------------------------------------------
(* Every variable keeps its type: no list ever loses a node it does not    *)
(* hold (std::list::erase of end()).                                       *)
THEOREM TypeCorrect == Spec => []TypeOK
<1>1. IInv => TypeOK
  BY DEF IInv
<1> QED
  BY <1>1, Invariance, PTL

(* Recording and optimizing never break the DAG: command_graph_node_t's    *)
(* lists stay mirrored and free of repetitions, and no cycle appears.      *)
THEOREM GraphStaysDag == Spec => []WellFormed
<1>1. IInv => WellFormed
  BY DEF IInv
<1> QED
  BY <1>1, Invariance, PTL

(* coherence_checks() holds after every pass, and at every point inside.   *)
THEOREM PassesStayCoherent == Spec => []StaysCoherent
<1>1. IInv => StaysCoherent
  BY DEF IInv
<1> QED
  BY <1>1, Invariance, PTL

(* The reachability matrix of reduce-edge never goes stale.                *)
THEOREM MatrixNeverStale == Spec => []MatrixExact
<1>1. IInv => MatrixExact
  BY DEF IInv
<1> QED
  BY <1>1, Invariance, PTL

(***************************************************************************)
(* A pass changes neither the commands nor their order.                    *)
(***************************************************************************)
LEMMA StepKeepsOrder ==
  ASSUME IInv, [Next]_vars, sealed'
  PROVE  ExecutionOrder' = ExecutionOrder
<1> DEFINE C == Commands \union {entry, exit}
<1>1. /\ g \in Graphs /\ EdgesMirrored(g) /\ SimpleEdges(g) /\ Acyclic(g)
      /\ entry \in g.members /\ exit \in g.members
  BY DEF IInv, TypeOK, WellFormed, Locals
<1>2. CASE g' = g
  BY <1>2 DEF ExecutionOrder, Commands
<1>3. ASSUME NEW u \in Inner, ReduceNode(u), g' = Remove(g, u), g.type[u] = "EMPTY"
      PROVE  ExecutionOrder' = ExecutionOrder
  <2>1. u \in g.members \ {entry, exit}
    BY <1>3 DEF IInv, Locals, ReduceNode, Reachable, After, Inner
  <2>2. g'.members = g.members \ {u} /\ g'.type = g.type
    BY <1>1, <1>3, <2>1, RemoveKeepsType
  <2>3. Commands' = Commands /\ C \subseteq g.members \ {u}
    BY <1>1, <1>3, <2>1, <2>2 DEF Commands
  <2>4. \A a, b \in C : <<a, b>> \in Paths(g') <=> <<a, b>> \in Paths(g)
    BY <1>1, <1>3, <2>1, <2>3, RemovePaths
  <2>5. /\ Precedence(g', C) = {p \in C \X C : p \in Paths(g') /\ p[1] # p[2]}
        /\ Precedence(g, C) = {p \in C \X C : p \in Paths(g) /\ p[1] # p[2]}
    BY DEF Precedence, Paths
  <2> HIDE DEF C
  <2>6. Precedence(g', C) = Precedence(g, C)
    BY <2>4, <2>5
  <2> QED
    BY <2>3, <2>6 DEF ExecutionOrder, C
<1>4. ASSUME NEW v \in Node, ReduceEdge(v), g' = Erase(g, cur, v), Redundant(cur, v)
      PROVE  ExecutionOrder' = ExecutionOrder
  <2>1. cur \in g.members /\ v \in Succs(g, cur)
    BY <1>4 DEF IInv, Locals, ReduceEdge, Reachable, After
  <2>2. pc = "reduce-edge" /\ reach = Reachability
    BY <1>4 DEF IInv, Locals, TypeOK, MatrixExact, ReduceEdge
  <2>3. PICK w \in Succs(g, cur) \ {v} : <<w, v>> \in Paths(g)
    BY <1>4, <2>2 DEF Redundant, Reachability
  <2>4. Paths(g') = Paths(g) /\ g'.members = g.members /\ g'.type = g.type
    BY <1>1, <1>4, <2>1, <2>3, ErasePaths, EraseLists
  <2> QED
    BY <2>4 DEF ExecutionOrder, Precedence, Commands
<1> QED
  BY <1>2, <1>3, <1>4 DEF Next, vars, Record, StartReduceNode, ReduceNode, StartReduceEdge,
                          VisitEdges, ReduceEdge, EndPass

(* reduce-node and reduce-edge preserve the execution order. *)
THEOREM PassesKeepOrder == Spec => OrderKept
<1>1. IInv /\ [Next]_vars => [sealed' => ExecutionOrder' = ExecutionOrder]_vars
  BY StepKeepsOrder
<1> QED
  BY <1>1, Invariance, PTL DEF Spec, OrderKept

(***************************************************************************)
(* No step of a pass loses a command or leaves more edges than there were. *)
(***************************************************************************)
LEMMA StepLowersComplexity ==
  ASSUME IInv, [Next]_vars, sealed'
  PROVE  Commands' = Commands /\ EdgeCount(g') <= EdgeCount(g)
<1>1. g \in Graphs /\ EdgesMirrored(g) /\ SimpleEdges(g) /\ Acyclic(g)
  BY DEF IInv, TypeOK, WellFormed
<1>2. CASE g' = g
  <2>1. EdgeCount(g) \in Nat
    BY <1>1, EdgeSetFinite
  <2> QED
    BY <1>2, <2>1 DEF Commands
<1>3. ASSUME NEW u \in Inner, ReduceNode(u), g' = Remove(g, u),
             g.type[u] = "EMPTY", Worthless(u)
      PROVE  Commands' = Commands /\ EdgeCount(g') <= EdgeCount(g)
  <2>1. u \in g.members
    BY <1>3 DEF IInv, Locals, ReduceNode, Reachable, After
  <2>2. g'.members = g.members \ {u} /\ g'.type = g.type
    BY <1>1, <1>3, <2>1, RemoveKeepsType
  <2>3. Commands' = Commands
    BY <1>3, <2>2 DEF Commands
  <2>4. EdgeCount(g') <= EdgeCount(g)
    BY <1>1, <1>3, <2>1, RemoveCounts DEF Worthless
  <2> QED
    BY <2>3, <2>4
<1>4. ASSUME NEW v \in Node, ReduceEdge(v), g' = Erase(g, cur, v)
      PROVE  Commands' = Commands /\ EdgeCount(g') <= EdgeCount(g)
  <2>1. cur \in g.members /\ v \in Succs(g, cur)
    BY <1>4 DEF IInv, Locals, ReduceEdge, Reachable, After
  <2>2. g'.members = g.members /\ g'.type = g.type
    BY <1>1, <1>4, <2>1, EraseLists
  <2>3. EdgeCount(g') <= EdgeCount(g)
    BY <1>1, <1>4, <2>1, EraseCounts
  <2> QED
    BY <2>2, <2>3 DEF Commands
<1> QED
  BY <1>2, <1>3, <1>4 DEF Next, vars, Record, StartReduceNode, ReduceNode, StartReduceEdge,
                          VisitEdges, ReduceEdge, EndPass

(* reduce-node and reduce-edge never raise the number of edges: a control  *)
(* node goes only where connecting its neighbours costs no more than it.   *)
THEOREM PassesLowerComplexity == Spec => ComplexityFalls
<1>1. IInv /\ [Next]_vars =>
        [sealed' => Commands' = Commands /\ EdgeCount(g') <= EdgeCount(g)]_vars
  BY StepLowersComplexity
<1> QED
  BY <1>1, Invariance, PTL DEF Spec, ComplexityFalls

(* When reduce-edge returns, no redundant edge is left. *)
THEOREM ReduceEdgeComplete == Spec => EdgesReduced
<1>1. IInv /\ [Next]_vars => [pc = "reduce-edge" /\ pc' = "idle" => Reduced(g)]_vars
  <2> SUFFICES ASSUME IInv, Next, pc = "reduce-edge", pc' = "idle"
               PROVE  Reduced(g)
    BY DEF vars
  <2>1. EndPass
    BY DEF Next, Record, StartReduceNode, ReduceNode, StartReduceEdge, VisitEdges, ReduceEdge
  <2>2. visit = {} /\ left = {}
    BY <2>1 DEF EndPass
  <2> QED
    BY <2>2 DEF IInv, Examined, Reachable, After, Reduced
<1> QED
  BY <1>1, Invariance, PTL DEF Spec, EdgesReduced

-----------------------------------------------------------------------------
(***************************************************************************)
(* Any mix of remove() and of the flavours of contract() leaves a DAG with *)
(* one source and one sink, and implements Schedule.                       *)
(***************************************************************************)
EndsKept == entry \in graph.members /\ exit \in graph.members

(* Every member stands for nodes of its own. *)
Shares ==
  /\ \A u \in graph.members : holds[u] # {}
  /\ \A u, v \in graph.members : u # v => holds[u] \intersect holds[v] = {}

EditIInv == EditWellFormed /\ EndsKept /\ Shares

-----------------------------------------------------------------------------
(* The recording the client starts from satisfies it. *)
THEOREM EditInitIInv == EditInit => EditIInv
<1> SUFFICES ASSUME EditInit PROVE EditIInv
  OBVIOUS
<1>1. PICK E \in Recordings : graph = Recorded([u \in Node |-> "EMPTY"], Allocated, E)
  BY DEF EditInit
<1>2. /\ [u \in Node |-> "EMPTY"] \in [Node -> NodeType] /\ Allocated \in SUBSET Inner
      /\ E \in SUBSET ((Allocated \union {entry, exit}) \X (Allocated \union {entry, exit}))
  BY RecordingsAssumption DEF NodeType
<1>3. graph \in Graphs /\ EdgesMirrored(graph) /\ SimpleEdges(graph) /\ graph.members = Allocated \union {entry, exit}
  BY <1>1, <1>2, RecordedLists
<1>4. holds = [u \in Node |-> IF u \in graph.members THEN {u} ELSE {}] /\ graph.members \subseteq Node
  BY <1>3 DEF EditInit, Graphs
<1>5. Shares /\ holds \in [Node -> SUBSET Node]
  BY <1>4 DEF Shares
<1>6. QED
  BY <1>3, <1>5 DEF EditInit, EditIInv, EditWellFormed, EditTypeOK, EndsKept

-----------------------------------------------------------------------------
(* A node that cannot be reached goes without opening a hole either. *)
LEMMA RemoveKeepsCoherent ==
  ASSUME NEW h, Dag(h), Coherent(h), entry \in h.members, exit \in h.members,
         NEW u \in h.members \ {entry, exit}
  PROVE  Coherent(Remove(h, u))
<1> USE DEF Dag
<1> DEFINE k == Remove(h, u)
<1>1. CASE <<entry, u>> \in Paths(h)
  BY <1>1, RemoveCoherent
<1>2. CASE <<entry, u>> \notin Paths(h)
  <2>1. k \in Graphs /\ k.members = h.members \ {u} /\ EdgesMirrored(k)
    BY RemoveType, RemoveKeepsType, RemoveMirrored
  <2>2. u \notin Succs(h, u) /\ u \notin Preds(h, u)
    BY NoWayBack, SuccsArePreds
  <2>3. Succs(k, exit) = {}
    BY <2>2, RemoveEdges DEF Coherent
  <2>4. Preds(k, entry) = {}
    BY <2>2, RemoveEdges DEF Coherent
  <2>5. ASSUME NEW x \in k.members, <<entry, x>> \in Paths(k)
        PROVE  (x # entry => Preds(k, x) # {}) /\ (x # exit => Succs(k, x) # {})
    <3>1. x \in h.members \ {u} /\ <<entry, x>> \in Paths(h)
      BY <2>1, <2>5, RemovePaths
    <3>2. u \notin Succs(h, x)
      BY <1>2, <3>1, EdgesArePaths, PathsTransitive
    <3>3. Succs(k, x) = Succs(h, x)
      BY <3>1, <3>2, RemoveEdges
    <3>4. ASSUME x # entry PROVE Preds(k, x) # {}
      <4>1. PICK z \in After(k, entry) : x \in Succs(k, z)
        BY <2>1, <2>5, <3>4, LastEdge
      <4>2. z \in Preds(k, x)
        BY <2>1, <2>5, <4>1, SuccsArePreds DEF After
      <4>3. QED
        BY <4>2
    <3>5. QED
      BY <3>1, <3>3, <3>4 DEF Coherent
  <2>6. QED
    BY <2>3, <2>4, <2>5 DEF Coherent
<1>3. QED
  BY <1>1, <1>2

LEMMA RemoveNodeIInv ==
  ASSUME EditIInv, NEW u \in Inner, RemoveNode(u)
  PROVE  EditIInv'
<1>1. /\ Dag(graph) /\ Coherent(graph) /\ EndsKept /\ u \in graph.members \ {entry, exit}
      /\ graph' = Remove(graph, u) /\ holds' = holds /\ holds \in [Node -> SUBSET Node]
  BY DEF RemoveNode, Inner, EditIInv, EditWellFormed, EditTypeOK, Dag
<1>2. graph'.members = graph.members \ {u} /\ graph' \in Graphs /\ EdgesMirrored(graph')
  BY <1>1, RemoveType, RemoveKeepsType, RemoveMirrored DEF Dag
<1>3. SimpleEdges(graph') /\ Acyclic(graph')
  BY <1>1, RemoveSimple, RemoveAcyclic DEF Dag
<1>4. Coherent(graph')
  BY <1>1, RemoveKeepsCoherent DEF EndsKept
<1>5. EndsKept' /\ Shares'
  BY <1>1, <1>2 DEF EndsKept, Shares, EditIInv
<1>6. QED
  BY <1>1, <1>2, <1>3, <1>4, <1>5 DEF EditIInv, EditWellFormed, EditTypeOK

(* What a contraction does to the graph and to what the nodes stand for. *)
Contracts(u, v, w) ==
  /\ Contractible(graph, u, v, w) /\ Quotient(graph, graph', u, v, w)
  /\ holds' = [holds EXCEPT ![w] = holds[u] \union holds[v]]

LEMMA FuseContracts ==
  ASSUME EditIInv, NEW u \in Inner, NEW v \in Inner
  PROVE  /\ FuseTwins(u, v) \/ FuseUV(u, v) \/ FuseVU(u, v) => Contracts(u, v, u)
         /\ \A w \in Inner :
              /\ FuseTwinsInto(u, v, w) \/ FuseUVInto(u, v, w) => Contracts(u, v, w)
              /\ FuseVUInto(u, v, w) => Contracts(v, u, w)
<1>1. Dag(graph) /\ graph.members \subseteq Node /\ u \in Node /\ v \in Node
  BY DEF EditIInv, EditWellFormed, EditTypeOK, Dag, Graphs, Inner
<1>2. ASSUME FuseTwins(u, v) PROVE Contracts(u, v, u)
  <2>1. u \in graph.members /\ v \in graph.members /\ u # v /\ AreFalseTwins(graph, u, v) /\ graph' = ContractTwins(graph, u, v)
    BY <1>2 DEF FuseTwins, Edits
  <2>2. Quotient(graph, graph', u, v, u)
    BY <1>1, <2>1, ContractTwinsQuotient
  <2>3. QED
    BY <1>1, <1>2, <2>1, <2>2 DEF Contracts, Contractible, Mergeable, FuseTwins, Inplace
<1>3. ASSUME FuseUV(u, v) PROVE Contracts(u, v, u)
  <2>1. u \in graph.members /\ v \in graph.members /\ u # v /\ AreSequence(graph, u, v) /\ graph' = ContractUV(graph, u, v)
    BY <1>3 DEF FuseUV, Edits
  <2>2. Quotient(graph, graph', u, v, u)
    BY <1>1, <2>1, ContractUVQuotient
  <2>3. QED
    BY <1>1, <1>3, <2>1, <2>2 DEF Contracts, Contractible, Mergeable, FuseUV, Inplace
<1>4. ASSUME FuseVU(u, v) PROVE Contracts(u, v, u)
  <2>1. u \in graph.members /\ v \in graph.members /\ u # v /\ AreSequence(graph, v, u) /\ graph' = ContractVU(graph, u, v)
    BY <1>4 DEF FuseVU, Edits
  <2>2. Quotient(graph, graph', u, v, u)
    BY <1>1, <2>1, ContractVUQuotient
  <2>3. QED
    BY <1>1, <1>4, <2>1, <2>2 DEF Contracts, Contractible, Mergeable, FuseVU, Inplace
<1>5. ASSUME NEW w \in Inner, FuseTwinsInto(u, v, w) PROVE Contracts(u, v, w)
  <2>1. /\ u \in graph.members /\ v \in graph.members /\ u # v /\ AreFalseTwins(graph, u, v)
        /\ w \in Node \ graph.members /\ graph' = ContractTwinsInto(graph, u, v, w)
    BY <1>5 DEF FuseTwinsInto, Edits, Unused, Inner
  <2>2. Quotient(graph, graph', u, v, w)
    BY <1>1, <2>1, ContractTwinsIntoQuotient
  <2>3. QED
    BY <1>1, <1>5, <2>1, <2>2 DEF Contracts, Contractible, Mergeable, FuseTwinsInto, Into
<1>6. ASSUME NEW w \in Inner, FuseUVInto(u, v, w) PROVE Contracts(u, v, w)
  <2>1. /\ u \in graph.members /\ v \in graph.members /\ u # v /\ AreSequence(graph, u, v)
        /\ w \in Node \ graph.members /\ graph' = ContractUVInto(graph, u, v, w)
    BY <1>6 DEF FuseUVInto, Edits, Unused, Inner
  <2>2. Quotient(graph, graph', u, v, w)
    BY <1>1, <2>1, ContractUVIntoQuotient
  <2>3. QED
    BY <1>1, <1>6, <2>1, <2>2 DEF Contracts, Contractible, Mergeable, FuseUVInto, Into
<1>7. ASSUME NEW w \in Inner, FuseVUInto(u, v, w) PROVE Contracts(v, u, w)
  <2>1. /\ u \in graph.members /\ v \in graph.members /\ u # v /\ AreSequence(graph, v, u)
        /\ w \in Node \ graph.members /\ graph' = ContractUVInto(graph, v, u, w)
    BY <1>7 DEF FuseVUInto, Edits, Unused, Inner
  <2>2. Quotient(graph, graph', v, u, w)
    BY <1>1, <2>1, ContractUVIntoQuotient
  <2>3. holds' = [holds EXCEPT ![w] = holds[v] \union holds[u]]
    BY <1>7 DEF FuseVUInto, Into
  <2>4. QED
    BY <1>1, <2>1, <2>2, <2>3 DEF Contracts, Contractible, Mergeable
<1>8. QED
  BY <1>2, <1>3, <1>4, <1>5, <1>6, <1>7

LEMMA ContractsIInv ==
  ASSUME EditIInv, NEW u \in Inner, NEW v \in Inner, NEW w \in Inner, Contracts(u, v, w)
  PROVE  EditIInv'
<1>1. /\ Dag(graph) /\ Coherent(graph) /\ entry \in graph.members /\ exit \in graph.members /\ holds \in [Node -> SUBSET Node]
      /\ Contractible(graph, u, v, w) /\ Quotient(graph, graph', u, v, w)
  BY DEF EditIInv, EditWellFormed, EditTypeOK, Dag, Contracts, EndsKept
<1>2. Dag(graph')
  BY <1>1, QuotientAcyclic
<1>3. Coherent(graph')
  BY <1>1, QuotientCoherent
<1>4. graph'.members = (graph.members \ {u, v}) \union {w} /\ u \in graph.members /\ v \in graph.members /\ graph.members \subseteq Node
  BY <1>1 DEF Quotient, Contractible, Dag, Graphs
<1>5. EndsKept'
  BY <1>1, <1>4 DEF EndsKept, Inner
<1>6. /\ holds' \in [Node -> SUBSET Node] /\ holds'[w] = holds[u] \union holds[v]
      /\ \A x \in Node \ {w} : holds'[x] = holds[x]
  <2>1. holds' = [holds EXCEPT ![w] = holds[u] \union holds[v]] /\ w \in Node /\ u \in Node /\ v \in Node
    BY DEF Contracts, Inner
  <2>2. holds[u] \union holds[v] \in SUBSET Node
    BY <1>1, <2>1
  <2>3. QED
    BY <1>1, <2>1, <2>2
<1>7. Shares'
  <2>1. \A x \in graph'.members : x = w \/ (x \in graph.members /\ x \notin {u, v} /\ holds'[x] = holds[x])
    BY <1>4, <1>6
  <2>2. /\ \A x \in graph.members : holds[x] # {}
        /\ \A x, y \in graph.members : x # y => holds[x] \intersect holds[y] = {}
    BY DEF EditIInv, Shares
  <2>3. \A x \in graph'.members : holds'[x] # {}
    BY <1>4, <1>6, <2>1, <2>2
  <2>4. ASSUME NEW x \in graph'.members, NEW y \in graph'.members, x # y
        PROVE  holds'[x] \intersect holds'[y] = {}
    <3>1. CASE x = w
      <4>1. y \in graph.members /\ y # u /\ y # v /\ holds'[y] = holds[y]
        BY <2>1, <2>4, <3>1
      <4>2. holds[u] \intersect holds[y] = {} /\ holds[v] \intersect holds[y] = {}
        BY <1>4, <2>2, <4>1
      <4>3. QED
        BY <1>6, <3>1, <4>1, <4>2
    <3>2. CASE y = w
      <4>1. x \in graph.members /\ x # u /\ x # v /\ holds'[x] = holds[x]
        BY <2>1, <2>4, <3>2
      <4>2. holds[u] \intersect holds[x] = {} /\ holds[v] \intersect holds[x] = {}
        BY <1>4, <2>2, <4>1
      <4>3. QED
        BY <1>6, <3>2, <4>1, <4>2
    <3>3. CASE x # w /\ y # w
      BY <2>1, <2>2, <2>4, <3>3
    <3>4. QED
      BY <3>1, <3>2, <3>3
  <2>5. QED
    BY <2>3, <2>4 DEF Shares
<1>8. QED
  BY <1>2, <1>3, <1>5, <1>6, <1>7 DEF EditIInv, EditWellFormed, EditTypeOK, Dag

LEMMA EditStutterIInv ==
  ASSUME EditIInv, UNCHANGED editVars
  PROVE  EditIInv'
BY DEF editVars, EditIInv, EditWellFormed, EditTypeOK, EndsKept, Shares

(* Every step contracts two nodes or removes one. *)
LEMMA StepIsEdit ==
  ASSUME EditIInv, EditNext
  PROVE  \/ \E u \in Inner : RemoveNode(u)
         \/ \E u, v, w \in Inner : Contracts(u, v, w)
<1>1. CASE \E u \in Inner : RemoveNode(u)
  BY <1>1
<1>2. ASSUME NEW u \in Inner, NEW v \in Inner, FuseTwins(u, v) \/ FuseUV(u, v) \/ FuseVU(u, v)
      PROVE  \E x, y, z \in Inner : Contracts(x, y, z)
  BY <1>2, FuseContracts
<1>3. ASSUME NEW u \in Inner, NEW v \in Inner, NEW w \in Inner,
             FuseTwinsInto(u, v, w) \/ FuseUVInto(u, v, w) \/ FuseVUInto(u, v, w)
      PROVE  \E x, y, z \in Inner : Contracts(x, y, z)
  BY <1>3, FuseContracts
<1>4. QED
  BY <1>1, <1>2, <1>3 DEF EditNext

THEOREM EditNextIInv == EditIInv /\ [EditNext]_editVars => EditIInv'
<1> SUFFICES ASSUME EditIInv, [EditNext]_editVars PROVE EditIInv'
  OBVIOUS
<1>1. CASE EditNext
  BY <1>1, StepIsEdit, RemoveNodeIInv, ContractsIInv
<1>2. CASE UNCHANGED editVars
  BY <1>2, EditStutterIInv
<1>3. QED
  BY <1>1, <1>2

THEOREM EditInvariance == EditSpec => []EditIInv
BY EditInitIInv, EditNextIInv, PTL DEF EditSpec

(***************************************************************************)
(* Whatever is removed or contracted, in whatever order, the graph is a    *)
(* DAG without duplicate or one-sided edges, with one source and one sink. *)
(***************************************************************************)
THEOREM EditsWellFormed == EditSpec => []EditWellFormed
<1>1. EditIInv => EditWellFormed
  BY DEF EditIInv
<1>2. QED
  BY <1>1, EditInvariance, PTL

-----------------------------------------------------------------------------
(***************************************************************************)
(* The program a graph k stands for when its nodes stand for the blocks f. *)
(***************************************************************************)
BlocksOf(k, f) == {f[u] : u \in k.members}
OrderOf(k, f) == {<<f[p[1]], f[p[2]]>> : p \in {q \in Paths(k) : q[1] # q[2]}}

(* Two blocks are ordered when a path leads from one node to the other. *)
LEMMA OrderPairs ==
  ASSUME NEW k \in Graphs, NEW f, \A x, y \in k.members : f[x] = f[y] => x = y,
         NEW x \in k.members, NEW y \in k.members
  PROVE  <<f[x], f[y]>> \in OrderOf(k, f) <=> <<x, y>> \in Paths(k) /\ x # y
<1>1. ASSUME <<x, y>> \in Paths(k), x # y PROVE <<f[x], f[y]>> \in OrderOf(k, f)
  <2>1. <<x, y>> \in {q \in Paths(k) : q[1] # q[2]}
    BY <1>1
  <2>2. QED
    BY <2>1 DEF OrderOf
<1>2. ASSUME <<f[x], f[y]>> \in OrderOf(k, f) PROVE <<x, y>> \in Paths(k) /\ x # y
  <2>1. PICK q \in Paths(k) : q[1] # q[2] /\ <<f[x], f[y]>> = <<f[q[1]], f[q[2]]>>
    BY <1>2 DEF OrderOf
  <2>2. q = <<q[1], q[2]>> /\ q[1] \in k.members /\ q[2] \in k.members
    BY <2>1 DEF Paths
  <2>3. q[1] = x /\ q[2] = y
    BY <2>1, <2>2
  <2>4. QED
    BY <2>1, <2>2, <2>3
<1>3. QED
  BY <1>1, <1>2

(* p comes from a path of k between two nodes. *)
FromPath(k, f, p) == \E x, y \in k.members : <<x, y>> \in Paths(k) /\ x # y /\ p = <<f[x], f[y]>>

LEMMA OrderElements ==
  ASSUME NEW k \in Graphs, NEW f, NEW p \in OrderOf(k, f)
  PROVE  FromPath(k, f, p)
<1>1. PICK q \in Paths(k) : q[1] # q[2] /\ p = <<f[q[1]], f[q[2]]>>
  BY DEF OrderOf
<1>2. q = <<q[1], q[2]>> /\ q[1] \in k.members /\ q[2] \in k.members
  BY <1>1 DEF Paths
<1>3. QED
  BY <1>1, <1>2 DEF FromPath

(* Two members that share nothing do not stand for the same. *)
LEMMA HoldsInjective ==
  ASSUME Shares
  PROVE  \A x, y \in graph.members : holds[x] = holds[y] => x = y
BY DEF Shares

-----------------------------------------------------------------------------
LEMMA InitSchedule ==
  ASSUME EditIInv
  PROVE  Program!Init
<1>1. Dag(graph) /\ Shares /\ graph \in Graphs
  BY DEF EditIInv, EditWellFormed, EditTypeOK, Dag
<1>2. \A A, B \in BlocksOf(graph, holds) : A # B => A \intersect B = {}
  BY <1>1 DEF BlocksOf, Shares
<1>3. OrderOf(graph, holds) \in SUBSET (BlocksOf(graph, holds) \X BlocksOf(graph, holds))
  <2>1. SUFFICES ASSUME NEW p \in OrderOf(graph, holds)
                 PROVE  p \in BlocksOf(graph, holds) \X BlocksOf(graph, holds)
    OBVIOUS
  <2>2. FromPath(graph, holds, p)
    BY <1>1, OrderElements
  <2>3. QED
    BY <2>2 DEF FromPath, BlocksOf
<1>4. ASSUME NEW A \in BlocksOf(graph, holds) PROVE <<A, A>> \notin OrderOf(graph, holds)
  <2>1. PICK x \in graph.members : A = holds[x]
    BY <1>4 DEF BlocksOf
  <2>2. QED
    BY <1>1, <2>1, HoldsInjective, OrderPairs
<1>5. ASSUME NEW p \in OrderOf(graph, holds), NEW q \in OrderOf(graph, holds), p[2] = q[1]
      PROVE  <<p[1], q[2]>> \in OrderOf(graph, holds)
  <2>1. PICK x, y \in graph.members : <<x, y>> \in Paths(graph) /\ x # y /\ p = <<holds[x], holds[y]>>
    <3>1. FromPath(graph, holds, p)
      BY <1>1, OrderElements
    <3>2. QED
      BY <3>1 DEF FromPath
  <2>2. PICK s, t \in graph.members : <<s, t>> \in Paths(graph) /\ s # t /\ q = <<holds[s], holds[t]>>
    <3>1. FromPath(graph, holds, q)
      BY <1>1, OrderElements
    <3>2. QED
      BY <3>1 DEF FromPath
  <2>3. p[1] = holds[x] /\ p[2] = holds[y] /\ q[1] = holds[s] /\ q[2] = holds[t]
    BY <2>1, <2>2
  <2>4. y = s
    BY <1>1, <1>5, <2>3, HoldsInjective
  <2>5. <<x, t>> \in Paths(graph) /\ x # t
    BY <1>1, <2>1, <2>2, <2>4, PathsTransitive, PathsAntisymmetric
  <2>6. <<holds[x], holds[t]>> \in OrderOf(graph, holds)
    BY <1>1, <2>5, HoldsInjective, OrderPairs
  <2>7. QED
    BY <2>3, <2>6
<1>6. QED
  BY <1>2, <1>3, <1>4, <1>5 DEF Program!Init, Program!StrictOrder, BlocksOf, OrderOf

LEMMA RemoveSchedule ==
  ASSUME EditIInv, EditIInv', NEW u \in Inner, RemoveNode(u)
  PROVE  Program!Next
<1>0. PICK A : A = holds[u]
  OBVIOUS
<1>1. /\ A = holds[u] /\ Dag(graph) /\ u \in graph.members /\ A \subseteq Control /\ graph \in Graphs
      /\ graph' = Remove(graph, u) /\ holds' = holds /\ graph'.members = graph.members \ {u} /\ graph' \in Graphs
  BY <1>0, RemoveKeepsType DEF RemoveNode, EditIInv, EditWellFormed, EditTypeOK, Dag
<1>2. \A x, y \in graph.members : holds[x] = holds[y] => x = y
  BY HoldsInjective DEF EditIInv
<1>3. BlocksOf(graph', holds') = BlocksOf(graph, holds) \ {A} /\ A \in BlocksOf(graph, holds) \ BlocksOf(graph', holds')
  BY <1>1, <1>2 DEF BlocksOf
<1>4. ASSUME NEW p \in OrderOf(graph', holds')
      PROVE  p \in OrderOf(graph, holds) /\ p[1] # A /\ p[2] # A
  <2>1. PICK x, y \in graph'.members : <<x, y>> \in Paths(graph') /\ x # y /\ p = <<holds'[x], holds'[y]>>
    <3>1. FromPath(graph', holds', p)
      BY <1>1, OrderElements
    <3>2. QED
      BY <3>1 DEF FromPath
  <2>2. x \in graph.members \ {u} /\ y \in graph.members \ {u} /\ p = <<holds[x], holds[y]>>
    BY <1>1, <2>1
  <2>3. <<x, y>> \in Paths(graph)
    BY <1>1, <2>1, <2>2, RemovePaths DEF Dag
  <2>4. p \in OrderOf(graph, holds)
    BY <1>1, <1>2, <2>1, <2>2, <2>3, OrderPairs
  <2>5. p[1] = holds[x] /\ p[2] = holds[y]
    BY <2>2
  <2>6. QED
    BY <1>1, <1>2, <2>2, <2>4, <2>5
<1>5. ASSUME NEW p \in OrderOf(graph, holds), p[1] # A, p[2] # A
      PROVE  p \in OrderOf(graph', holds')
  <2>1. PICK x, y \in graph.members : <<x, y>> \in Paths(graph) /\ x # y /\ p = <<holds[x], holds[y]>>
    <3>1. FromPath(graph, holds, p)
      BY <1>1, OrderElements
    <3>2. QED
      BY <3>1 DEF FromPath
  <2>2. x \in graph.members \ {u} /\ y \in graph.members \ {u}
    BY <1>0, <1>5, <2>1
  <2>3. <<x, y>> \in Paths(graph') /\ x \in graph'.members /\ y \in graph'.members
    BY <1>1, <2>1, <2>2, RemovePaths DEF Dag
  <2>4. \A a, b \in graph'.members : holds'[a] = holds'[b] => a = b
    BY <1>1, <1>2
  <2>5. <<holds'[x], holds'[y]>> \in OrderOf(graph', holds')
    BY <1>1, <2>1, <2>3, <2>4, OrderPairs
  <2>6. QED
    BY <1>1, <2>1, <2>5
<1>6. OrderOf(graph', holds') = {p \in OrderOf(graph, holds) : p[1] # A /\ p[2] # A}
  BY <1>4, <1>5
<1>7. Program!Drop(A)
  BY <1>1, <1>3, <1>6 DEF Program!Drop, BlocksOf, OrderOf
<1>8. \E B \in {holds[x] : x \in graph.members} \ {holds[x] : x \in graph.members}' : Program!Drop(B)
  BY <1>3, <1>7 DEF BlocksOf
<1>9. QED
  BY <1>8 DEF Program!Next

(***************************************************************************)
(* A contraction merges the blocks of its operands.                        *)
(***************************************************************************)
LEMMA ContractsBlocks ==
  ASSUME EditIInv, NEW u \in Inner, NEW v \in Inner, NEW w \in Inner, Contracts(u, v, w)
  PROVE  /\ holds[u] # holds[v] /\ holds[u] \in BlocksOf(graph, holds) \ BlocksOf(graph', holds')
         /\ holds[v] \in BlocksOf(graph, holds) \ BlocksOf(graph', holds')
         /\ BlocksOf(graph', holds') =
              (BlocksOf(graph, holds) \ {holds[u], holds[v]}) \union {holds[u] \union holds[v]}
         /\ \A x \in graph.members : holds'[Now(u, v, w, x)] =
              IF holds[x] \in {holds[u], holds[v]} THEN holds[u] \union holds[v] ELSE holds[x]
<1>0. PICK A, B : A = holds[u] /\ B = holds[v]
  OBVIOUS
<1>1. /\ u \in graph.members /\ v \in graph.members /\ u # v /\ w \in Node /\ (w \in {u, v} \/ w \notin graph.members)
      /\ graph.members \subseteq Node /\ graph'.members = (graph.members \ {u, v}) \union {w}
      /\ holds \in [Node -> SUBSET Node] /\ holds' = [holds EXCEPT ![w] = A \union B]
  BY <1>0 DEF Contracts, Contractible, Quotient, EditIInv, EditWellFormed, EditTypeOK, Graphs
<1>2. /\ holds'[w] = A \union B
      /\ \A x \in graph.members \ {u, v} : holds'[x] = holds[x] /\ x \in graph'.members /\ x # w
  BY <1>1
<1>3. /\ A # {} /\ B # {} /\ A \intersect B = {}
      /\ \A x, y \in graph.members : holds[x] = holds[y] => x = y
  BY <1>0, <1>1, HoldsInjective DEF EditIInv, Shares
<1>4. \A x \in graph.members \ {u, v} : holds[x] # A /\ holds[x] # B
  BY <1>0, <1>1, <1>3
<1>5. A # B /\ A # A \union B /\ B # A \union B
  BY <1>3
<1>6. ASSUME NEW x \in graph.members
      PROVE  holds'[Now(u, v, w, x)] = IF holds[x] \in {A, B} THEN A \union B ELSE holds[x]
  BY <1>0, <1>1, <1>2, <1>4 DEF Now
<1>7. BlocksOf(graph', holds') = (BlocksOf(graph, holds) \ {A, B}) \union {A \union B}
  <2>1. ASSUME NEW C \in BlocksOf(graph', holds') PROVE C \in (BlocksOf(graph, holds) \ {A, B}) \union {A \union B}
    <3>1. PICK x \in graph'.members : C = holds'[x]
      BY <2>1 DEF BlocksOf
    <3>2. CASE x = w
      BY <1>2, <3>1, <3>2
    <3>3. CASE x # w
      <4>1. x \in graph.members \ {u, v}
        BY <1>1, <3>1, <3>3
      <4>2. QED
        BY <1>2, <1>4, <3>1, <4>1 DEF BlocksOf
    <3>4. QED
      BY <3>2, <3>3
  <2>2. ASSUME NEW C \in BlocksOf(graph, holds), C \notin {A, B} PROVE C \in BlocksOf(graph', holds')
    <3>1. PICK x \in graph.members : C = holds[x]
      BY <2>2 DEF BlocksOf
    <3>2. x \in graph.members \ {u, v}
      BY <1>0, <2>2, <3>1
    <3>3. QED
      BY <1>2, <3>1, <3>2 DEF BlocksOf
  <2>3. A \union B \in BlocksOf(graph', holds')
    BY <1>1, <1>2 DEF BlocksOf
  <2>4. QED
    BY <2>1, <2>2, <2>3
<1>8. A \in BlocksOf(graph, holds) /\ B \in BlocksOf(graph, holds)
  BY <1>0, <1>1 DEF BlocksOf
<1>9. A \notin BlocksOf(graph', holds') /\ B \notin BlocksOf(graph', holds')
  BY <1>5, <1>7
<1>10. QED
  BY <1>0, <1>5, <1>6, <1>7, <1>8, <1>9

(* No other block can tell the two apart. *)
LEMMA ContractsInterchangeable ==
  ASSUME EditIInv, NEW u \in Inner, NEW v \in Inner, NEW w \in Inner, Contracts(u, v, w),
         NEW x \in graph.members \ {u, v}
  PROVE  /\ <<holds[u], holds[x]>> \in OrderOf(graph, holds) <=> <<holds[v], holds[x]>> \in OrderOf(graph, holds)
         /\ <<holds[x], holds[u]>> \in OrderOf(graph, holds) <=> <<holds[x], holds[v]>> \in OrderOf(graph, holds)
<1>1. u \in graph.members /\ v \in graph.members /\ Mergeable(graph, u, v) /\ Dag(graph) /\ graph \in Graphs
  BY DEF Contracts, Contractible, EditIInv, EditWellFormed, EditTypeOK, Dag
<1>2. \A a, b \in graph.members : holds[a] = holds[b] => a = b
  BY HoldsInjective DEF EditIInv
<1>3. /\ <<x, u>> \in Paths(graph) <=> <<x, v>> \in Paths(graph)
      /\ <<u, x>> \in Paths(graph) <=> <<v, x>> \in Paths(graph)
  BY <1>1, MergeableAlike
<1>4. /\ <<holds[u], holds[x]>> \in OrderOf(graph, holds) <=> <<u, x>> \in Paths(graph)
      /\ <<holds[v], holds[x]>> \in OrderOf(graph, holds) <=> <<v, x>> \in Paths(graph)
  BY <1>1, <1>2, OrderPairs
<1>5. /\ <<holds[x], holds[u]>> \in OrderOf(graph, holds) <=> <<x, u>> \in Paths(graph)
      /\ <<holds[x], holds[v]>> \in OrderOf(graph, holds) <=> <<x, v>> \in Paths(graph)
  BY <1>1, <1>2, OrderPairs
<1>6. QED
  BY <1>3, <1>4, <1>5

(* The order among the blocks after a contraction, pair by pair. *)
LEMMA ContractsOrder ==
  ASSUME EditIInv, EditIInv', NEW u \in Inner, NEW v \in Inner, NEW w \in Inner, Contracts(u, v, w),
         NEW x \in graph.members, NEW y \in graph.members
  PROVE  <<holds'[Now(u, v, w, x)], holds'[Now(u, v, w, y)]>> \in OrderOf(graph', holds')
           <=> /\ <<x, y>> \in Paths(graph)
               /\ Now(u, v, w, x) # Now(u, v, w, y)
<1>1. /\ Dag(graph) /\ graph' \in Graphs /\ Contractible(graph, u, v, w) /\ Quotient(graph, graph', u, v, w)
      /\ Now(u, v, w, x) \in graph'.members /\ Now(u, v, w, y) \in graph'.members
  BY DEF Contracts, EditIInv, EditWellFormed, EditTypeOK, Dag, Quotient, Now
<1>2. \A a, b \in graph'.members : holds'[a] = holds'[b] => a = b
  BY DEF EditIInv, Shares
<1>3. <<holds'[Now(u, v, w, x)], holds'[Now(u, v, w, y)]>> \in OrderOf(graph', holds')
        <=> /\ <<Now(u, v, w, x), Now(u, v, w, y)>> \in Paths(graph')
            /\ Now(u, v, w, x) # Now(u, v, w, y)
  BY <1>1, <1>2, OrderPairs
<1>4. <<x, y>> \in Paths(graph) => <<Now(u, v, w, x), Now(u, v, w, y)>> \in Paths(graph')
  BY <1>1, PathsInQuotient
<1>5. /\ <<Now(u, v, w, x), Now(u, v, w, y)>> \in Paths(graph')
      /\ Now(u, v, w, x) # Now(u, v, w, y)
      => <<x, y>> \in Paths(graph)
  BY <1>1, PathsOfQuotient
<1>6. QED
  BY <1>3, <1>4, <1>5

LEMMA ContractsSchedule ==
  ASSUME EditIInv, EditIInv', NEW u \in Inner, NEW v \in Inner, NEW w \in Inner, Contracts(u, v, w)
  PROVE  Program!Next
<1>0. PICK A, B : A = holds[u] /\ B = holds[v]
  OBVIOUS
<1>1. /\ holds[u] # holds[v] /\ holds[u] \in BlocksOf(graph, holds) \ BlocksOf(graph', holds')
      /\ holds[v] \in BlocksOf(graph, holds) \ BlocksOf(graph', holds')
      /\ BlocksOf(graph', holds') =
           (BlocksOf(graph, holds) \ {holds[u], holds[v]}) \union {holds[u] \union holds[v]}
      /\ \A x \in graph.members : holds'[Now(u, v, w, x)] =
           IF holds[x] \in {holds[u], holds[v]} THEN holds[u] \union holds[v] ELSE holds[x]
  BY ContractsBlocks
<1> DEFINE now(C) == IF C \in {A, B} THEN A \union B ELSE C
<1>2. /\ A # B /\ A \in BlocksOf(graph, holds) \ BlocksOf(graph', holds')
      /\ B \in BlocksOf(graph, holds) \ BlocksOf(graph', holds')
      /\ BlocksOf(graph', holds') = (BlocksOf(graph, holds) \ {A, B}) \union {A \union B}
      /\ \A x \in graph.members : holds'[Now(u, v, w, x)] = now(holds[x])
  BY <1>0, <1>1
<1>3. /\ graph \in Graphs /\ graph' \in Graphs /\ u \in graph.members /\ v \in graph.members
      /\ graph'.members = (graph.members \ {u, v}) \union {w}
  BY DEF EditIInv, EditWellFormed, EditTypeOK, Contracts, Contractible, Quotient
<1>4. \A x, y \in graph.members : holds[x] = holds[y] => x = y
  BY HoldsInjective DEF EditIInv
<1>5. ASSUME NEW C \in BlocksOf(graph, holds) \ {A, B}
      PROVE  /\ <<A, C>> \in OrderOf(graph, holds) <=> <<B, C>> \in OrderOf(graph, holds)
             /\ <<C, A>> \in OrderOf(graph, holds) <=> <<C, B>> \in OrderOf(graph, holds)
  <2>1. PICK x \in graph.members : C = holds[x]
    BY DEF BlocksOf
  <2>2. x \in graph.members \ {u, v}
    BY <1>0, <1>5, <2>1
  <2>3. QED
    BY <1>0, <2>1, <2>2, ContractsInterchangeable
<1> DEFINE kept == OrderOf(graph, holds) \ {<<A, B>>, <<B, A>>}
<1>6. ASSUME NEW p \in OrderOf(graph', holds')
      PROVE  \E q \in kept : p = <<now(q[1]), now(q[2])>>
  <2>1. FromPath(graph', holds', p)
    BY <1>3, OrderElements
  <2>2. PICK a, b \in graph'.members : a # b /\ p = <<holds'[a], holds'[b]>>
    BY <2>1 DEF FromPath
  <2>3. PICK x, y \in graph.members : Now(u, v, w, x) = a /\ Now(u, v, w, y) = b
    BY <1>3 DEF Now
  <2>4. <<x, y>> \in Paths(graph) /\ x # y
    BY <1>6, <2>2, <2>3, ContractsOrder
  <2>5. <<holds[x], holds[y]>> \in OrderOf(graph, holds)
    BY <1>3, <1>4, <2>4, OrderPairs
  <2>6. <<holds[x], holds[y]>> \notin {<<A, B>>, <<B, A>>}
    <3>1. ~(x \in {u, v} /\ y \in {u, v})
      BY <2>2, <2>3 DEF Now
    <3>2. (holds[x] \in {A, B} => x \in {u, v}) /\ (holds[y] \in {A, B} => y \in {u, v})
      BY <1>0, <1>3, <1>4
    <3>3. QED
      BY <3>1, <3>2
  <2>7. p = <<now(holds[x]), now(holds[y])>>
    BY <1>2, <2>2, <2>3
  <2>8. QED
    BY <2>5, <2>6, <2>7
<1>7. ASSUME NEW q \in kept
      PROVE  <<now(q[1]), now(q[2])>> \in OrderOf(graph', holds')
  <2>1. FromPath(graph, holds, q)
    BY <1>3, OrderElements
  <2>2. PICK x, y \in graph.members : <<x, y>> \in Paths(graph) /\ x # y /\ q = <<holds[x], holds[y]>>
    BY <2>1 DEF FromPath
  <2>3. Now(u, v, w, x) # Now(u, v, w, y)
    <3>1. ~((x = u /\ y = v) \/ (x = v /\ y = u))
      BY <1>0, <1>7, <2>2
    <3>2. w \in {u, v} \/ w \notin graph.members
      BY DEF Contracts, Contractible
    <3>3. QED
      BY <2>2, <3>1, <3>2 DEF Now
  <2>4. <<holds'[Now(u, v, w, x)], holds'[Now(u, v, w, y)]>> \in OrderOf(graph', holds')
    BY <2>2, <2>3, ContractsOrder
  <2>5. QED
    BY <1>2, <2>2, <2>4
<1>8. OrderOf(graph', holds') = {<<now(q[1]), now(q[2])>> : q \in kept}
  BY <1>6, <1>7
<1>9. Program!Merge(A, B)
  BY <1>2, <1>5, <1>8 DEF Program!Merge, Program!Interchangeable, BlocksOf, OrderOf
<1>10. \E C, D \in {holds[x] : x \in graph.members} \ {holds[x] : x \in graph.members}' : Program!Merge(C, D)
  BY <1>2, <1>9 DEF BlocksOf
<1>11. QED
  BY <1>10 DEF Program!Next

(***************************************************************************)
(* Any mix of removals and contractions implements Schedule: blocks that   *)
(* nothing can tell apart are merged, blocks without commands dropped, and *)
(* the order of the others is the one that was recorded.                   *)
(***************************************************************************)
THEOREM EditsImplementSchedule == EditSpec => EditsSchedule
<1>1. EditIInv => Program!Init
  BY InitSchedule
<1>2. EditIInv /\ EditIInv' /\ [EditNext]_editVars => [Program!Next]_(Program!vars)
  <2>1. CASE UNCHANGED editVars
    BY <2>1 DEF editVars, Program!vars
  <2>2. ASSUME EditIInv, EditIInv', EditNext PROVE Program!Next
    BY <2>2, StepIsEdit, RemoveSchedule, ContractsSchedule
  <2>3. QED
    BY <2>1, <2>2
<1>3. QED
  BY <1>1, <1>2, EditInitIInv, EditInvariance, PTL DEF EditSpec, EditsSchedule, Program!Spec
=============================================================================
