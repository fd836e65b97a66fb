-------------------------- MODULE BatchPass_proofs --------------------------
(***************************************************************************)
(* The pass batch, for every recorded graph and every set of devices: the  *)
(* islands partition the walk, the rewiring is the quotient by them, and   *)
(* no order between two nodes is lost.                                     *)
(***************************************************************************)
EXTENDS BatchPass, CommandGraph_proofs

(* What the pass never changes: the recorded graph and the walk of it. *)
Recording ==
  /\ origin \in Graphs /\ EdgesMirrored(origin) /\ Acyclic(origin)
  /\ listed \subseteq origin.members
  /\ origin.members \intersect Batch = {}
  /\ \A u, v \in Node : /\ origin.successors[u][v] \in {0, 1}
                        /\ origin.predecessors[v][u] = origin.successors[u][v]
                        /\ origin.successors[u][v] = 1 => u \in listed /\ v \in listed

Partition ==
  /\ UNION island = listed /\ {} \notin island
  /\ \A I, J \in island : I # J => I \intersect J = {}

Alike(u, v) == Candidate(u) /\ Candidate(v) /\ dev[u] = dev[v]

(* A flood edge of the recorded graph: g is no longer that graph once the  *)
(* edges are being moved. *)
Joins(u, v) == Alike(u, v) /\ origin.successors[u][v] > 0

Uncut(S) == \A u, v \in listed : Joins(u, v) => (u \in S <=> v \in S)

(* The islands partition the walk, no flood edge leaves one, and all nodes *)
(* of one are candidates on one device unless it is a single node. *)
Islands ==
  /\ Partition
  /\ \A I \in island : Uncut(I)
  /\ \A I \in island : \A u, v \in I : u = v \/ Alike(u, v)

(* The BATCH nodes in use and the islands that are grouped match. *)
Nested ==
  /\ \A B \in Node \ Batch : inside[B] = {}
  /\ \A B \in Batch : inside[B] # {} => inside[B] \in Grouped
  /\ \A B, C \in Batch : B # C /\ inside[B] # {} => inside[B] # inside[C]
  /\ \A I \in Grouped : \E B \in Batch : inside[B] = I
  /\ \A B \in Batch : \A u \in inside[B] : dev[u] = dev[B]
  /\ g.members = (origin.members \ UNION Grouped) \union {B \in Batch : inside[B] # {}}

(* The recorded edges that are where they were, and the edges that have    *)
(* been added so far. *)
Kept(x, y) ==
  /\ origin.successors[x][y] = 1
  /\ Rep(x) = Rep(y) \/ (Rep(x) = x /\ Rep(y) = y) \/ <<x, y>> \in todo

Added(x, y) ==
  /\ x # y /\ (x \in Batch \/ y \in Batch)
  /\ \E u, v \in listed : /\ origin.successors[u][v] = 1 /\ <<u, v>> \notin todo
                          /\ Rep(u) = x /\ Rep(v) = y

Rewired ==
  \A x, y \in Node : /\ g.successors[x][y] = IF Kept(x, y) \/ Added(x, y) THEN 1 ELSE 0
                     /\ g.predecessors[y][x] = g.successors[x][y]

EndsLinked ==
  /\ todo = {}
  /\ ends = [B \in Batch |-> [entry |-> {u \in inside[B] : Preds(g, u) = {}},
                              exit  |-> {u \in inside[B] : Succs(g, u) = {}}]]

IInv ==
  /\ TypeOK
  /\ Recording
  /\ pc \in {"flood", "fold"} => g = origin /\ inside = NothingNested
  /\ pc # "flood" => Islands
  /\ pc \in {"rewire", "done"} => Nested /\ Rewired /\ todo \subseteq EdgesOf(origin, listed)
  /\ pc = "done" => EndsLinked

-----------------------------------------------------------------------------
(* The recorded graph. *)
LEMMA InitRecording == Init => IInv
<1> SUFFICES ASSUME Init PROVE IInv
  OBVIOUS
<1>1. PICK E \in EdgeSets, l \in Labels : kind = l.kind /\ dev = l.dev /\ g = RecordedGraph(E, kind)
  BY DEF Init
<1>2. kind \in [Node -> Kind] /\ dev \in [Node -> Device]
  BY <1>1, NestedAssumption
<1> DEFINE h == RecordedGraph(E, [u \in Node |-> "control"])
<1> DEFINE allocated == RecordedNodes \ {entry, exit}
<1>3. E \subseteq RecordedNodes \X RecordedNodes /\ Acyclic(h) /\ \A e \in E : e[1] \in After(h, entry)
  BY NestedAssumption
<1>4. /\ allocated \in SUBSET Inner /\ allocated \union {entry, exit} = RecordedNodes
      /\ RecordedNodes \subseteq Node /\ RecordedNodes \intersect Batch = {}
  BY NodeAssumption, NestedAssumption DEF RecordedNodes, Inner
<1> HIDE DEF allocated
<1>5. g \in Graphs /\ EdgesMirrored(g) /\ g.members = RecordedNodes
  <2>1. [u \in Node |-> IF kind[u] = "control" THEN "EMPTY" ELSE "COMMAND"] \in [Node -> NodeType]
    BY DEF NodeType
  <2>2. E \in SUBSET ((allocated \union {entry, exit}) \X (allocated \union {entry, exit}))
    BY <1>3, <1>4
  <2>3. QED
    BY <1>1, <1>4, <2>1, <2>2, RecordedLists DEF RecordedGraph, allocated
<1>6. \A x, y \in Node : /\ g.successors[x][y] = IF <<x, y>> \in E THEN 1 ELSE 0
                         /\ g.predecessors[y][x] = IF <<x, y>> \in E THEN 1 ELSE 0
  BY <1>1 DEF RecordedGraph, Recorded
<1>7. g.successors = h.successors /\ g.members = h.members
  BY <1>1 DEF RecordedGraph, Recorded
<1>8. Paths(g) = Paths(h) /\ After(g, entry) = After(h, entry)
  <2>1. \A G, H : G.successors = H.successors /\ G.members = H.members =>
                    Paths(G) = Paths(H) /\ \A a : After(G, a) = After(H, a)
    BY PathsOfLists
  <2> HIDE DEF h
  <2>2. QED
    BY <1>7, <2>1
<1>9. Acyclic(g)
  <2>1. \A x : Succs(g, x) = Succs(h, x)
    BY <1>7 DEF Succs
  <2> HIDE DEF h
  <2>2. QED
    BY <1>3, <1>7, <1>8, <2>1 DEF Acyclic
<1>10. listed = After(g, entry) /\ origin = g /\ listed \subseteq g.members /\ entry \in g.members
  BY <1>4, <1>5 DEF Init, After
<1>11. ASSUME NEW u \in Node, NEW v \in Node, g.successors[u][v] = 1 PROVE u \in listed /\ v \in listed
  <2>1. <<u, v>> \in E
    BY <1>6, <1>11
  <2>2. u \in listed
    <3> HIDE DEF h
    <3>1. QED
      BY <1>3, <1>8, <1>10, <2>1
  <2>3. v \in Succs(g, u)
    BY <1>11 DEF Succs
  <2>4. QED
    BY <1>5, <1>10, <2>2, <2>3, AfterClosed, ClosedSets
<1>12. Recording
  BY <1>4, <1>5, <1>6, <1>9, <1>10, <1>11 DEF Recording
<1>13. TypeOK
  BY <1>2, <1>4, <1>5, <1>10 DEF Init, TypeOK, NothingNested
<1>14. QED
  BY <1>12, <1>13 DEF IInv, Init
-----------------------------------------------------------------------------
(***************************************************************************)
(* The flood-fill.  The least uncrossed set around a node is the meet of   *)
(* all that contain it.                                                    *)
(***************************************************************************)
LEMMA UncrossedSets ==
  ASSUME NEW S, NEW T, S \in Uncrossed, T \in Uncrossed
  PROVE  /\ S \intersect T # {} => S \intersect T \in Uncrossed
         /\ S \ T # {} => S \ T \in Uncrossed
BY DEF Uncrossed

LEMMA FloodIslands ==
  ASSUME IInv, Flood PROVE Islands'
<1> USE DEF Candidate, Alike, Joins, Uncut, Floods
<1>1. /\ g = origin /\ origin.successors \in Lists /\ listed \subseteq Node
      /\ UNCHANGED <<kind, dev, listed, origin>>
  BY DEF Flood, IInv, Recording, Graphs
<1>2. \A u, v \in listed : origin.successors[u][v] > 0 => Floods(u, v) = Alike(u, v)
  BY <1>1
<1>3. \A I : I \in island' <=> I \in Uncrossed /\ \A T \in Uncrossed : T \subseteq I => T = I
  BY DEF Flood
<1>4. ASSUME NEW u \in listed PROVE \E I \in island' : u \in I
  <2> DEFINE I == {v \in listed : \A S \in Uncrossed : u \in S => v \in S}
  <2>1. I \in Uncrossed
    BY DEF Uncrossed
  <2>2. ASSUME NEW T \in Uncrossed, T \subseteq I PROVE T = I
    <3>1. CASE u \in T
      BY <2>2, <3>1
    <3>2. CASE u \notin T
      <4>1. I \ T \in Uncrossed
        BY <2>1, <2>2, <3>2, UncrossedSets
      <4>2. I \subseteq I \ T
        BY <3>2, <4>1
      <4>3. QED
        BY <2>2, <4>2 DEF Uncrossed
    <3>3. QED
      BY <3>1, <3>2
  <2>3. I \in island'
    BY <1>3, <2>1, <2>2
  <2>4. QED
    BY <2>3
<1>5. Partition'
  <2>1. \A I \in island' : I \subseteq listed /\ I # {}
    BY <1>3 DEF Uncrossed
  <2>2. ASSUME NEW I \in island', NEW J \in island', I \intersect J # {} PROVE I = J
    <3>1. I \intersect J \in Uncrossed
      BY <1>3, <2>2, UncrossedSets
    <3>2. QED
      BY <1>3, <3>1
  <2>3. QED
    BY <1>1, <1>4, <2>1, <2>2 DEF Partition
<1>6. ASSUME NEW I \in island' PROVE Uncut(I)'
  BY <1>1, <1>3 DEF Uncrossed
<1>7. ASSUME NEW I \in island', NEW u \in I, NEW v \in I PROVE (u = v \/ Alike(u, v))'
  <2> DEFINE S == {x \in I : u = x \/ Alike(u, x)}
  <2>1. I \in Uncrossed
    BY <1>3
  <2>2. S \in Uncrossed
    BY <2>1 DEF Uncrossed
  <2>3. S = I
    BY <1>3, <2>2
  <2>4. QED
    BY <1>1, <2>3
<1>8. QED
  BY <1>5, <1>6, <1>7 DEF Islands

(* A round of folding: twin islands are unions of islands of one kind. *)
LEMMA FoldIslands ==
  ASSUME IInv, Fold PROVE Islands'
<1>1. /\ Islands /\ UNCHANGED <<kind, dev, listed, origin>>
      /\ island' = {UNION {J \in island : J = I \/ TwinIslands(I, J)} : I \in island}
  BY DEF IInv, Fold, Folded
<1> DEFINE Class(I) == {J \in island : J = I \/ TwinIslands(I, J)}
<1>2. \A I, J, K \in island : J \in Class(I) /\ J \in Class(K) => Class(I) = Class(K)
  <2>1. \A I, J \in island : TwinIslands(I, J) => TwinIslands(J, I)
    BY DEF TwinIslands
  <2>2. \A I, J, K \in island : TwinIslands(I, J) /\ TwinIslands(J, K) => TwinIslands(I, K)
    <3>1. SUFFICES ASSUME NEW I \in island, NEW J \in island, NEW K \in island,
                          TwinIslands(I, J), TwinIslands(J, K)
                   PROVE  TwinIslands(I, K)
      OBVIOUS
    <3>2. /\ \A u \in I \union K : Candidate(u)
          /\ {dev[u] : u \in I} = {dev[u] : u \in K}
      BY <3>1 DEF TwinIslands
    <3>3. \A L \in island : (Linked(I, L) <=> Linked(K, L)) /\ (Linked(L, I) <=> Linked(L, K))
      BY <3>1 DEF TwinIslands
    <3>4. QED
      BY <3>2, <3>3 DEF TwinIslands
  <2>3. ASSUME NEW I \in island, NEW J \in island, NEW K \in island, J \in Class(I), J \in Class(K)
        PROVE  Class(I) = Class(K)
    <3>1. ASSUME NEW L \in island PROVE L \in Class(I) <=> L \in Class(K)
      BY <2>1, <2>2, <2>3
    <3>2. QED
      BY <3>1
  <2>4. QED
    BY <2>3
<1>3. \A I \in island : I \in Class(I)
  OBVIOUS
<1>4. ASSUME NEW I \in island, NEW u \in UNION Class(I), NEW v \in UNION Class(I)
      PROVE  u = v \/ Alike(u, v)
  <2>1. PICK J \in Class(I), K \in Class(I) : u \in J /\ v \in K
    OBVIOUS
  <2>2. CASE J = K
    BY <1>1, <2>1, <2>2 DEF Islands
  <2>3. CASE J # K
    <3>1. /\ Candidate(u) /\ Candidate(v)
          /\ \A x \in J, y \in K : dev[x] \in {dev[z] : z \in I} /\ dev[y] \in {dev[z] : z \in I}
      BY <2>1, <2>3 DEF TwinIslands
    <3>2. \A y, z \in I : dev[y] = dev[z]
      BY <1>1 DEF Islands, Alike
    <3>3. QED
      BY <2>1, <3>1, <3>2 DEF Alike
  <2>4. QED
    BY <2>2, <2>3
<1>5. ASSUME NEW I \in island PROVE Uncut(UNION Class(I))
  <2>1. SUFFICES ASSUME NEW u \in listed, NEW v \in listed, Joins(u, v)
                 PROVE  u \in UNION Class(I) <=> v \in UNION Class(I)
    BY DEF Uncut
  <2>2. \A J \in island : u \in J <=> v \in J
    BY <1>1, <2>1 DEF Islands, Uncut
  <2>3. QED
    BY <2>2
<1>6. Partition'
  <2>1. \A I \in island : I \subseteq UNION Class(I) /\ UNION Class(I) \subseteq listed /\ UNION Class(I) # {}
    <3>1. ASSUME NEW I \in island
          PROVE  I \subseteq UNION Class(I) /\ UNION Class(I) \subseteq listed /\ UNION Class(I) # {}
      <4>1. I # {} /\ UNION island = listed
        BY <1>1 DEF Islands, Partition
      <4>2. I \subseteq UNION Class(I) /\ UNION Class(I) \subseteq listed
        BY <1>3, <4>1
      <4>3. QED
        BY <4>1, <4>2
    <3>2. QED
      BY <3>1
  <2>2. ASSUME NEW I \in island, NEW K \in island, (UNION Class(I)) \intersect (UNION Class(K)) # {}
        PROVE  Class(I) = Class(K)
    <3>1. PICK J \in Class(I), L \in Class(K) : J \intersect L # {}
      <4>1. PICK x : x \in UNION Class(I) /\ x \in UNION Class(K)
        BY <2>2
      <4>2. PICK J \in Class(I) : x \in J
        BY <4>1
      <4>3. PICK L \in Class(K) : x \in L
        BY <4>1
      <4>4. x \in J \intersect L
        BY <4>2, <4>3
      <4>5. QED
        BY <4>4
    <3>2. J = L
      BY <1>1, <3>1 DEF Islands, Partition
    <3>3. QED
      BY <1>2, <3>2
  <2>3. UNION island' = listed
    <3>1. UNION island' \subseteq listed
      BY <1>1, <2>1
    <3>2. listed \subseteq UNION island'
      BY <1>1, <2>1 DEF Islands, Partition
    <3>3. QED
      BY <3>1, <3>2
  <2>4. {} \notin island'
    BY <1>1, <2>1
  <2>5. ASSUME NEW A \in island', NEW B \in island', A # B PROVE A \intersect B = {}
    <3>1. PICK I \in island : A = UNION Class(I)
      BY <1>1
    <3>2. PICK K \in island : B = UNION Class(K)
      BY <1>1
    <3>3. Class(I) # Class(K)
      BY <2>5, <3>1, <3>2
    <3>4. QED
      BY <2>2, <3>1, <3>2, <3>3
  <2>6. QED
    BY <1>1, <2>3, <2>4, <2>5 DEF Partition
<1>7. \A I \in island' : Uncut(I)'
  BY <1>1, <1>5 DEF Uncut, Joins, Alike, Candidate
<1>8. \A I \in island' : \A u, v \in I : (u = v \/ Alike(u, v))'
  BY <1>1, <1>4 DEF Alike, Candidate
<1>9. QED
  BY <1>6, <1>7, <1>8 DEF Islands
-----------------------------------------------------------------------------
(***************************************************************************)
(* Materialization: every node is in one BATCH node or stands for itself.  *)
(***************************************************************************)
LEMMA HomeOf ==
  ASSUME TypeOK, Recording, Islands, Nested
  PROVE  /\ \A B \in Node : \A u \in inside[B] : B \in Batch /\ u \in listed /\ Rep(u) = B
         /\ \A u \in Node : Rep(u) = u \/ (Rep(u) \in Batch /\ u \in inside[Rep(u)])
         /\ \A u \in listed : Rep(u) = u <=> \A B \in Node : u \notin inside[B]
         /\ listed \intersect Batch = {}
<1>1. listed \intersect Batch = {} /\ listed \subseteq Node /\ Batch \subseteq Node
  BY NestedAssumption DEF Recording, TypeOK, Inner
<1>2. \A B \in Node : \A u \in inside[B] : B \in Batch /\ inside[B] \in island /\ u \in listed
  BY DEF Nested, Islands, Partition, Grouped
<1>3. ASSUME NEW B \in Node, NEW C \in Node, NEW u \in inside[B], u \in inside[C] PROVE B = C
  <2>1. inside[B] = inside[C]
    BY <1>2, <1>3 DEF Islands, Partition
  <2>2. QED
    BY <1>2, <1>3, <2>1 DEF Nested
<1>4. ASSUME NEW B \in Node, NEW u \in inside[B] PROVE Rep(u) = B
  BY <1>3, <1>4 DEF Rep, Home
<1>5. ASSUME NEW u \in Node, Rep(u) # u PROVE Rep(u) \in Batch /\ u \in inside[Rep(u)]
  BY <1>2, <1>5 DEF Rep, Home
<1>6. \A u \in listed : Rep(u) = u <=> \A B \in Node : u \notin inside[B]
  BY <1>1, <1>2, <1>4, <1>5
<1>7. QED
  BY <1>1, <1>2, <1>4, <1>5, <1>6

LEMMA MaterializeIInv ==
  ASSUME IInv, Materialize PROVE IInv'
<1>1. /\ pc = "fold" /\ pc' = "rewire" /\ g = origin /\ TypeOK /\ Recording /\ Islands
      /\ todo' = EdgesOf(origin, listed) /\ UNCHANGED <<kind, ends, listed, island, origin>>
  BY DEF IInv, Materialize
<1>2. PICK node \in Injection(Grouped, Batch) :
        /\ inside' = [B \in Node |-> UNION {I \in Grouped : node[I] = B}]
        /\ dev' = [u \in Node |-> IF inside'[u] = {} THEN dev[u]
                                  ELSE dev[CHOOSE x \in inside'[u] : TRUE]]
        /\ g' = [g EXCEPT !.members = (g.members \ UNION Grouped) \union {node[I] : I \in Grouped}]
  BY DEF Materialize
<1>3. /\ node \in [Grouped -> Batch] /\ \A I, J \in Grouped : node[I] = node[J] => I = J
      /\ Batch \subseteq Node /\ listed \subseteq Node /\ listed \intersect Batch = {}
  BY <1>1, NestedAssumption DEF Injection, IsInjective, Recording, TypeOK, Inner
<1>4. Grouped' = Grouped /\ \A u : Candidate(u)' = Candidate(u)
  BY <1>1 DEF Grouped, Commands, Candidate
<1>5. \A I \in Grouped : I \in island /\ I # {} /\ I \subseteq listed
  BY <1>1 DEF Grouped, Islands, Partition
<1>6. \A I \in Grouped : node[I] \in Batch /\ inside'[node[I]] = I
  <2>1. ASSUME NEW I \in Grouped PROVE {J \in Grouped : node[J] = node[I]} = {I}
    BY <1>3
  <2>2. ASSUME NEW I \in Grouped PROVE inside'[node[I]] = UNION {J \in Grouped : node[J] = node[I]} /\ node[I] \in Batch
    BY <1>2, <1>3
  <2>3. QED
    BY <2>1, <2>2
<1>7. ASSUME NEW B \in Node, inside'[B] # {} PROVE \E I \in Grouped : B = node[I]
  BY <1>2, <1>7
<1>8. \A u \in listed : inside'[u] = {} /\ dev'[u] = dev[u]
  <2>1. ASSUME NEW u \in listed PROVE inside'[u] = {}
    BY <1>3, <1>7
  <2>2. QED
    BY <1>2, <1>3, <2>1
<1>9. inside' \in [Node -> SUBSET Node] /\ dev' \in [Node -> Device]
  <2>1. inside' \in [Node -> SUBSET Node]
    <3>1. \A B \in Node : UNION {I \in Grouped : node[I] = B} \in SUBSET Node
      BY <1>3, <1>5
    <3>2. QED
      BY <1>2, <3>1
  <2>2. \A u \in Node : inside'[u] # {} => (CHOOSE x \in inside'[u] : TRUE) \in Node
    BY <2>1
  <2>3. \A u \in Node : dev'[u] \in Device
    BY <1>1, <1>2, <2>2 DEF TypeOK
  <2>4. QED
    BY <1>2, <2>1, <2>3
<1>10. ASSUME NEW I \in Grouped, NEW u \in I PROVE dev'[u] = dev'[node[I]]
  <2> DEFINE x == CHOOSE x \in I : TRUE
  <2>1. x \in I
    BY <1>5
  <2>2. dev'[node[I]] = dev[x]
    BY <1>2, <1>3, <1>5, <1>6
  <2> HIDE DEF x
  <2>3. dev[u] = dev[x]
    BY <1>1, <1>5, <1>10, <2>1 DEF Islands, Alike
  <2>4. QED
    BY <1>5, <1>8, <2>2, <2>3
<1>11. Nested'
  <2>1. \A B \in Node \ Batch : inside'[B] = {}
    BY <1>3, <1>7
  <2>2. \A B \in Batch : inside'[B] # {} => inside'[B] \in Grouped
    BY <1>3, <1>6, <1>7
  <2>3. ASSUME NEW B \in Batch, NEW C \in Batch, B # C, inside'[B] # {} PROVE inside'[B] # inside'[C]
    BY <1>3, <1>6, <1>7, <2>3
  <2>4. \A I \in Grouped : \E B \in Batch : inside'[B] = I
    BY <1>6
  <2>5. ASSUME NEW B \in Batch, NEW u \in inside'[B] PROVE dev'[u] = dev'[B]
    BY <1>3, <1>6, <1>7, <1>10
  <2>6. {node[I] : I \in Grouped} = {B \in Batch : inside'[B] # {}}
    BY <1>3, <1>5, <1>6, <1>7
  <2>7. g'.members = (origin.members \ UNION Grouped) \union {node[I] : I \in Grouped}
    BY <1>1, <1>2 DEF Recording, Graphs
  <2>8. QED
    BY <1>1, <1>4, <2>1, <2>2, <2>3, <2>4, <2>5, <2>6, <2>7 DEF Nested
<1>12. Recording'
  BY <1>1 DEF Recording
<1>13. Islands'
  <2>1. Partition'
    BY <1>1 DEF Islands, Partition
  <2>2. \A u, v \in listed : (Alike(u, v)' <=> Alike(u, v)) /\ (Joins(u, v)' <=> Joins(u, v))
    BY <1>1, <1>4, <1>8 DEF Alike, Joins
  <2>3. \A I \in island : I \subseteq listed
    BY <1>1 DEF Islands, Partition
  <2>4. QED
    BY <1>1, <2>1, <2>2, <2>3 DEF Islands, Uncut
<1>14. g'.successors = origin.successors /\ g'.predecessors = origin.predecessors /\ g' \in Graphs
  <2>1. g.members \subseteq Node /\ {node[I] : I \in Grouped} \subseteq Node
    BY <1>1, <1>3 DEF TypeOK, Graphs
  <2>2. QED
    BY <1>1, <1>2, <2>1 DEF Recording, Graphs
<1>15. \A u, v \in Node : origin.successors[u][v] = 1 => <<u, v>> \in todo'
  BY <1>1 DEF Recording, EdgesOf
<1>16. Rewired'
  <2>1. ASSUME NEW x \in Node, NEW y \in Node
        PROVE  (Kept(x, y)' <=> origin.successors[x][y] = 1) /\ ~Added(x, y)'
    <3>1. Kept(x, y)' <=> origin.successors[x][y] = 1
      BY <1>1, <1>15 DEF Kept
    <3>2. ~Added(x, y)'
      BY <1>1, <1>3, <1>15 DEF Added
    <3>3. QED
      BY <3>1, <3>2
  <2>2. \A x, y \in Node : /\ origin.successors[x][y] \in {0, 1}
                           /\ origin.predecessors[y][x] = origin.successors[x][y]
    BY <1>1 DEF Recording
  <2>3. QED
    BY <1>14, <2>1, <2>2 DEF Rewired
<1>17. TypeOK'
  BY <1>1, <1>9, <1>14 DEF TypeOK, EdgesOf
<1>18. todo' \subseteq EdgesOf(origin, listed)'
  BY <1>1 DEF EdgesOf
<1>19. QED
  BY <1>1, <1>11, <1>12, <1>13, <1>16, <1>17, <1>18 DEF IInv
-----------------------------------------------------------------------------
(***************************************************************************)
(* Moving an edge: the lists afterwards.                                   *)
(***************************************************************************)
LEMMA MovedLists ==
  ASSUME g \in Graphs, NEW u \in Node, NEW v \in Node, Rep(u) \in Node, Rep(v) \in Node,
         g.successors[u][v] = 1, g.predecessors[v][u] = 1, Rep(u) # u \/ Rep(v) # v,
         g.predecessors[Rep(v)][Rep(u)] = g.successors[Rep(u)][Rep(v)],
         NEW h, h = Moved(u, v)
  PROVE  /\ h \in Graphs /\ h.members = g.members
         /\ \A x, y \in Node :
              /\ h.successors[x][y] = IF x = u /\ y = v THEN 0
                                      ELSE IF x = Rep(u) /\ y = Rep(v) /\ g.successors[x][y] = 0 THEN 1
                                      ELSE g.successors[x][y]
              /\ h.predecessors[y][x] = IF x = u /\ y = v THEN 0
                                        ELSE IF x = Rep(u) /\ y = Rep(v) /\ g.successors[x][y] = 0 THEN 1
                                        ELSE g.predecessors[y][x]
<1> DEFINE cut == Erase(g, u, v)
<1>1. /\ cut.successors = [g.successors EXCEPT ![u] = EraseOne(g.successors[u], v)]
      /\ cut.predecessors = [g.predecessors EXCEPT ![v] = EraseOne(g.predecessors[v], u)]
      /\ cut.type = g.type /\ cut.members = g.members
  BY DEF Erase, Graphs
<1>2. \A x, y \in Node :
        /\ cut.successors[x][y] = IF x = u /\ y = v THEN 0 ELSE g.successors[x][y]
        /\ cut.predecessors[y][x] = IF x = u /\ y = v THEN 0 ELSE g.predecessors[y][x]
  BY <1>1 DEF Graphs, Lists, EraseOne
<1>3. /\ [g.successors EXCEPT ![u] = EraseOne(g.successors[u], v)] \in Lists
      /\ [g.predecessors EXCEPT ![v] = EraseOne(g.predecessors[v], u)] \in Lists
  BY DEF Graphs, Lists, EraseOne
<1>4. cut \in Graphs
  BY <1>3 DEF Erase, Graphs
<1> DEFINE a == Rep(u)
<1> DEFINE b == Rep(v)
<1> HIDE DEF cut, a, b
<1>5. a \in Node /\ b \in Node /\ (a # u \/ b # v)
  BY DEF a, b
<1>6. CASE g.successors[a][b] = 0
  <2>1. h = Precedes(cut, a, b)
    BY <1>6 DEF Moved, cut, a, b
  <2>2. /\ h.successors = [cut.successors EXCEPT ![a] = PushBack(cut.successors[a], b)]
        /\ h.predecessors = [cut.predecessors EXCEPT ![b] = PushBack(cut.predecessors[b], a)]
        /\ h.type = cut.type /\ h.members = cut.members
    BY <1>4, <2>1 DEF Precedes, Graphs
  <2>3. \A x, y \in Node :
          /\ h.successors[x][y] = IF x = a /\ y = b THEN cut.successors[x][y] + 1 ELSE cut.successors[x][y]
          /\ h.predecessors[y][x] = IF x = a /\ y = b THEN cut.predecessors[y][x] + 1 ELSE cut.predecessors[y][x]
    BY <1>4, <1>5, <2>2 DEF Graphs, Lists, PushBack
  <2>4. /\ [cut.successors EXCEPT ![a] = PushBack(cut.successors[a], b)] \in Lists
        /\ [cut.predecessors EXCEPT ![b] = PushBack(cut.predecessors[b], a)] \in Lists
    BY <1>4, <1>5 DEF Graphs, Lists, PushBack
  <2>5. h \in Graphs
    BY <1>4, <2>1, <2>4 DEF Precedes, Graphs
  <2>6. g.predecessors[b][a] = 0
    BY <1>6 DEF a, b
  <2>7. \A x, y \in Node :
          /\ h.successors[x][y] = IF x = u /\ y = v THEN 0
                                  ELSE IF x = a /\ y = b /\ g.successors[x][y] = 0 THEN 1
                                  ELSE g.successors[x][y]
          /\ h.predecessors[y][x] = IF x = u /\ y = v THEN 0
                                    ELSE IF x = a /\ y = b /\ g.successors[x][y] = 0 THEN 1
                                    ELSE g.predecessors[y][x]
    BY <1>2, <1>5, <1>6, <2>3, <2>6
  <2>8. QED
    BY <1>1, <2>2, <2>5, <2>7 DEF a, b
<1>7. CASE g.successors[a][b] # 0
  <2>1. h = cut
    BY <1>7 DEF Moved, cut, a, b
  <2>2. \A x, y \in Node : ~(x = a /\ y = b /\ g.successors[x][y] = 0)
    BY <1>7
  <2>3. \A x, y \in Node :
          /\ h.successors[x][y] = IF x = u /\ y = v THEN 0
                                  ELSE IF x = a /\ y = b /\ g.successors[x][y] = 0 THEN 1
                                  ELSE g.successors[x][y]
          /\ h.predecessors[y][x] = IF x = u /\ y = v THEN 0
                                    ELSE IF x = a /\ y = b /\ g.successors[x][y] = 0 THEN 1
                                    ELSE g.predecessors[y][x]
    BY <1>2, <2>1, <2>2
  <2>4. h \in Graphs /\ h.members = g.members
    BY <1>1, <1>4, <2>1
  <2>5. QED
    BY <2>3, <2>4 DEF a, b
<1>8. QED
  BY <1>6, <1>7

(***************************************************************************)
(* One edge is rewired.  Edges without a BATCH node only disappear, and an *)
(* edge of a BATCH node is there from the first that is moved on to it.    *)
(***************************************************************************)
LEMMA RewireIInv ==
  ASSUME IInv, NEW u \in Node, NEW v \in Node, Rewire(u, v) PROVE IInv'
<1>1. /\ pc = "rewire" /\ <<u, v>> \in todo /\ todo' = todo \ {<<u, v>>}
      /\ g' = IF Rep(u) = Rep(v) \/ (Rep(u) = u /\ Rep(v) = v) THEN g ELSE Moved(u, v)
      /\ UNCHANGED <<kind, dev, inside, ends, pc, listed, island, origin>>
  BY DEF Rewire
<1>2. /\ TypeOK /\ Recording /\ Islands /\ Nested /\ Rewired /\ todo \subseteq EdgesOf(origin, listed)
      /\ listed \subseteq Node /\ Batch \subseteq Node
  BY <1>1, NestedAssumption DEF IInv, TypeOK, Inner
<1>3. u \in listed /\ v \in listed /\ origin.successors[u][v] = 1
  BY <1>1, <1>2 DEF EdgesOf, Recording
<1>4. /\ listed \intersect Batch = {}
      /\ \A x \in Node : Rep(x) = x \/ Rep(x) \in Batch
      /\ \A x : Rep(x)' = Rep(x)
  BY <1>1, <1>2, HomeOf DEF Rep
<1>5. \A x, y \in Node : (x # u \/ y # v) =>
        /\ Kept(x, y)' <=> Kept(x, y)
        /\ Added(x, y)' <=> Added(x, y) \/ (x # y /\ (x \in Batch \/ y \in Batch) /\ Rep(u) = x /\ Rep(v) = y)
  <2>1. SUFFICES ASSUME NEW x \in Node, NEW y \in Node, x # u \/ y # v
                 PROVE  /\ Kept(x, y)' <=> Kept(x, y)
                        /\ Added(x, y)' <=> Added(x, y) \/ (/\ x # y /\ (x \in Batch \/ y \in Batch)
                                                            /\ Rep(u) = x /\ Rep(v) = y)
    OBVIOUS
  <2>2. Kept(x, y)' <=> Kept(x, y)
    BY <1>1, <1>4, <2>1 DEF Kept
  <2>3. Added(x, y) => Added(x, y)'
    BY <1>1, <1>4 DEF Added
  <2>4. x # y /\ (x \in Batch \/ y \in Batch) /\ Rep(u) = x /\ Rep(v) = y => Added(x, y)'
    BY <1>1, <1>3, <1>4 DEF Added
  <2>5. Added(x, y)' => Added(x, y) \/ (x # y /\ (x \in Batch \/ y \in Batch) /\ Rep(u) = x /\ Rep(v) = y)
    BY <1>1, <1>4 DEF Added
  <2>6. QED
    BY <2>2, <2>3, <2>4, <2>5
<1>6. ~Added(u, v) /\ ~Added(u, v)' /\ Kept(u, v)
  BY <1>1, <1>3, <1>4 DEF Added, Kept
<1>7. g' \in Graphs /\ g'.members = g.members /\ Rewired'
  <2>1. CASE Rep(u) = Rep(v) \/ (Rep(u) = u /\ Rep(v) = v)
    <3>1. g' = g /\ Kept(u, v)'
      BY <1>1, <1>3, <1>4, <2>1 DEF Kept
    <3>2. \A x, y \in Node : ~(x # y /\ (x \in Batch \/ y \in Batch) /\ Rep(u) = x /\ Rep(v) = y)
      BY <1>3, <1>4, <2>1
    <3>3. \A x, y \in Node : (Kept(x, y)' <=> Kept(x, y)) /\ (Added(x, y)' <=> Added(x, y))
      BY <1>5, <1>6, <3>1, <3>2
    <3>4. QED
      BY <1>2, <3>1, <3>3 DEF Rewired, TypeOK
  <2>2. CASE Rep(u) # Rep(v) /\ (Rep(u) # u \/ Rep(v) # v)
    <3>1. Rep(u) \in Node /\ Rep(v) \in Node /\ (Rep(u) \in Batch \/ Rep(v) \in Batch)
      BY <1>2, <1>4, <2>2
    <3>2. /\ g.successors[u][v] = 1 /\ g.predecessors[v][u] = 1
          /\ g.predecessors[Rep(v)][Rep(u)] = g.successors[Rep(u)][Rep(v)]
      BY <1>2, <1>6, <3>1 DEF Rewired
    <3>3. g' = Moved(u, v)
      BY <1>1, <2>2
    <3>4. /\ g' \in Graphs /\ g'.members = g.members
          /\ \A x, y \in Node :
               /\ g'.successors[x][y] = IF x = u /\ y = v THEN 0
                                        ELSE IF x = Rep(u) /\ y = Rep(v) /\ g.successors[x][y] = 0 THEN 1
                                        ELSE g.successors[x][y]
               /\ g'.predecessors[y][x] = IF x = u /\ y = v THEN 0
                                          ELSE IF x = Rep(u) /\ y = Rep(v) /\ g.successors[x][y] = 0 THEN 1
                                          ELSE g.predecessors[y][x]
      BY <1>2, <2>2, <3>1, <3>2, <3>3, MovedLists DEF TypeOK
    <3>5. ~Kept(u, v)'
      BY <1>1, <1>4, <2>2 DEF Kept
    <3>6. \A x, y \in Node : x = Rep(u) /\ y = Rep(v) => Added(x, y)'
      BY <1>3, <1>4, <1>5, <2>2, <3>1
    <3>7. \A x, y \in Node : (x # u \/ y # v) /\ (x # Rep(u) \/ y # Rep(v)) =>
            (Kept(x, y)' <=> Kept(x, y)) /\ (Added(x, y)' <=> Added(x, y))
      BY <1>5
    <3>8. ASSUME NEW x \in Node, NEW y \in Node
          PROVE  /\ g'.successors[x][y] = (IF Kept(x, y) \/ Added(x, y) THEN 1 ELSE 0)'
                 /\ g'.predecessors[y][x] = g'.successors[x][y]
      <4>1. CASE x = u /\ y = v
        BY <1>6, <3>4, <3>5, <4>1
      <4>2. CASE x = Rep(u) /\ y = Rep(v)
        <5>1. g'.successors[x][y] = 1
          BY <1>2, <2>2, <3>4, <4>2 DEF Rewired
        <5>2. g'.predecessors[y][x] = 1
          <6>1. x # u \/ y # v
            BY <2>2, <4>2
          <6>2. g.successors[x][y] = 0 \/ g.predecessors[y][x] = 1
            BY <1>2 DEF Rewired
          <6>3. QED
            BY <3>4, <4>2, <6>1, <6>2
        <5>3. QED
          BY <3>6, <4>2, <5>1, <5>2
      <4>3. CASE (x # u \/ y # v) /\ (x # Rep(u) \/ y # Rep(v))
        <5>1. g'.successors[x][y] = g.successors[x][y] /\ g'.predecessors[y][x] = g.predecessors[y][x]
          BY <3>4, <4>3
        <5>2. (Kept(x, y)' <=> Kept(x, y)) /\ (Added(x, y)' <=> Added(x, y))
          BY <3>7, <4>3
        <5>3. QED
          BY <1>2, <5>1, <5>2 DEF Rewired
      <4>4. QED
        BY <4>1, <4>2, <4>3
    <3>9. QED
      BY <3>4, <3>8 DEF Rewired
  <2>3. QED
    BY <2>1, <2>2
<1>8. Recording' /\ Islands'
  BY <1>1, <1>2 DEF Recording, Islands, Partition, Uncut, Joins, Alike, Candidate
<1>9. Nested'
  <2>1. Grouped' = Grouped
    BY <1>1 DEF Grouped, Commands, Candidate
  <2>2. QED
    BY <1>1, <1>2, <1>7, <2>1 DEF Nested
<1>10. TypeOK'
  BY <1>1, <1>2, <1>7 DEF TypeOK
<1>11. todo' \subseteq EdgesOf(origin, listed)'
  BY <1>1, <1>2 DEF EdgesOf
<1>12. QED
  BY <1>1, <1>7, <1>8, <1>9, <1>10, <1>11 DEF IInv

LEMMA ConnectIInv ==
  ASSUME IInv, Connect PROVE IInv'
<1>1. /\ pc = "rewire" /\ pc' = "done" /\ todo = {}
      /\ UNCHANGED <<g, kind, dev, inside, listed, island, todo, origin>>
      /\ ends' = [B \in Batch |-> [entry |-> {u \in inside[B] : Preds(g, u) = {}},
                                   exit  |-> {u \in inside[B] : Succs(g, u) = {}}]]
  BY DEF Connect
<1>2. TypeOK /\ Recording /\ Islands /\ Nested /\ Rewired
  BY <1>1 DEF IInv
<1>3. Recording' /\ Islands'
  BY <1>1, <1>2 DEF Recording, Islands, Partition, Uncut, Joins, Alike, Candidate
<1>4. Nested'
  <2>1. Grouped' = Grouped
    BY <1>1 DEF Grouped, Commands, Candidate
  <2>2. QED
    BY <1>1, <1>2, <2>1 DEF Nested
<1>5. Rewired'
  BY <1>1, <1>2 DEF Rewired, Kept, Added, Rep
<1>6. EndsLinked'
  BY <1>1 DEF EndsLinked, Preds, Succs
<1>7. ends' \in [Batch -> [entry : SUBSET Node, exit : SUBSET Node]]
  <2>1. \A B \in Batch : inside[B] \subseteq Node
    BY <1>2, NestedAssumption DEF TypeOK, Inner
  <2>2. QED
    BY <1>1, <2>1
<1>8. TypeOK'
  BY <1>1, <1>2, <1>7 DEF TypeOK
<1>9. QED
  BY <1>1, <1>3, <1>4, <1>5, <1>6, <1>8 DEF IInv

LEMMA NextIInv == IInv /\ [Next]_vars => IInv'
<1> SUFFICES ASSUME IInv, [Next]_vars PROVE IInv'
  OBVIOUS
<1>1. CASE UNCHANGED vars
  <2>1. UNCHANGED <<g, kind, dev, inside, ends, pc, listed, island, todo, origin>>
    BY <1>1 DEF vars
  <2>2. (TypeOK' <=> TypeOK) /\ (Recording' <=> Recording)
    BY <2>1 DEF TypeOK, Recording
  <2>3. Islands' <=> Islands
    BY <2>1 DEF Islands, Partition, Uncut, Joins, Alike, Candidate
  <2>4. Nested' <=> Nested
    BY <2>1 DEF Nested, Grouped, Commands, Candidate
  <2>5. Rewired' <=> Rewired
    BY <2>1 DEF Rewired, Kept, Added, Rep
  <2>6. EndsLinked' <=> EndsLinked
    BY <2>1 DEF EndsLinked, Preds, Succs
  <2>7. EdgesOf(origin, listed)' = EdgesOf(origin, listed)
    BY <2>1 DEF EdgesOf
  <2>8. QED
    BY <2>1, <2>2, <2>3, <2>4, <2>5, <2>6, <2>7 DEF IInv
<1>2. CASE Flood
  <2>1. Islands'
    BY <1>2, FloodIslands
  <2>2. /\ pc = "flood" /\ pc' = "fold" /\ TypeOK /\ Recording /\ g = origin /\ inside = NothingNested
        /\ UNCHANGED <<g, kind, dev, inside, ends, listed, todo, origin>>
    BY <1>2 DEF Flood, IInv
  <2>3. TypeOK'
    BY <1>2, <2>2 DEF Flood, Uncrossed, TypeOK
  <2>4. QED
    BY <2>1, <2>2, <2>3 DEF IInv, Recording
<1>3. CASE Fold
  <2>1. Islands'
    BY <1>3, FoldIslands
  <2>2. /\ pc = "fold" /\ pc' = pc /\ TypeOK /\ Recording /\ g = origin /\ inside = NothingNested
        /\ UNCHANGED <<g, kind, dev, inside, ends, listed, todo, origin>>
    BY <1>3 DEF Fold, IInv
  <2>3. TypeOK'
    BY <2>1, <2>2 DEF Islands, Partition, TypeOK
  <2>4. QED
    BY <2>1, <2>2, <2>3 DEF IInv, Recording
<1>4. CASE Materialize
  BY <1>4, MaterializeIInv
<1>5. CASE \E u, v \in Node : Rewire(u, v)
  BY <1>5, RewireIInv
<1>6. CASE Connect
  BY <1>6, ConnectIInv
<1>7. QED
  BY <1>1, <1>2, <1>3, <1>4, <1>5, <1>6 DEF Next

THEOREM Invariance == Spec => []IInv
BY InitRecording, NextIInv, PTL DEF Spec
-----------------------------------------------------------------------------
(* Everything is done: the edges that are left, and those that lead out of *)
(* a member of a sub-graph. *)
LEMMA DoneEdges ==
  ASSUME IInv, Done
  PROVE  /\ TypeOK /\ Recording /\ Islands /\ Nested /\ listed \subseteq Node /\ Batch \subseteq Node
         /\ \A B \in Node : \A u \in inside[B] : B \in Batch /\ u \in listed /\ Rep(u) = B
         /\ \A u \in Node : Rep(u) = u \/ (Rep(u) \in Batch /\ u \in inside[Rep(u)])
         /\ listed \intersect Batch = {}
         /\ \A x, y \in Node :
              /\ g.predecessors[y][x] = g.successors[x][y]
              /\ x \in listed /\ y \in listed =>
                   g.successors[x][y] = IF origin.successors[x][y] = 1
                                            /\ (Rep(x) = Rep(y) \/ (Rep(x) = x /\ Rep(y) = y)) THEN 1 ELSE 0
              /\ x \in Batch \/ y \in Batch =>
                   g.successors[x][y] = IF x # y /\ \E u, v \in listed : /\ origin.successors[u][v] = 1
                                                                         /\ Rep(u) = x /\ Rep(v) = y
                                        THEN 1 ELSE 0
<1>1. /\ TypeOK /\ Recording /\ Islands /\ Nested /\ Rewired /\ todo = {}
      /\ listed \subseteq Node /\ Batch \subseteq Node
  BY NestedAssumption DEF IInv, Done, EndsLinked, TypeOK, Inner
<1>2. /\ \A B \in Node : \A u \in inside[B] : B \in Batch /\ u \in listed /\ Rep(u) = B
      /\ \A u \in Node : Rep(u) = u \/ (Rep(u) \in Batch /\ u \in inside[Rep(u)])
      /\ listed \intersect Batch = {}
  BY <1>1, HomeOf
<1>3. ASSUME NEW x \in Node, NEW y \in Node
      PROVE  /\ g.predecessors[y][x] = g.successors[x][y]
             /\ x \in listed /\ y \in listed =>
                  g.successors[x][y] = IF origin.successors[x][y] = 1
                                           /\ (Rep(x) = Rep(y) \/ (Rep(x) = x /\ Rep(y) = y)) THEN 1 ELSE 0
             /\ x \in Batch \/ y \in Batch =>
                  g.successors[x][y] = IF x # y /\ \E u, v \in listed : /\ origin.successors[u][v] = 1
                                                                        /\ Rep(u) = x /\ Rep(v) = y
                                       THEN 1 ELSE 0
  <2>1. /\ g.predecessors[y][x] = g.successors[x][y]
        /\ g.successors[x][y] = IF Kept(x, y) \/ Added(x, y) THEN 1 ELSE 0
    BY <1>1 DEF Rewired
  <2>2. Kept(x, y) <=> origin.successors[x][y] = 1 /\ (Rep(x) = Rep(y) \/ (Rep(x) = x /\ Rep(y) = y))
    BY <1>1 DEF Kept
  <2>3. Added(x, y) <=> /\ x # y /\ (x \in Batch \/ y \in Batch)
                        /\ \E u, v \in listed : origin.successors[u][v] = 1 /\ Rep(u) = x /\ Rep(v) = y
    BY <1>1 DEF Added
  <2>4. x \in listed /\ y \in listed => ~Added(x, y)
    BY <1>2, <2>3
  <2>5. x \in Batch \/ y \in Batch => ~Kept(x, y)
    BY <1>1, <1>2, <2>2 DEF Recording
  <2>6. QED
    BY <2>1, <2>2, <2>3, <2>4, <2>5
<1>4. QED
  BY <1>1, <1>2, <1>3

(* A recorded edge is inside a sub-graph or between its representatives. *)
LEMMA DoneLinks ==
  ASSUME IInv, Done, NEW u \in listed, NEW v \in Succs(origin, u)
  PROVE  /\ v \in listed
         /\ Rep(u) = Rep(v) => v \in Succs(g, u)
         /\ Rep(u) # Rep(v) => Rep(v) \in Succs(g, Rep(u))
<1>1. u \in Node /\ v \in Node /\ v \in listed /\ origin.successors[u][v] = 1
  <2>1. u \in Node /\ v \in Node /\ origin.successors[u][v] > 0
    BY DoneEdges DEF Succs
  <2>2. origin.successors[u][v] = 1
    BY <2>1, DoneEdges DEF Recording
  <2>3. QED
    BY <2>1, <2>2, DoneEdges DEF Recording
<1>2. CASE Rep(u) = Rep(v)
  BY <1>1, <1>2, DoneEdges DEF Succs
<1>3. CASE Rep(u) # Rep(v)
  <2>1. Rep(u) \in Node /\ Rep(v) \in Node
    BY <1>1, DoneEdges
  <2>2. CASE Rep(u) \in Batch \/ Rep(v) \in Batch
    BY <1>1, <1>3, <2>1, <2>2, DoneEdges DEF Succs
  <2>3. CASE Rep(u) = u /\ Rep(v) = v
    BY <1>1, <1>3, <2>3, DoneEdges DEF Succs
  <2>4. QED
    BY <1>1, <1>3, <2>2, <2>3, DoneEdges
<1>4. QED
  BY <1>1, <1>2, <1>3

-----------------------------------------------------------------------------
(* The top level is the quotient of the recorded graph by the batches. *)
THEOREM BatchIsQuotient == Spec => []TopIsQuotient
<1>1. ASSUME IInv PROVE TopIsQuotient
  <2> SUFFICES ASSUME Done, NEW A \in {Rep(u) : u \in listed}, NEW B \in {Rep(u) : u \in listed}
                 PROVE  LET linked == A # B /\ \E u, v \in listed :
                                        Rep(u) = A /\ Rep(v) = B /\ origin.successors[u][v] > 0
                        IN  /\ g.successors[A][B] = IF linked THEN 1 ELSE 0
                            /\ g.predecessors[B][A] = g.successors[A][B]
    BY DEF TopIsQuotient
  <2>1. PICK a \in listed, b \in listed : A = Rep(a) /\ B = Rep(b)
    OBVIOUS
  <2>2. A \in Node /\ B \in Node /\ a \in Node /\ b \in Node
    BY <1>1, <2>1, DoneEdges
  <2>3. \A u, v \in listed : origin.successors[u][v] > 0 <=> origin.successors[u][v] = 1
    <3>1. \A u, v \in listed : origin.successors[u][v] \in {0, 1}
      BY <1>1, <2>1, DoneEdges DEF Recording
    <3>2. QED
      BY <3>1
  <2>4. CASE A \in Batch \/ B \in Batch
    BY <1>1, <2>1, <2>2, <2>3, <2>4, DoneEdges
  <2>5. CASE A \notin Batch /\ B \notin Batch
    <3>1. A = a /\ B = b /\ Rep(A) = A /\ Rep(B) = B
      BY <1>1, <2>1, <2>2, <2>5, DoneEdges
    <3>2. \A u \in listed : (Rep(u) = A => u = A) /\ (Rep(u) = B => u = B)
      BY <1>1, <2>1, <2>5, DoneEdges
    <3>3. origin.successors[A][B] = 1 => A # B
      <4>1. origin \in Graphs /\ EdgesMirrored(origin) /\ Acyclic(origin) /\ a \in origin.members
        BY <1>1, <2>1, DoneEdges DEF Recording
      <4>2. a \notin Succs(origin, a)
        BY <4>1, NoWayBack
      <4>3. QED
        BY <2>2, <3>1, <4>2 DEF Succs
    <3>4. /\ g.successors[A][B] = IF origin.successors[A][B] = 1 THEN 1 ELSE 0
          /\ g.predecessors[B][A] = g.successors[A][B]
      BY <1>1, <2>1, <2>2, <3>1, DoneEdges
    <3>5. QED
      BY <2>1, <2>3, <3>1, <3>2, <3>3, <3>4
  <2>6. QED
    BY <2>4, <2>5
<1>2. QED
  BY <1>1, Invariance, PTL

(***************************************************************************)
(* When the islands are materialized the last round has folded nothing, so *)
(* that no two of them are twins, and nothing that follows changes that.   *)
(***************************************************************************)
NoTwins == \A I, J \in island : I # J => ~TwinsAtFirst(I, J)

SettledForGood == pc \in {"rewire", "done"} => NoTwins

LEMMA TwinsOfRecording ==
  ASSUME g = origin, NEW I \in island, NEW J \in island, TwinsAtFirst(I, J)
  PROVE  TwinIslands(I, J)
BY DEF TwinsAtFirst, TwinIslands, Linked

(* An island and a twin of it would have been folded into one. *)
LEMMA SettledTwins ==
  ASSUME Islands, Settled, NEW I \in island, NEW J \in island, TwinIslands(I, J)
  PROVE  I = J
<1>1. PICK K : K = UNION {L \in island : L = I \/ TwinIslands(I, L)}
  OBVIOUS
<1>2. K \in island
  BY <1>1 DEF Settled, Folded
<1>3. I \subseteq K /\ J \subseteq K
  BY <1>1
<1>4. I # {} /\ J # {} /\ \A A, B \in island : A # B => A \intersect B = {}
  BY DEF Islands, Partition
<1>5. I = K /\ J = K
  BY <1>2, <1>3, <1>4
<1>6. QED
  BY <1>5

LEMMA MaterializeSettles ==
  ASSUME IInv, Materialize
  PROVE  NoTwins'
<1>1. /\ g = origin /\ Recording /\ TypeOK /\ Islands /\ Settled
      /\ UNCHANGED <<kind, listed, island, origin>>
  BY DEF IInv, Materialize
<1>2. \A u \in listed : dev'[u] = dev[u]
  <2>1. PICK node \in Injection(Grouped, Batch) :
          /\ inside' = [B \in Node |-> UNION {I \in Grouped : node[I] = B}]
          /\ dev' = [u \in Node |-> IF inside'[u] = {} THEN dev[u]
                                    ELSE dev[CHOOSE x \in inside'[u] : TRUE]]
    BY DEF Materialize
  <2>2. /\ node \in [Grouped -> Batch]
        /\ listed \subseteq Node /\ listed \intersect Batch = {}
    BY <1>1, NestedAssumption DEF Injection, IsInjective, Recording, TypeOK, Inner
  <2>3. \A u \in listed : inside'[u] = {}
    BY <2>1, <2>2
  <2>4. QED
    BY <2>1, <2>2, <2>3
<1>3. \A u : Candidate(u)' = Candidate(u)
  BY <1>1 DEF Candidate
<1>4. \A I \in island : I \subseteq listed
  BY <1>1 DEF Islands, Partition
<1>5. ASSUME NEW I \in island, NEW J \in island, TwinsAtFirst(I, J)' PROVE TwinsAtFirst(I, J)
  <2>1. {dev'[u] : u \in I} = {dev[u] : u \in I} /\ {dev'[u] : u \in J} = {dev[u] : u \in J}
    BY <1>2, <1>4
  <2>2. QED
    BY <1>1, <1>3, <1>5, <2>1 DEF TwinsAtFirst
<1>6. QED
  BY <1>1, <1>5, TwinsOfRecording, SettledTwins DEF NoTwins

LEMMA NextSettled == IInv /\ SettledForGood /\ [Next]_vars => SettledForGood'
<1> SUFFICES ASSUME IInv, SettledForGood, [Next]_vars, pc' \in {"rewire", "done"} PROVE NoTwins'
  BY DEF SettledForGood
<1>1. CASE Flood \/ Fold
  BY <1>1 DEF Flood, Fold
<1>2. CASE Materialize
  BY <1>2, MaterializeSettles
<1>3. CASE (\E u, v \in Node : Rewire(u, v)) \/ Connect \/ UNCHANGED vars
  <2>1. pc \in {"rewire", "done"} /\ UNCHANGED <<kind, dev, island, origin>>
    BY <1>3 DEF Rewire, Connect, vars
  <2>2. NoTwins
    BY <2>1 DEF SettledForGood
  <2>3. \A I, J \in island : TwinsAtFirst(I, J)' <=> TwinsAtFirst(I, J)
    BY <2>1 DEF TwinsAtFirst, Candidate
  <2>4. QED
    BY <2>1, <2>2, <2>3 DEF NoTwins
<1>4. QED
  BY <1>1, <1>2, <1>3 DEF Next

LEMMA CommandsCounted ==
  ASSUME TypeOK, NEW I \in island
  PROVE  Cardinality(Commands(I)) \in Nat
<1>1. Commands(I) \subseteq Node /\ IsFiniteSet(Node)
  BY NodeAssumption DEF TypeOK, Commands
<1>2. QED
  BY <1>1, FS_Subset, FS_CardinalityType

(* command_graph_t::pass_batch: no recorded edge and no pair of twins is   *)
(* left between islands that could be one, and every island of candidates  *)
(* with two commands is in a batch as a whole.                             *)
THEOREM IslandsAreMaximal == Spec => []IslandsMaximal
<1>1. ASSUME IInv, SettledForGood PROVE IslandsMaximal
  <2> SUFFICES ASSUME Done
               PROVE  /\ UNION island = listed
                      /\ \A I, J \in island : I # J =>
                           /\ I \intersect J = {}
                           /\ \A u \in I, v \in J :
                                origin.successors[u][v] > 0 /\ Candidate(u) /\ Candidate(v) => dev[u] # dev[v]
                           /\ ~TwinsAtFirst(I, J)
                      /\ \A I \in island : (\A u \in I : Candidate(u)) /\ (\A B \in Batch : inside[B] # I)
                                              => Cardinality(Commands(I)) < 2
    BY DEF IslandsMaximal
  <2>1. Islands /\ Nested /\ Partition /\ NoTwins
    BY <1>1, DoneEdges DEF SettledForGood, Done, Islands
  <2>2. ASSUME NEW I \in island, NEW J \in island, NEW u \in I, NEW v \in J, Joins(u, v)
        PROVE  I = J
    <3>1. u \in listed /\ v \in listed /\ Uncut(I)
      BY <2>1 DEF Islands, Partition
    <3>2. v \in I
      BY <2>2, <3>1 DEF Uncut
    <3>3. QED
      BY <2>1, <3>2 DEF Partition
  <2>3. ASSUME NEW I \in island, \A u \in I : Candidate(u), \A B \in Batch : inside[B] # I
        PROVE  Cardinality(Commands(I)) < 2
    <3>1. I \notin Grouped
      BY <2>1, <2>3 DEF Nested
    <3>2. ~(Cardinality(Commands(I)) >= 2)
      BY <2>3, <3>1 DEF Grouped
    <3>3. Cardinality(Commands(I)) \in Nat
      BY <1>1, CommandsCounted DEF IInv
    <3>4. QED
      BY <3>2, <3>3
  <2>4. QED
    BY <2>1, <2>2, <2>3 DEF Partition, NoTwins, Joins, Alike
<1>2. Init => SettledForGood
  BY DEF Init, SettledForGood
<1>3. QED
  BY <1>1, <1>2, NextSettled, Invariance, PTL DEF Spec

-----------------------------------------------------------------------------
(* A path of the recorded graph leads from representative to representative. *)
LEMMA TopPaths ==
  ASSUME IInv, Done, NEW x \in listed, NEW y \in listed, <<x, y>> \in Paths(origin)
  PROVE  <<Rep(x), Rep(y)>> \in Paths(g)
<1>1. /\ g \in Graphs /\ origin \in Graphs /\ listed \subseteq origin.members /\ listed \subseteq Node
  BY DoneEdges DEF Recording, TypeOK
<1>2. \A z \in listed : Rep(z) \in g.members
  <2>1. SUFFICES ASSUME NEW z \in listed PROVE Rep(z) \in g.members
    OBVIOUS
  <2>2. g.members = (origin.members \ UNION Grouped) \union {B \in Batch : inside[B] # {}}
    BY DoneEdges DEF Nested
  <2>3. CASE Rep(z) # z
    BY <1>1, <2>2, <2>3, DoneEdges
  <2>4. CASE Rep(z) = z
    <3>1. \A B \in Node : z \notin inside[B]
      BY <2>4, DoneEdges
    <3>2. z \notin UNION Grouped
      BY <3>1, DoneEdges DEF Nested
    <3>3. QED
      BY <1>1, <2>2, <2>4, <3>2
  <2>5. QED
    BY <2>3, <2>4
<1>3. SUFFICES ASSUME NEW S \in Closed(g), Rep(x) \in S PROVE Rep(y) \in S
  BY <1>1, <1>2, PathsBySets
<1> DEFINE T == {z \in listed : Rep(z) \in S}
<1>4. T \in Closed(origin)
  <2>1. ASSUME NEW z \in T, NEW w \in Succs(origin, z) PROVE w \in T
    BY <1>1, <1>3, DoneLinks, ClosedSets
  <2>2. QED
    BY <1>1, <2>1, ClosedSets
<1>5. y \in T
  BY <1>1, <1>3, <1>4, PathsBySets
<1>6. QED
  BY <1>5

(* The sub-graph of B on its own. *)
LEMMA SubGraph ==
  ASSUME IInv, Done, NEW B \in Batch, NEW h, h = [g EXCEPT !.members = inside[B]]
  PROVE  /\ h \in Graphs /\ h.members = inside[B] /\ PathsInside(g, inside, B) = Paths(h)
         /\ \A x : Succs(h, x) = Succs(g, x) /\ Preds(h, x) = Preds(g, x)
<1>1. g \in Graphs /\ inside[B] \subseteq Node
  BY DoneEdges DEF TypeOK
<1>2. QED
  BY <1>1 DEF Graphs, PathsInside, Succs, Preds

(* While the top level is acyclic, no path leaves a sub-graph and returns. *)
LEMMA InnerPaths ==
  ASSUME IInv, Done, Acyclic(g), NEW B \in Batch, NEW x \in inside[B], NEW y \in inside[B],
         <<x, y>> \in Paths(origin)
  PROVE  <<x, y>> \in PathsInside(g, inside, B)
<1> DEFINE h == [g EXCEPT !.members = inside[B]]
<1>1. /\ h \in Graphs /\ h.members = inside[B] /\ PathsInside(g, inside, B) = Paths(h)
      /\ \A z : Succs(h, z) = Succs(g, z)
  BY SubGraph
<1> HIDE DEF h
<1>2. /\ g \in Graphs /\ origin \in Graphs /\ listed \subseteq origin.members /\ listed \subseteq Node
      /\ B \in Node /\ inside[B] \subseteq listed /\ \A z \in inside[B] : Rep(z) = B
      /\ \A z \in Node : Rep(z) = z \/ (Rep(z) \in Batch /\ z \in inside[Rep(z)])
      /\ listed \intersect Batch = {} /\ Batch \subseteq Node
  BY DoneEdges DEF Recording, TypeOK
<1>3. \A z \in listed : Rep(z) = B => z \in inside[B]
  BY <1>2
<1>4. SUFFICES ASSUME NEW S \in Closed(h), x \in S PROVE y \in S
  BY <1>1, PathsBySets
<1>5. S \subseteq inside[B] /\ \A z \in S : Succs(g, z) \subseteq S
  BY <1>1, ClosedSets
<1> DEFINE T == S \union {z \in listed : Rep(z) # B /\ <<B, Rep(z)>> \in Paths(g)}
<1>6. ASSUME NEW z \in T, NEW w \in Succs(origin, z) PROVE w \in T
  <2>1. /\ z \in listed /\ w \in listed
        /\ Rep(z) = Rep(w) => w \in Succs(g, z)
        /\ Rep(z) # Rep(w) => Rep(w) \in Succs(g, Rep(z))
    BY <1>2, <1>5, <1>6, DoneLinks
  <2>2. CASE z \in S
    <3>1. Rep(z) = B /\ B \in g.members
      BY <1>2, <1>5, <2>2, DoneEdges DEF Nested
    <3>2. CASE Rep(w) = B
      BY <1>5, <2>1, <2>2, <3>1, <3>2
    <3>3. CASE Rep(w) # B
      <4>1. <<B, Rep(w)>> \in Paths(g)
        <5>1. Rep(w) \in Succs(g, B)
          BY <2>1, <3>1, <3>3
        <5>2. <<w, w>> \in Paths(origin)
          BY <1>2, <2>1, PathsReflexive
        <5>3. Rep(w) \in g.members
          BY <1>2, <2>1, <5>2, TopPaths, PathsOfMembers
        <5>4. QED
          BY <1>2, <3>1, <5>1, <5>3, ClosedSets, PathsBySets
      <4>2. QED
        BY <2>1, <3>3, <4>1
    <3>4. QED
      BY <3>2, <3>3
  <2>3. CASE z \notin S
    <3>1. Rep(z) # B /\ <<B, Rep(z)>> \in Paths(g) /\ Rep(z) \in g.members
      BY <1>2, <1>6, <2>3, PathsOfMembers
    <3>2. Rep(w) # B
      BY <2>1, <3>1 DEF Acyclic
    <3>3. <<B, Rep(w)>> \in Paths(g)
      <4>1. CASE Rep(w) = Rep(z)
        BY <3>1, <4>1
      <4>2. CASE Rep(w) # Rep(z)
        <5>1. <<w, w>> \in Paths(origin)
          BY <1>2, <2>1, PathsReflexive
        <5>2. Rep(w) \in g.members
          BY <1>2, <2>1, <5>1, TopPaths, PathsOfMembers
        <5>3. <<Rep(z), Rep(w)>> \in Paths(g)
          BY <1>2, <2>1, <3>1, <4>2, <5>2, ClosedSets, PathsBySets
        <5>4. QED
          BY <1>2, <3>1, <5>3, PathsTransitive
      <4>3. QED
        BY <4>1, <4>2
    <3>4. QED
      BY <2>1, <3>2, <3>3
  <2>4. QED
    BY <2>2, <2>3
<1>7. T \in Closed(origin)
  <2>1. T \subseteq origin.members
    BY <1>2, <1>5
  <2>2. \A z \in T : Succs(origin, z) \subseteq T
    BY <1>6
  <2> HIDE DEF T
  <2>3. QED
    BY <1>2, <2>1, <2>2, ClosedSets
<1>8. y \in T
  BY <1>2, <1>4, <1>7, PathsBySets
<1>9. QED
  BY <1>2, <1>8

(* Grouping loses no order, as long as the result can be executed at all. *)
THEOREM BatchKeepsOrder == Spec => []OrderNotLost
<1>1. ASSUME IInv PROVE OrderNotLost
  <2>1. SUFFICES ASSUME Done, Acyclic(g), NEW p \in Precedence(origin, listed)
                 PROVE  p \in NestedPrecedence(g, inside, listed)
    BY DEF OrderNotLost
  <2>2. /\ p[1] \in listed /\ p[2] \in listed /\ p[1] # p[2] /\ p \in Paths(origin)
        /\ p = <<p[1], p[2]>>
    BY <2>1 DEF Precedence, Paths
  <2> DEFINE x == p[1]
  <2> DEFINE y == p[2]
  <2>3. x \in Node /\ y \in Node /\ <<x, y>> \in Paths(origin)
    BY <1>1, <2>1, <2>2, DoneEdges
  <2>4. CASE Rep(x) = Rep(y)
    <3>1. Rep(x) \in Batch /\ x \in inside[Rep(x)] /\ y \in inside[Rep(x)]
      BY <1>1, <2>1, <2>2, <2>3, <2>4, DoneEdges
    <3>2. <<x, y>> \in PathsInside(g, inside, Rep(x))
      BY <1>1, <2>1, <2>3, <3>1, InnerPaths
    <3>3. Rep(x) \in {B \in Node : inside[B] # {}}
      BY <1>1, <2>1, <3>1, DoneEdges
    <3>4. QED
      BY <2>2, <2>4, <3>2, <3>3 DEF NestedPrecedence, Rep
  <2>5. CASE Rep(x) # Rep(y)
    <3>1. <<Rep(x), Rep(y)>> \in Paths(g)
      BY <1>1, <2>1, <2>2, <2>3, TopPaths
    <3>2. QED
      BY <2>2, <2>5, <3>1 DEF NestedPrecedence, Rep
  <2>6. QED
    BY <2>4, <2>5
<1>2. QED
  BY <1>1, Invariance, PTL

-----------------------------------------------------------------------------
(* A sub-graph is closed, on one device, and linked to its entry and exit. *)
THEOREM BatchesAreSound == Spec => []SubGraphsSound
<1>1. ASSUME IInv PROVE SubGraphsSound
  <2>1. SUFFICES ASSUME Done, NEW B \in Batch, NEW u \in inside[B]
                 PROVE  /\ dev[u] = dev[B]
                        /\ Succs(g, u) \union Preds(g, u) \subseteq inside[B]
                        /\ \E x \in ends[B].entry : <<x, u>> \in PathsInside(g, inside, B)
                        /\ \E x \in ends[B].exit : <<u, x>> \in PathsInside(g, inside, B)
    BY <1>1 DEF SubGraphsSound, IInv
  <2>2. /\ B \in Node /\ origin \in Graphs /\ EdgesMirrored(origin) /\ Acyclic(origin)
        /\ listed \subseteq origin.members /\ listed \subseteq Node /\ inside[B] \subseteq listed
    BY <1>1, <2>1, DoneEdges DEF Recording
  <2>3. ASSUME NEW v \in inside[B], NEW w \in Node, g.successors[v][w] > 0 \/ g.successors[w][v] > 0
        PROVE  w \in inside[B]
    <3>1. v \in listed /\ v \in Node /\ Rep(v) = B /\ v \notin Batch /\ v # B
      BY <1>1, <2>1, <2>2, DoneEdges
    <3>2. w \notin Batch
      BY <1>1, <2>1, <2>3, <3>1, DoneEdges
    <3>3. w \in listed
      <4>1. Rewired
        BY <1>1, <2>1 DEF IInv, Done
      <4>2. Kept(v, w) \/ Kept(w, v)
        BY <2>3, <3>1, <3>2, <4>1 DEF Rewired, Added
      <4>3. QED
        BY <1>1, <2>1, <3>1, <4>2, DoneEdges DEF Kept, Recording
    <3>4. Rep(w) = B
      BY <1>1, <2>1, <2>3, <3>1, <3>3, DoneEdges
    <3>5. QED
      BY <1>1, <2>1, <2>2, <3>2, <3>4, DoneEdges
  <2>4. ASSUME NEW v \in inside[B] PROVE Succs(g, v) \union Preds(g, v) \subseteq inside[B]
    <3>1. \A w \in Node : g.predecessors[v][w] = g.successors[w][v]
      BY <1>1, <2>1, <2>2, DoneEdges
    <3>2. QED
      BY <2>3, <3>1 DEF Succs, Preds
  <2>5. \A v, w \in inside[B] : w \in Succs(g, v) => w \in Succs(origin, v)
    <3>1. SUFFICES ASSUME NEW v \in inside[B], NEW w \in inside[B], w \in Succs(g, v)
                   PROVE  w \in Succs(origin, v)
      OBVIOUS
    <3>2. v \in listed /\ w \in listed /\ v \in Node /\ w \in Node /\ g.successors[v][w] > 0
      BY <2>2, <3>1 DEF Succs
    <3>3. origin.successors[v][w] = 1
      BY <1>1, <2>1, <3>2, DoneEdges
    <3>4. QED
      BY <3>2, <3>3 DEF Succs
  <2>6. \A v \in Node : \A w \in Node : w \in Preds(g, v) <=> v \in Succs(g, w)
    BY <1>1, <2>1, DoneEdges DEF Succs, Preds
  <2>7. /\ ends[B].entry = {v \in inside[B] : Preds(g, v) = {}}
        /\ ends[B].exit = {v \in inside[B] : Succs(g, v) = {}}
    BY <1>1, <2>1 DEF IInv, EndsLinked, Done
  <2> DEFINE h == [g EXCEPT !.members = inside[B]]
  <2>8. /\ h \in Graphs /\ h.members = inside[B] /\ PathsInside(g, inside, B) = Paths(h)
        /\ \A v : Succs(h, v) = Succs(g, v)
    BY <1>1, <2>1, SubGraph
  <2> HIDE DEF h
  <2>9. \A v \in inside[B] : \A w \in Succs(g, v) : w \in inside[B] /\ <<v, w>> \in Paths(h)
    <3>1. SUFFICES ASSUME NEW v \in inside[B], NEW w \in Succs(g, v)
                   PROVE  w \in inside[B] /\ <<v, w>> \in Paths(h)
      OBVIOUS
    <3>2. w \in inside[B]
      BY <2>4, <3>1
    <3>3. QED
      BY <2>8, <3>1, <3>2, ClosedSets, PathsBySets
  <2>10. \E x \in ends[B].entry : <<x, u>> \in Paths(h)
    <3> DEFINE X == {x \in inside[B] : <<x, u>> \in Paths(h)}
    <3>1. u \in X /\ X \subseteq origin.members
      BY <2>1, <2>2, <2>8, PathsReflexive
    <3>2. PICK x \in X : \A p \in X : x \notin Succs(origin, p)
      <4> HIDE DEF X
      <4>1. QED
        BY <2>2, <3>1, DagHasSource
    <3>3. ASSUME NEW p \in Preds(g, x) PROVE FALSE
      <4>1. p \in inside[B] /\ x \in Succs(g, p)
        BY <2>2, <2>4, <2>6, <3>2, <3>3
      <4>2. <<p, u>> \in Paths(h)
        BY <2>8, <2>9, <3>2, <4>1, PathsTransitive
      <4>3. QED
        BY <2>5, <3>2, <4>1, <4>2
    <3>4. QED
      BY <2>7, <3>2, <3>3
  <2>11. \E x \in ends[B].exit : <<u, x>> \in Paths(h)
    <3> DEFINE X == {x \in inside[B] : <<u, x>> \in Paths(h)}
    <3>1. u \in X /\ X \subseteq origin.members
      BY <2>1, <2>2, <2>8, PathsReflexive
    <3>2. PICK x \in X : \A s \in X : s \notin Succs(origin, x)
      <4> HIDE DEF X
      <4>1. QED
        BY <2>2, <3>1, DagHasSink
    <3>3. ASSUME NEW s \in Succs(g, x) PROVE FALSE
      <4>1. s \in inside[B] /\ <<x, s>> \in Paths(h)
        BY <2>9, <3>2, <3>3
      <4>2. <<u, s>> \in Paths(h)
        BY <2>8, <3>2, <4>1, PathsTransitive
      <4>3. QED
        BY <2>5, <3>2, <3>3, <4>1, <4>2
    <3>4. QED
      BY <2>7, <3>2, <3>3
  <2>12. dev[u] = dev[B]
    BY <1>1, <2>1, DoneEdges DEF Nested
  <2>13. QED
    BY <2>1, <2>4, <2>8, <2>10, <2>11, <2>12
<1>2. QED
  BY <1>1, Invariance, PTL
=============================================================================
