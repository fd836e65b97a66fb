------------------------- MODULE MlirPasses_proofs --------------------------
(***************************************************************************)
(* Theorems about MlirPasses, for every finite set of nodes and everything *)
(* the client may record on them.                                          *)
(***************************************************************************)
EXTENDS MlirPasses, CommandGraph_proofs

-----------------------------------------------------------------------------
(***************************************************************************)
(* The operations S as a graph, whose edges are there or not, however many *)
(* operands they are; and the graph of their groups, where part[a] is what *)
(* the node a stands for.                                                  *)
(***************************************************************************)
Simply(linked, S) ==
  [successors   |-> [u \in Node |-> [v \in Node |-> IF <<u, v>> \in linked THEN 1 ELSE 0]],
   predecessors |-> [v \in Node |-> [u \in Node |-> IF <<u, v>> \in linked THEN 1 ELSE 0]],
   type         |-> [u \in Node |-> "EMPTY"],
   members      |-> S]

Linking(operands, S) == {e \in S \X S : operands[e[2]][e[1]] > 0}
Edges(operands, S) == Simply(Linking(operands, S), S)

Parts(part) == {a \in Node : part[a] # {}}
Crossing(operands, part) ==
  {e \in Parts(part) \X Parts(part) :
     e[1] # e[2] /\ \E x \in part[e[1]], y \in part[e[2]] : operands[y][x] > 0}
Grouped(operands, part) == Simply(Crossing(operands, part), Parts(part))

(* E has the nodes S and the edges L. *)
Consists(E, S, L) ==
  /\ E \in Graphs /\ EdgesMirrored(E) /\ SimpleEdges(E) /\ E.members = S
  /\ \A x \in S : /\ Succs(E, x) = {y \in S : <<x, y>> \in L}
                  /\ Preds(E, x) = {y \in S : <<y, x>> \in L}

LEMMA SimplyGraph ==
  ASSUME NEW S, S \subseteq Node, NEW L, L \subseteq S \X S
  PROVE  Consists(Simply(L, S), S, L)
<1> DEFINE E == Simply(L, S)
<1>1. E.members = S /\ E.type \in [Node -> NodeType]
  BY DEF Simply, NodeType
<1>2. \A u, v \in Node : /\ E.successors[u][v] = IF <<u, v>> \in L THEN 1 ELSE 0
                         /\ E.predecessors[v][u] = IF <<u, v>> \in L THEN 1 ELSE 0
  BY DEF Simply
<1>3. E \in Graphs
  BY <1>1 DEF Simply, Graphs, Lists
<1> HIDE DEF E
<1>4. EdgesMirrored(E)
  BY <1>1, <1>2 DEF EdgesMirrored
<1>5. SimpleEdges(E)
  <2>1. ASSUME NEW u \in Node, NEW v \in Node PROVE E.successors[u][v] <= 1
    <3>1. E.successors[u][v] = 0 \/ E.successors[u][v] = 1
      BY <1>2
    <3>2. QED
      BY <3>1
  <2>2. E.members \subseteq Node
    BY <1>1
  <2>3. QED
    BY <2>1, <2>2 DEF SimpleEdges
<1>6. ASSUME NEW x \in S
      PROVE  /\ Succs(E, x) = {y \in S : <<x, y>> \in L}
             /\ Preds(E, x) = {y \in S : <<y, x>> \in L}
  BY <1>2 DEF Succs, Preds
<1>7. Consists(E, S, L)
  BY <1>1, <1>3, <1>4, <1>5, <1>6 DEF Consists
<1>8. QED
  BY <1>7 DEF E

LEMMA EdgesGraph ==
  ASSUME NEW S, S \subseteq Node, NEW operands, NEW E, E = Edges(operands, S)
  PROVE  /\ E \in Graphs /\ EdgesMirrored(E) /\ SimpleEdges(E) /\ E.members = S
         /\ \A x \in S : \A y :
              /\ y \in Succs(E, x) <=> y \in S /\ operands[y][x] > 0
              /\ y \in Preds(E, x) <=> y \in S /\ operands[x][y] > 0
<1>1. Linking(operands, S) \subseteq S \X S
  BY DEF Linking
<1>2. \A x, y \in S : <<x, y>> \in Linking(operands, S) <=> operands[y][x] > 0
  BY DEF Linking
<1>3. Consists(E, S, Linking(operands, S))
  BY <1>1, SimplyGraph DEF Edges
<1>4. QED
  BY <1>2, <1>3 DEF Consists

(* Paths only depend on who follows whom. *)
LEMMA SamePaths ==
  ASSUME NEW G, NEW H, G.members = H.members, \A x \in G.members : Succs(G, x) = Succs(H, x)
  PROVE  Paths(G) = Paths(H) /\ \A x : After(G, x) = After(H, x)
<1>1. Closed(G) = Closed(H)
  BY DEF Closed
<1>2. QED
  BY <1>1 DEF Paths, Separated, After

(***************************************************************************)
(* When f maps the nodes of H to nodes of G, and every edge to a path,     *)
(* possibly empty, it maps paths to paths.                                 *)
(***************************************************************************)
Maps(f, H, G) ==
  \A x \in H.members : /\ f[x] \in G.members
                       /\ \A y \in Succs(H, x) : y \in H.members /\ <<f[x], f[y]>> \in Paths(G)

LEMMA MapPaths ==
  ASSUME NEW G \in Graphs, EdgesMirrored(G), NEW H \in Graphs, NEW f, Maps(f, H, G),
         NEW x, NEW y, <<x, y>> \in Paths(H)
  PROVE  <<f[x], f[y]>> \in Paths(G)
<1>1. x \in H.members /\ y \in H.members
  BY PathsOfMembers
<1> DEFINE S == {z \in H.members : <<f[x], f[z]>> \in Paths(G)}
<1>2. x \in S
  BY <1>1, PathsReflexive DEF Maps
<1>3. ASSUME NEW z \in S, NEW t \in Succs(H, z) PROVE t \in S
  BY <1>3, PathsTransitive DEF Maps
<1>4. S \in Closed(H)
  BY <1>3, ClosedSets
<1>5. QED
  BY <1>1, <1>2, <1>4, PathsBySets

(* A graph of some of the nodes, each edge of which is a path that is not empty. *)
Coarser(H, G) ==
  /\ H.members \subseteq G.members
  /\ \A x \in H.members : \A y \in Succs(H, x) : y \in H.members /\ x # y /\ <<x, y>> \in Paths(G)

LEMMA CoarserPaths ==
  ASSUME NEW G \in Graphs, EdgesMirrored(G), NEW H \in Graphs, Coarser(H, G),
         NEW x, NEW y, <<x, y>> \in Paths(H)
  PROVE  <<x, y>> \in Paths(G)
<1> DEFINE f == [z \in H.members |-> z]
<1>1. Maps(f, H, G)
  BY DEF Maps, Coarser
<1>2. x \in H.members /\ y \in H.members
  BY PathsOfMembers
<1>3. <<f[x], f[y]>> \in Paths(G)
  BY <1>1, MapPaths
<1>4. QED
  BY <1>2, <1>3

LEMMA CoarserAcyclic ==
  ASSUME NEW G \in Graphs, EdgesMirrored(G), SimpleEdges(G), Acyclic(G), NEW H \in Graphs, Coarser(H, G)
  PROVE  Acyclic(H)
<1>1. ASSUME NEW x \in H.members, NEW y \in Succs(H, x), <<y, x>> \in Paths(H) PROVE FALSE
  <2>1. <<x, y>> \in Paths(G) /\ x # y
    BY DEF Coarser
  <2>2. <<y, x>> \in Paths(G)
    BY <1>1, CoarserPaths
  <2>3. QED
    BY <2>1, <2>2, PathsAntisymmetric DEF Dag
<1>2. QED
  BY <1>1 DEF Acyclic

(* Among some nodes of a DAG, one that no other leads to, and one that leads to no other. *)
LEMMA FirstAndLast ==
  ASSUME NEW G \in Graphs, EdgesMirrored(G), SimpleEdges(G), Acyclic(G),
         NEW X, X \subseteq G.members, X # {}
  PROVE  /\ \E x \in X : \A p \in X : <<p, x>> \in Paths(G) => p = x
         /\ \E x \in X : \A s \in X : <<x, s>> \in Paths(G) => s = x
<1>0. IsFiniteSet(X)
  <2>1. X \subseteq Node
    BY DEF Graphs
  <2>2. QED
    BY <2>1, NodeAssumption, FS_Subset
<1>1. \E x \in X : \A p \in X : <<p, x>> \in Paths(G) => p = x
  <2> DEFINE before(x) == {p \in X : <<p, x>> \in Paths(G)}
             T == {before(x) : x \in X}
  <2>1. T \subseteq SUBSET X /\ T # {}
    OBVIOUS
  <2>2. PICK A \in T : \A B \in T : B \subseteq A => B = A
    <3> HIDE DEF T
    <3>1. QED
      BY <1>0, <2>1, SmallestSet
  <2>3. PICK x \in X : A = before(x)
    BY <2>2
  <2>4. ASSUME NEW p \in X, <<p, x>> \in Paths(G) PROVE p = x
    <3>1. before(p) \subseteq before(x)
      BY <2>4, PathsTransitive
    <3>2. before(p) = before(x)
      BY <2>2, <2>3, <3>1
    <3>3. x \in before(x)
      BY <2>3, PathsReflexive
    <3>4. <<x, p>> \in Paths(G)
      BY <3>2, <3>3
    <3>5. QED
      BY <2>4, <3>4, PathsAntisymmetric DEF Dag
  <2>5. QED
    BY <2>4
<1>2. \E x \in X : \A s \in X : <<x, s>> \in Paths(G) => s = x
  <2> DEFINE after(x) == {s \in X : <<x, s>> \in Paths(G)}
             T == {after(x) : x \in X}
  <2>1. T \subseteq SUBSET X /\ T # {}
    OBVIOUS
  <2>2. PICK A \in T : \A B \in T : B \subseteq A => B = A
    <3> HIDE DEF T
    <3>1. QED
      BY <1>0, <2>1, SmallestSet
  <2>3. PICK x \in X : A = after(x)
    BY <2>2
  <2>4. ASSUME NEW s \in X, <<x, s>> \in Paths(G) PROVE s = x
    <3>1. after(s) \subseteq after(x)
      BY <2>4, PathsTransitive
    <3>2. after(s) = after(x)
      BY <2>2, <2>3, <3>1
    <3>3. x \in after(x)
      BY <2>3, PathsReflexive
    <3>4. <<s, x>> \in Paths(G)
      BY <3>2, <3>3
    <3>5. QED
      BY <2>4, <3>4, PathsAntisymmetric DEF Dag
  <2>5. QED
    BY <2>4
<1>3. QED
  BY <1>1, <1>2

(***************************************************************************)
(* Every node but the entry has a predecessor and every node but the exit  *)
(* a successor.  In a DAG, all are reached from the entry then.            *)
(***************************************************************************)
Framed(E) ==
  /\ entry \in E.members /\ exit \in E.members
  /\ \A x \in E.members : /\ x = entry <=> Preds(E, x) = {}
                          /\ x = exit <=> Succs(E, x) = {}

LEMMA FramedCoherent ==
  ASSUME NEW E \in Graphs, EdgesMirrored(E), SimpleEdges(E), Acyclic(E), Framed(E)
  PROVE  Coherent(E) /\ After(E, entry) = E.members
<1>1. Coherent(E)
  BY DEF Coherent, Framed
<1> DEFINE X == E.members \ After(E, entry)
<1>2. SUFFICES ASSUME X # {} PROVE FALSE
  BY <1>1 DEF After
<1>3. PICK x \in X : \A p \in X : <<p, x>> \in Paths(E) => p = x
  <2> HIDE DEF X
  <2>1. X \subseteq E.members
    BY DEF X
  <2>2. QED
    BY <1>2, <2>1, FirstAndLast
<1>4. After(E, entry) \in Closed(E) /\ entry \in After(E, entry)
  BY AfterClosed DEF Framed
<1>5. PICK p \in Preds(E, x) : TRUE
  BY <1>3, <1>4 DEF Framed
<1>6. p \in E.members /\ x \in Succs(E, p)
  BY <1>3, <1>5, SuccsAreMembers, SuccsArePreds
<1>7. <<p, x>> \in Paths(E) /\ p # x
  BY <1>6, EdgesArePaths, NoWayBack
<1>8. p \in After(E, entry)
  BY <1>3, <1>6, <1>7
<1>9. QED
  BY <1>3, <1>4, <1>6, <1>8, ClosedSets

LEMMA CoherentFramed ==
  ASSUME NEW E \in Graphs, EdgesMirrored(E), Coherent(E), entry \in E.members, exit \in E.members,
         After(E, entry) = E.members
  PROVE  Framed(E)
BY DEF Coherent, Framed, After
-----------------------------------------------------------------------------
(***************************************************************************)
(* The invariant.  While a pass runs, the operations that will be left at  *)
(* its end (Top) are a DAG between entry and exit; the operands of those   *)
(* that have moved into a batch stay inside it.                            *)
(***************************************************************************)
Top == ir.ops \ dead
Block == Edges(ir.operands, Top)

(* The type of a command never changes; of its device, only that of a new batch. *)
Labels ==
  \A u \in Node :
    /\ ir.attr[u].type = cmd[u].type
    /\ u \in Control \union {entry, exit} <=> cmd[u].type = "none"
    /\ u \in Batch <=> cmd[u].type = "batch"
    /\ cmd[u].type = "copy" <=> cmd[u].copy.dim # 0
    /\ cmd[u].type = "copy" <=> ir.attr[u].copy.dim # 0
    /\ u \notin NewBatches => ir.attr[u].dev = cmd[u].dev

(* What the client finds between two calls. *)
AtRest ==
  stage = "idle" =>
    /\ ir = NoOps(cmd) /\ dead = {}
    /\ EdgesMirrored(g) /\ Acyclic(g) /\ Framed(g)
    /\ \A u \in g.members \ Batch, v \in Node : g.successors[u][v] <= 1

Running ==
  stage # "idle" =>
    /\ plan # <<>> /\ (stage = "done" \/ stage = Head(plan))
    /\ dead \subseteq ir.ops /\ (dead # {} => stage = "copy-fuse")
    /\ ir.ops \intersect ir.nested = {} /\ (ir.nested # {} => Head(plan) = "batch")
    /\ Acyclic(Block) /\ Framed(Block)
    /\ \A v \in ir.ops, u \in Node \ Top : ir.operands[v][u] = 0
    /\ \A v \in Node \ (ir.ops \union ir.nested), u \in Node : ir.operands[v][u] = 0
    /\ \A u \in ir.ops \ Batch, v \in ir.ops : ir.operands[v][u] <= 1
    /\ stage = "reduce-node" => todo \subseteq ir.ops \ {entry, exit}
    /\ stage \in {"copy-fuse", "prog-fuse"} => todo \subseteq Top \ {entry, exit}
    /\ stage = "reduce-edge" => todo \subseteq ir.ops
    /\ stage = "copy-fuse" => \A u \in todo : ir.attr[u].copy.dim = 1

(* The nodes that stand for something. *)
Present == IF stage = "idle" THEN g.members ELSE ir.ops

Holding ==
  /\ \A B \in Node : sub[B].nodes # {} <=> B \in Batch /\ holds[B] # {}
  /\ \A u \in Present \union Nested : holds[u] # {}
  /\ \A B \in Batches : sub[B].nodes \intersect Present = {}
  /\ \A B, C \in Batches : B # C => sub[B].nodes \intersect sub[C].nodes = {}
  /\ ir.nested = UNION {sub[B].nodes : B \in NewBatches}

(* A batch, from the moment it is made. *)
OneDevice(B) ==
  /\ Cardinality({u \in sub[B].nodes : cmd[u].type # "none"}) >= 2
  /\ \A u \in sub[B].nodes : ir.attr[u].dev = ir.attr[B].dev

NewSound(B) ==
  /\ Acyclic(Edges(ir.operands, sub[B].nodes))
  /\ \A v \in sub[B].nodes, u \in Node \ sub[B].nodes : ir.operands[v][u] = 0

(* ... to the end. *)
OldSound(B) ==
  LET S == sub[B].nodes
      inner == [g EXCEPT !.members = S]
      paths == Paths(inner)
  IN  /\ EdgesMirrored(inner)
      /\ \A u \in S : /\ \E s \in sub[B].sources : <<s, u>> \in paths
                      /\ \E t \in sub[B].sinks : <<u, t>> \in paths
      /\ sub[B].sources \subseteq S
      /\ \A s \in sub[B].sources : Preds(g, s) = {}

Subs ==
  \A B \in Batches : /\ OneDevice(B)
                     /\ IF B \in NewBatches THEN NewSound(B) ELSE OldSound(B)

(* The groups of batch: what each node stands for while they grow, and are made batches. *)
Grown == UNION {group[i] : i \in Node}
Part == [a \in Node |-> IF a \in ir.ops \ Grown THEN {a} ELSE group[a]]

Groups ==
  stage = "batch" =>
    /\ Grown \subseteq ir.ops /\ todo \subseteq Alive
    /\ todo # {} => ir.ops \subseteq Grown
    /\ \A i \in Alive : i \in group[i] /\ \A u \in group[i] : ir.attr[u].dev = ir.attr[i].dev
    /\ \A i, j \in Node : i # j => group[i] \intersect group[j] = {}
    /\ \A i \in Alive : entry \in group[i] \/ exit \in group[i] => group[i] = {i}
    /\ ir.ops \ Grown \subseteq Batch /\ NewBatches \intersect Grown = {}
    /\ Acyclic(Grouped(ir.operands, Part))

(* The matrix: a row of bits for each operation whose users' rows are filled. *)
Matrices(n) == [0 .. n * Stride(n) - 1 -> SUBSET (0 .. Bits - 1)]
Reached(u) == {v \in ir.ops : TestBit(matrix, Size, Index(u), Index(v))}

Rows ==
  stage = "reduce-edge" =>
    /\ matrix \in Matrices(Size)
    /\ \A u \in ir.ops : Reached(u) = IF u \in todo THEN {} ELSE After(Block, u)

IInv == /\ TypeOK /\ Labels /\ AtRest /\ Running /\ Holding /\ Subs /\ Groups /\ Rows /\ EdgesReduced
-----------------------------------------------------------------------------
(* Types. *)
LEMMA CopyTypes ==
  /\ \A c \in CopyType : /\ Normalized(c) \in CopyType
                         /\ Normalized(c).dim = 0 <=> c.dim = 0
                         /\ c.dim = 1 => Normalized(c) = c
  /\ \A c, d \in CopyType : Union(c, d) \in CopyType /\ Union(c, d).dim = c.dim
<1>1. ASSUME NEW c \in CopyType
      PROVE  /\ Normalized(c) \in CopyType
             /\ Normalized(c).dim = 0 <=> c.dim = 0
             /\ c.dim = 1 => Normalized(c) = c
  <2>1. /\ c.m * c.n * c.el \in Int /\ c.m * c.el \in Int
        /\ c.srcLd * c.el \in Int /\ c.dstLd * c.el \in Int
    BY CopyFields
  <2>2. /\ (c.m * c.n * c.el) % Addresses \in Word /\ (c.m * c.el) % Addresses \in Word
        /\ (c.srcLd * c.el) % Addresses \in Word /\ (c.dstLd * c.el) % Addresses \in Word
        /\ 1 \in Word /\ 0 \in Word
    BY <2>1, CopyFields
  <2>3. Flattened(c) \in CopyType /\ Flattened(c).dim = 1
    <3> DEFINE size == (c.m * c.n * c.el) % Addresses
    <3>1. size \in Word
      BY <2>2
    <3> HIDE DEF size
    <3>2. Flattened(c) = [NotACopy EXCEPT !.dim = 1, !.link = c.link, !.src = c.src, !.dst = c.dst,
                                          !.size = size]
      BY DEF Flattened, size
    <3>3. Flattened(c) = [dim |-> 1, link |-> c.link, src |-> c.src, dst |-> c.dst, size |-> size,
                          m |-> 0, n |-> 0, srcLd |-> 0, dstLd |-> 0, el |-> 0]
      BY <3>2 DEF NotACopy
    <3>4. 0 \in Word /\ c.link \in {"none", "h2d", "d2d"} /\ c.src \in Word /\ c.dst \in Word
      BY <2>2 DEF CopyType
    <3>5. QED
      BY <3>1, <3>3, <3>4 DEF CopyType
  <2>4. InBytes(c) \in CopyType /\ InBytes(c).dim = c.dim
    BY <2>2 DEF InBytes, CopyType
  <2>5. QED
    BY <2>3, <2>4, CopyFields DEF Normalized
<1>2. ASSUME NEW c \in CopyType, NEW d \in CopyType
      PROVE  Union(c, d) \in CopyType /\ Union(c, d).dim = c.dim
  <2> DEFINE bgn == IF c.src < d.src THEN c.src ELSE d.src
             end == IF SrcEnd(c) > SrcEnd(d) THEN SrcEnd(c) ELSE SrcEnd(d)
  <2>1. bgn \in Word /\ bgn \in Int
    BY CopyFields DEF CopyType, Word
  <2>2. SrcEnd(c) \in Int /\ SrcEnd(d) \in Int /\ Bias(c) \in Int
    BY CopyFields DEF SrcEnd, Bias, Word
  <2>3. (bgn - Bias(c)) % Addresses \in Word /\ (end - bgn) % Addresses \in Word
    BY <2>1, <2>2, CopyFields
  <2> HIDE DEF bgn, end
  <2>4. Union(c, d) = [c EXCEPT !.src = bgn, !.dst = (bgn - Bias(c)) % Addresses,
                                !.size = (end - bgn) % Addresses]
    BY DEF Union, bgn, end
  <2>5. QED
    BY <2>1, <2>3, <2>4 DEF CopyType
<1>3. QED
  BY <1>1, <1>2

LEMMA NodeFacts ==
  /\ Node # {} /\ IsFiniteSet(Node) /\ entry \in Node /\ exit \in Node /\ entry # exit
  /\ Batch \subseteq Node /\ Control \subseteq Node /\ entry \notin Batch /\ exit \notin Batch
BY NodeAssumption, MlirAssumption DEF Inner

(* Numbers of operands. *)
LEMMA UsesCount ==
  ASSUME TypeOK, NEW u \in Node
  PROVE  /\ Uses(ir, u) \in Nat
         /\ \A w \in Users(ir, u) : Uses(ir, u) = 1 => /\ Users(ir, u) = {w}
                                                       /\ ir.operands[w][u] = 1
<1> DEFINE f == [v \in ir.ops |-> ir.operands[v][u]]
<1>1. ir.ops \subseteq Node /\ IsFiniteSet(ir.ops) /\ f \in [ir.ops -> Nat]
  <2>1. ir.ops \subseteq Node /\ f \in [ir.ops -> Nat]
    BY DEF TypeOK, Blocks, Lists
  <2>2. QED
    BY <2>1, FS_Subset, NodeFacts
<1>2. Uses(ir, u) = SumFunction(f)
  BY DEF Uses
<1>3. \A v \in ir.ops : f[v] = ir.operands[v][u] /\ f[v] \in Nat
  BY <1>1
<1> HIDE DEF f
<1>4. IsSum(f, ir.ops, Uses(ir, u))
  BY <1>1, <1>2, SumOf
<1>5. ASSUME NEW w \in Users(ir, u), Uses(ir, u) = 1
      PROVE  Users(ir, u) = {w} /\ ir.operands[w][u] = 1
  <2>1. w \in ir.ops /\ f[w] > 0 /\ f[w] <= 1
    BY <1>3, <1>4, <1>5 DEF Users, IsSum
  <2>2. ASSUME NEW x \in Users(ir, u), x # w PROVE FALSE
    <3>1. x \in ir.ops /\ f[x] > 0
      BY <1>3 DEF Users
    <3>2. f[x] + f[w] <= 1
      BY <1>4, <1>5, <2>1, <2>2, <3>1 DEF IsSum
    <3>3. QED
      BY <1>3, <2>1, <3>1, <3>2
  <2>3. f[w] = 1
    BY <1>3, <2>1
  <2>4. QED
    BY <1>3, <1>5, <2>1, <2>2, <2>3
<1>6. QED
  BY <1>4, <1>5 DEF IsSum
-----------------------------------------------------------------------------
(* Outside batch, no operation is in a region and no batch is new. *)
LEMMA NoneNested ==
  ASSUME ir.nested = {}
  PROVE  NewBatches = {}
BY DEF NewBatches

(* What two calls have to say about each other: the batches. *)
SameLabels ==
  \A u \in Node : /\ ir'.attr[u].type = ir.attr[u].type /\ ir'.attr[u].dev = ir.attr[u].dev
                  /\ ir'.attr[u].copy.dim = 0 <=> ir.attr[u].copy.dim = 0

LEMMA PassStep ==
  ASSUME IInv, UNCHANGED pod, stage # "idle", stage' # "idle",
         ir.nested = {}, ir'.nested = {}, ir'.ops \subseteq ir.ops, SameLabels,
         \A u \in Node : holds'[u] = {} <=> holds[u] = {}
  PROVE  Labels' /\ AtRest' /\ Holding' /\ Subs'
<1>1. /\ g' = g /\ cmd' = cmd /\ sub' = sub /\ plan' = plan
      /\ Batches' = Batches /\ Nested' = Nested
  BY DEF pod, Batches, Nested
<1>2. NewBatches = {} /\ NewBatches' = {}
  BY DEF NewBatches
<1>3. Labels'
  BY <1>1, <1>2 DEF IInv, Labels, SameLabels
<1>4. AtRest'
  BY DEF AtRest
<1>5. Present' \subseteq Present
  BY DEF Present
<1>6. Holding'
  <2>1. Present \subseteq Node /\ Nested \subseteq Node
    BY DEF IInv, TypeOK, Present, Nested, Batches, Graphs, Blocks
  <2>2. \A B \in Node : sub'[B].nodes # {} <=> B \in Batch /\ holds'[B] # {}
    BY <1>1 DEF IInv, Holding
  <2>3. \A u \in Present' \union Nested' : holds'[u] # {}
    BY <1>1, <1>5, <2>1 DEF IInv, Holding
  <2>4. \A B \in Batches' : sub'[B].nodes \intersect Present' = {}
    BY <1>1, <1>5 DEF IInv, Holding
  <2>5. \A B, C \in Batches' : B # C => sub'[B].nodes \intersect sub'[C].nodes = {}
    BY <1>1 DEF IInv, Holding
  <2>6. ir'.nested = UNION {sub'[B].nodes : B \in NewBatches'}
    BY <1>2
  <2>7. QED
    BY <2>2, <2>3, <2>4, <2>5, <2>6 DEF Holding
<1>7. Subs'
  <2>1. SUFFICES ASSUME NEW B \in Batches PROVE OneDevice(B)' /\ OldSound(B)'
    BY <1>1, <1>2 DEF Subs
  <2>2. OneDevice(B) /\ OldSound(B)
    BY <1>2 DEF IInv, Subs
  <2>3. sub[B].nodes \subseteq Node /\ B \in Node
    BY DEF IInv, TypeOK, Batches
  <2>4. OneDevice(B)'
    BY <1>1, <2>2, <2>3 DEF OneDevice, SameLabels
  <2>5. OldSound(B)'
    BY <1>1, <2>2 DEF OldSound
  <2>6. QED
    BY <2>4, <2>5
<1>8. QED
  BY <1>3, <1>4, <1>6, <1>7

(* A step that changes neither the operations nor the graph. *)
LEMMA SameBlock ==
  ASSUME IInv, UNCHANGED <<pod, ir, dead, holds>>, stage # "idle", stage' # "idle"
  PROVE  Labels' /\ AtRest' /\ Holding' /\ Subs' /\ Top' = Top /\ Block' = Block
<1>1. /\ g' = g /\ cmd' = cmd /\ sub' = sub /\ plan' = plan /\ ir' = ir /\ dead' = dead /\ holds' = holds
  BY DEF pod
<1>2. NewBatches' = NewBatches /\ Batches' = Batches /\ Nested' = Nested /\ Top' = Top
  BY <1>1 DEF NewBatches, Batches, Nested, Top
<1>3. Block' = Block /\ Present' = Present
  BY <1>1, <1>2 DEF Block, Present
<1>4. Labels'
  BY <1>1, <1>2 DEF IInv, Labels
<1>5. AtRest'
  BY DEF AtRest
<1>6. Holding'
  BY <1>1, <1>2, <1>3 DEF IInv, Holding
<1>7. Subs'
  <2>1. SUFFICES ASSUME NEW B \in Batches
                 PROVE  OneDevice(B)' /\ IF B \in NewBatches THEN NewSound(B)' ELSE OldSound(B)'
    BY <1>2 DEF Subs
  <2>2. OneDevice(B) /\ IF B \in NewBatches THEN NewSound(B) ELSE OldSound(B)
    BY DEF IInv, Subs
  <2>3. OneDevice(B)'
    BY <1>1, <2>2 DEF OneDevice
  <2>4. NewSound(B) => NewSound(B)'
    BY <1>1 DEF NewSound
  <2>5. OldSound(B) => OldSound(B)'
    BY <1>1 DEF OldSound
  <2>6. QED
    BY <2>2, <2>3, <2>4, <2>5
<1>8. QED
  BY <1>2, <1>3, <1>4, <1>5, <1>6, <1>7

LEMMA PassReturnsIInv == IInv /\ PassReturns => IInv'
<1> SUFFICES ASSUME IInv, PassReturns PROVE IInv'
  OBVIOUS
<1>1. /\ UNCHANGED <<pod, ir, work, holds>> /\ stage' = "done" /\ stage \in {"reduce-node", "prog-fuse"}
  BY DEF PassReturns
<1>2. /\ g' = g /\ cmd' = cmd /\ sub' = sub /\ plan' = plan /\ ir' = ir /\ dead' = dead /\ holds' = holds
      /\ todo' = todo /\ cur' = cur /\ group' = group /\ matrix' = matrix
  BY <1>1 DEF pod, work
<1>3. Labels' /\ AtRest' /\ Holding' /\ Subs' /\ Top' = Top /\ Block' = Block
  BY <1>1, <1>2, SameBlock
<1>4. TypeOK'
  BY <1>1, <1>2 DEF IInv, TypeOK
<1>5. Head(plan) = stage /\ dead = {}
  BY <1>1 DEF IInv, Running
<1>6. Running'
  BY <1>1, <1>2, <1>3, <1>5 DEF IInv, Running
<1>7. Groups' /\ Rows' /\ EdgesReduced'
  BY <1>1, <1>2, <1>5 DEF Groups, Rows, EdgesReduced
<1>8. QED
  BY <1>3, <1>4, <1>6, <1>7 DEF IInv

LEMMA LeaveIInv ==
  ASSUME IInv,
         \E u \in Node : KeepNode(u) \/ LeaveCopy(u) \/ LeaveProg(u) \/ LeaveGroup(u)
  PROVE  IInv'
<1>1. PICK u \in Node : KeepNode(u) \/ LeaveCopy(u) \/ LeaveProg(u) \/ LeaveGroup(u)
  OBVIOUS
<1>2. /\ UNCHANGED <<pod, ir, stage, dead, matrix, group, holds>>
      /\ todo' = todo \ {u} /\ u \in todo /\ cur' \in {{}, cur}
      /\ stage \in {"reduce-node", "copy-fuse", "prog-fuse", "batch"}
  BY <1>1 DEF KeepNode, LeaveCopy, LeaveProg, LeaveGroup
<1>3. /\ g' = g /\ cmd' = cmd /\ sub' = sub /\ plan' = plan /\ ir' = ir /\ dead' = dead /\ holds' = holds
      /\ stage' = stage /\ group' = group /\ matrix' = matrix
  BY <1>2 DEF pod
<1>4. Labels' /\ AtRest' /\ Holding' /\ Subs' /\ Top' = Top /\ Block' = Block
  BY <1>2, <1>3, SameBlock
<1>5. TypeOK'
  BY <1>2, <1>3 DEF IInv, TypeOK
<1>6. Running'
  BY <1>2, <1>3, <1>4 DEF IInv, Running
<1>7. Groups'
  <2>1. Grown' = Grown /\ Part' = Part /\ Alive' = Alive /\ NewBatches' = NewBatches
    BY <1>3 DEF Grown, Part, Alive, NewBatches
  <2>2. QED
    BY <1>2, <1>3, <2>1 DEF IInv, Groups
<1>8. Rows' /\ EdgesReduced'
  BY <1>2, <1>3 DEF Rows, EdgesReduced
<1>9. QED
  BY <1>4, <1>5, <1>6, <1>7, <1>8 DEF IInv
-----------------------------------------------------------------------------
LEMMA BlockFacts ==
  ASSUME IInv, stage # "idle", NEW E, E = Block
  PROVE  /\ E \in Graphs /\ EdgesMirrored(E) /\ SimpleEdges(E) /\ Acyclic(E) /\ Framed(E)
         /\ E.members = Top /\ Top \subseteq Node /\ entry \in Top /\ exit \in Top
         /\ \A x \in Top : \A y :
              /\ y \in Succs(E, x) <=> y \in Top /\ ir.operands[y][x] > 0
              /\ y \in Preds(E, x) <=> y \in Top /\ ir.operands[x][y] > 0
         /\ ir.ops \subseteq Node /\ \A u, v \in Node : ir.operands[v][u] \in Nat
         /\ \A x \in ir.ops : Operands(ir, x) \subseteq Top /\ x \notin Operands(ir, x)
<1>1. Top \subseteq Node /\ ir.ops \subseteq Node /\ \A u, v \in Node : ir.operands[v][u] \in Nat
  BY DEF IInv, TypeOK, Blocks, Lists, Top
<1>2. Acyclic(E) /\ Framed(E)
  BY DEF IInv, Running
<1>3. /\ E \in Graphs /\ EdgesMirrored(E) /\ SimpleEdges(E) /\ E.members = Top
      /\ \A x \in Top : \A y :
           /\ y \in Succs(E, x) <=> y \in Top /\ ir.operands[y][x] > 0
           /\ y \in Preds(E, x) <=> y \in Top /\ ir.operands[x][y] > 0
  BY <1>1, EdgesGraph DEF Block
<1>4. ASSUME NEW x \in ir.ops PROVE Operands(ir, x) \subseteq Top /\ x \notin Operands(ir, x)
  <2>1. Operands(ir, x) \subseteq Top
    BY <1>1 DEF IInv, Running, Operands
  <2>2. x \in Top => x \notin Succs(E, x)
    BY <1>2, <1>3, NoWayBack
  <2>3. QED
    BY <1>3, <2>1, <2>2 DEF Operands
<1>5. QED
  BY <1>1, <1>2, <1>3, <1>4 DEF Framed

(* How the graph of the operations changes, in a step that leaves the rest alone. *)
LEMMA EdgeByEdge ==
  ASSUME NEW E \in Graphs, EdgesMirrored(E), SimpleEdges(E), Acyclic(E), Framed(E),
         NEW S, S \subseteq E.members, entry \in S, exit \in S, NEW operands, NEW H, H = Edges(operands, S),
         \A x, y \in S : operands[y][x] > 0 => x # y /\ <<x, y>> \in Paths(E),
         \A y \in S \ {entry} : \E x \in S : operands[y][x] > 0,
         \A x \in S \ {exit} : \E y \in S : operands[y][x] > 0,
         \A x \in S : ~(operands[entry][x] > 0) /\ ~(operands[x][exit] > 0)
  PROVE  Acyclic(H) /\ Framed(H)
<1>1. S \subseteq Node
  BY DEF Graphs
<1>2. /\ H \in Graphs /\ EdgesMirrored(H) /\ SimpleEdges(H) /\ H.members = S
      /\ \A x \in S : \A y :
           /\ y \in Succs(H, x) <=> y \in S /\ operands[y][x] > 0
           /\ y \in Preds(H, x) <=> y \in S /\ operands[x][y] > 0
  BY <1>1, EdgesGraph
<1>3. Coarser(H, E)
  BY <1>2 DEF Coarser
<1>4. Acyclic(H)
  BY <1>2, <1>3, CoarserAcyclic
<1>5. ASSUME NEW x \in S PROVE /\ x = entry <=> Preds(H, x) = {}
                               /\ x = exit <=> Succs(H, x) = {}
  BY <1>2
<1>6. QED
  BY <1>2, <1>4, <1>5 DEF Framed

LEMMA DropNodeIInv ==
  ASSUME IInv, NEW e \in Node, DropNode(e)
  PROVE  IInv'
<1>1. /\ stage = "reduce-node" /\ e \in todo /\ ir' = Splice(e) /\ todo' = todo \ {e}
      /\ UNCHANGED <<pod, stage, cur, dead, matrix, group, holds>>
  BY DEF DropNode
<1>2. /\ g' = g /\ cmd' = cmd /\ sub' = sub /\ plan' = plan /\ dead' = dead /\ holds' = holds
      /\ cur' = cur /\ group' = group /\ matrix' = matrix /\ stage' = stage
  BY <1>1 DEF pod
<1>3. /\ dead = {} /\ ir.nested = {} /\ Head(plan) = "reduce-node" /\ e \in ir.ops \ {entry, exit}
      /\ Top = ir.ops
  BY <1>1 DEF IInv, Running, Top
<1> DEFINE E == Block
           H == Block'
<1>4. /\ E \in Graphs /\ EdgesMirrored(E) /\ SimpleEdges(E) /\ Acyclic(E) /\ Framed(E)
      /\ E.members = ir.ops /\ entry \in ir.ops /\ exit \in ir.ops
      /\ \A x \in ir.ops : \A y :
           /\ y \in Succs(E, x) <=> y \in ir.ops /\ ir.operands[y][x] > 0
           /\ y \in Preds(E, x) <=> y \in ir.ops /\ ir.operands[x][y] > 0
      /\ ir.ops \subseteq Node /\ \A u, v \in Node : ir.operands[v][u] \in Nat
      /\ \A x \in ir.ops : Operands(ir, x) \subseteq ir.ops /\ x \notin Operands(ir, x)
  BY <1>1, <1>3, BlockFacts
<1>5. /\ ir'.ops = ir.ops \ {e} /\ ir'.nested = ir.nested /\ ir'.attr = ir.attr
      /\ ir'.operands = [v \in Node |-> IF v \in {e} THEN [u \in Node |-> 0]
                           ELSE [x \in Node |-> IF x \in Users(ir, e)
                                   THEN Listed((Operands(ir, x) \ {e}) \union Operands(ir, e))
                                   ELSE ir.operands[x]][v]]
  BY <1>1 DEF Splice, EraseOps
<1>6. \A u, v \in Node : ir'.operands[v][u] =
        IF v = e THEN 0
        ELSE IF v \in Users(ir, e)
             THEN IF (u # e /\ u \in Operands(ir, v)) \/ u \in Operands(ir, e) THEN 1 ELSE 0
             ELSE ir.operands[v][u]
  <2>1. e \notin Operands(ir, e)
    BY <1>3, <1>4
  <2>2. ASSUME NEW v \in Node PROVE ir'.operands[v] =
          IF v = e THEN [u \in Node |-> 0]
          ELSE IF v \in Users(ir, e) THEN Listed((Operands(ir, v) \ {e}) \union Operands(ir, e))
          ELSE ir.operands[v]
    BY <1>5
  <2>3. QED
    BY <2>1, <2>2 DEF Listed
<1>7. Top' = ir.ops \ {e}
  BY <1>2, <1>3, <1>5 DEF Top
<1>8. H = Edges(ir'.operands, ir.ops \ {e})
  BY <1>7 DEF Block
<1> HIDE DEF E, H
<1> DEFINE S == ir.ops \ {e}
<1>9. \A x, y \in S : ir'.operands[y][x] > 0 <=>
        ir.operands[y][x] > 0 \/ (ir.operands[y][e] > 0 /\ ir.operands[e][x] > 0)
  BY <1>3, <1>4, <1>6 DEF Users, Operands
<1>10. ASSUME NEW x \in S, NEW y \in S, ir'.operands[y][x] > 0 PROVE x # y /\ <<x, y>> \in Paths(E)
  <2>1. CASE ir.operands[y][x] > 0
    <3>1. y \in Succs(E, x)
      BY <1>4, <2>1
    <3>2. QED
      BY <1>4, <3>1, EdgesArePaths, NoWayBack
  <2>2. CASE ir.operands[y][e] > 0 /\ ir.operands[e][x] > 0
    <3>1. e \in Succs(E, x) /\ y \in Succs(E, e)
      BY <1>3, <1>4, <2>2
    <3>2. <<x, e>> \in Paths(E) /\ <<e, y>> \in Paths(E) /\ <<e, x>> \notin Paths(E)
      BY <1>3, <1>4, <3>1, EdgesArePaths, NoWayBack
    <3>3. QED
      BY <1>4, <3>2, PathsTransitive
  <2>3. QED
    BY <1>9, <1>10, <2>1, <2>2
<1>11. ASSUME NEW y \in S \ {entry} PROVE \E x \in S : ir'.operands[y][x] > 0
  <2>1. PICK p \in ir.ops : ir.operands[y][p] > 0
    BY <1>4 DEF Framed
  <2>2. PICK q \in ir.ops : ir.operands[e][q] > 0
    BY <1>3, <1>4 DEF Framed
  <2>3. q # e
    BY <1>3, <1>4, <2>2 DEF Operands
  <2>4. QED
    BY <1>9, <2>1, <2>2, <2>3
<1>12. ASSUME NEW x \in S \ {exit} PROVE \E y \in S : ir'.operands[y][x] > 0
  <2>1. PICK s \in ir.ops : ir.operands[s][x] > 0
    BY <1>4 DEF Framed
  <2>2. PICK t \in ir.ops : ir.operands[t][e] > 0
    BY <1>3, <1>4 DEF Framed
  <2>3. t # e
    BY <1>3, <1>4, <2>2 DEF Operands
  <2>4. QED
    BY <1>9, <2>1, <2>2, <2>3
<1>13. ASSUME NEW x \in S PROVE ~(ir'.operands[entry][x] > 0) /\ ~(ir'.operands[x][exit] > 0)
  <2>1. /\ \A p \in ir.ops : ~(ir.operands[entry][p] > 0)
        /\ \A s \in ir.ops : ~(ir.operands[s][exit] > 0)
    BY <1>4 DEF Framed
  <2>2. QED
    BY <1>3, <1>4, <1>9, <2>1
<1>14. Acyclic(H) /\ Framed(H)
  <2>1. S \subseteq E.members /\ entry \in S /\ exit \in S
    BY <1>3, <1>4
  <2> HIDE DEF S
  <2>2. H = Edges(ir'.operands, S)
    BY <1>8 DEF S
  <2>3. QED
    BY <1>4, <1>10, <1>11, <1>12, <1>13, <2>1, <2>2, EdgeByEdge
<1>15. Labels' /\ AtRest' /\ Holding' /\ Subs'
  <2>1. UNCHANGED pod
    BY <1>1
  <2>2. SameLabels
    BY <1>5 DEF SameLabels
  <2>3. QED
    BY <1>1, <1>2, <1>3, <1>5, <2>1, <2>2, PassStep
<1>16. TypeOK'
  <2>1. ir' \in Blocks
    <3>1. ir'.operands \in Lists
      <4>1. \A v \in Node : Listed((Operands(ir, v) \ {e}) \union Operands(ir, e)) \in [Node -> Nat]
        BY DEF Listed
      <4>2. ir.operands \in [Node -> [Node -> Nat]]
        BY DEF IInv, TypeOK, Blocks, Lists
      <4>3. \A v \in Node : ir'.operands[v] \in [Node -> Nat]
        <5>1. [u \in Node |-> 0] \in [Node -> Nat]
          OBVIOUS
        <5>2. QED
          BY <1>5, <4>1, <4>2, <5>1
      <4>4. QED
        BY <1>5, <4>3 DEF Lists
    <3>2. ir' = [ops |-> ir'.ops, nested |-> ir'.nested, operands |-> ir'.operands, attr |-> ir'.attr]
      BY <1>1 DEF Splice, EraseOps, IInv, TypeOK, Blocks
    <3>3. QED
      BY <1>5, <3>1, <3>2 DEF IInv, TypeOK, Blocks
  <2>2. QED
    BY <1>1, <1>2, <2>1 DEF IInv, TypeOK
<1>17. Running'
  <2>1. plan' # <<>> /\ stage' = Head(plan') /\ dead' = {} /\ ir'.nested = {}
    BY <1>1, <1>2, <1>3, <1>5 DEF IInv, Running
  <2>2. Acyclic(Block') /\ Framed(Block')
    BY <1>14 DEF H
  <2>3. \A v \in ir'.ops, u \in Node \ Top' : ir'.operands[v][u] = 0
    <3>1. \A v \in ir.ops, u \in Node \ ir.ops : ir.operands[v][u] = 0
      BY <1>1, <1>3 DEF IInv, Running
    <3>2. ASSUME NEW v \in ir.ops \ {e}, NEW u \in Node \ (ir.ops \ {e})
          PROVE  ir'.operands[v][u] = 0
      <4>1. u \notin Operands(ir, e)
        BY <1>3, <1>4
      <4>2. u = e \/ u \notin Operands(ir, v)
        BY <1>4
      <4>3. v \notin Users(ir, e) /\ u = e => ir.operands[v][u] = 0
        BY <1>3, <1>4 DEF Users
      <4>4. QED
        BY <1>4, <1>6, <3>1, <4>1, <4>2, <4>3
    <3>3. QED
      BY <1>5, <1>7, <3>2
  <2>4. \A v \in Node \ (ir'.ops \union ir'.nested), u \in Node : ir'.operands[v][u] = 0
    <3>1. \A v \in Node \ ir.ops, u \in Node : ir.operands[v][u] = 0
      BY <1>1, <1>3 DEF IInv, Running
    <3>2. \A v \in Node \ ir.ops : v \notin Users(ir, e)
      BY DEF Users
    <3>3. QED
      BY <1>3, <1>5, <1>6, <3>1, <3>2
  <2>5. \A u \in ir'.ops \ Batch, v \in ir'.ops : ir'.operands[v][u] <= 1
    <3>1. \A u \in ir.ops \ Batch, v \in ir.ops : ir.operands[v][u] <= 1
      BY <1>1 DEF IInv, Running
    <3>2. QED
      BY <1>4, <1>5, <1>6, <3>1
  <2>6. todo' \subseteq ir'.ops \ {entry, exit}
    BY <1>1, <1>5 DEF IInv, Running
  <2>7. QED
    BY <1>1, <1>2, <2>1, <2>2, <2>3, <2>4, <2>5, <2>6 DEF Running
<1>18. Groups' /\ Rows' /\ EdgesReduced'
  BY <1>1, <1>2 DEF Groups, Rows, EdgesReduced
<1>19. QED
  BY <1>15, <1>16, <1>17, <1>18 DEF IInv
(* Entry and exit are neither copies nor programs, nor batches. *)
LEMMA EndTypes ==
  ASSUME IInv, NEW u \in Node, ir.attr[u].copy.dim # 0 \/ ir.attr[u].type \in {"prog", "copy"}
  PROVE  u \notin {entry, exit} /\ u \notin Batch
<1>1. /\ ir.attr[u].type = cmd[u].type
      /\ u \in Control \union {entry, exit} <=> cmd[u].type = "none"
      /\ u \in Batch <=> cmd[u].type = "batch"
      /\ cmd[u].type = "copy" <=> ir.attr[u].copy.dim # 0
  BY DEF IInv, Labels
<1>2. QED
  BY <1>1

LEMMA NormalizeCopiesIInv ==
  ASSUME IInv, NormalizeCopies
  PROVE  IInv'
<1>1. /\ stage = "copy-normalize" /\ stage' = "done" /\ todo' = {}
      /\ UNCHANGED <<pod, cur, dead, matrix, group, holds>>
      /\ ir' = [ir EXCEPT !.attr = [u \in Node |->
                  IF u \in ir.ops THEN [ir.attr[u] EXCEPT !.copy = Normalized(ir.attr[u].copy)]
                                  ELSE ir.attr[u]]]
  BY DEF NormalizeCopies
<1>2. /\ g' = g /\ cmd' = cmd /\ sub' = sub /\ plan' = plan /\ dead' = dead /\ holds' = holds
      /\ cur' = cur /\ group' = group /\ matrix' = matrix
  BY <1>1 DEF pod
<1>3. dead = {} /\ ir.nested = {} /\ Head(plan) = "copy-normalize"
  BY <1>1 DEF IInv, Running
<1>4. \A u \in Node : ir.attr[u] \in CommandType /\ ir.attr[u].copy \in CopyType
  BY DEF IInv, TypeOK, Blocks, CommandType
<1>5. /\ ir'.ops = ir.ops /\ ir'.nested = ir.nested /\ ir'.operands = ir.operands
      /\ ir'.attr = [u \in Node |-> IF u \in ir.ops
                        THEN [ir.attr[u] EXCEPT !.copy = Normalized(ir.attr[u].copy)] ELSE ir.attr[u]]
      /\ ir \in Blocks
  BY <1>1 DEF IInv, TypeOK, Blocks
<1>6. \A u \in Node : /\ ir'.attr[u] \in CommandType
                      /\ ir'.attr[u].type = ir.attr[u].type /\ ir'.attr[u].dev = ir.attr[u].dev
                      /\ ir'.attr[u].copy.dim = 0 <=> ir.attr[u].copy.dim = 0
  <2>1. \A c \in CopyType : Normalized(c) \in CopyType /\ (Normalized(c).dim = 0 <=> c.dim = 0)
    BY CopyTypes
  <2>2. \A a \in CommandType, c \in CopyType : /\ [a EXCEPT !.copy = c] \in CommandType
                                              /\ [a EXCEPT !.copy = c].type = a.type
                                              /\ [a EXCEPT !.copy = c].dev = a.dev
                                              /\ [a EXCEPT !.copy = c].copy = c
    BY DEF CommandType
  <2>3. ASSUME NEW u \in Node
        PROVE  /\ ir'.attr[u] \in CommandType
               /\ ir'.attr[u].type = ir.attr[u].type /\ ir'.attr[u].dev = ir.attr[u].dev
               /\ ir'.attr[u].copy.dim = 0 <=> ir.attr[u].copy.dim = 0
    <3>1. CASE u \in ir.ops
      <4>1. ir'.attr[u] = [ir.attr[u] EXCEPT !.copy = Normalized(ir.attr[u].copy)]
        BY <1>5, <3>1
      <4>2. QED
        BY <1>4, <2>1, <2>2, <4>1
    <3>2. CASE u \notin ir.ops
      BY <1>4, <1>5, <3>2
    <3>3. QED
      BY <3>1, <3>2
  <2>4. QED
    BY <2>3
<1>7. Labels' /\ AtRest' /\ Holding' /\ Subs'
  <2>1. UNCHANGED pod /\ SameLabels
    BY <1>1, <1>6 DEF SameLabels
  <2>2. QED
    BY <1>1, <1>2, <1>3, <1>5, <2>1, PassStep
<1>8. TypeOK'
  <2>1. ir'.attr \in [Node -> CommandType]
    BY <1>5, <1>6
  <2>2. ir' = [ir EXCEPT !.attr = ir'.attr]
    BY <1>1, <1>5
  <2>3. ir' \in Blocks
    BY <1>5, <2>1, <2>2 DEF Blocks
  <2>4. QED
    BY <1>1, <1>2, <2>3 DEF IInv, TypeOK
<1>9. Top' = Top /\ Block' = Block
  BY <1>2, <1>5 DEF Top, Block
<1>10. Running'
  BY <1>1, <1>2, <1>3, <1>5, <1>9 DEF IInv, Running
<1>11. Groups' /\ Rows' /\ EdgesReduced'
  BY <1>1, <1>2, <1>3 DEF Groups, Rows, EdgesReduced
<1>12. QED
  BY <1>7, <1>8, <1>10, <1>11 DEF IInv

LEMMA FuseCopiesIInv ==
  ASSUME IInv, NEW u \in Node, NEW v \in Node, FuseCopies(u, v)
  PROVE  IInv'
<1>1. /\ stage = "copy-fuse" /\ u \in todo /\ Fusible(u, v)
      /\ ir' = [DropUses(ir, v) EXCEPT !.attr[u].copy = Union(@, ir.attr[v].copy)]
      /\ dead' = dead \union {v} /\ cur' = {u} /\ todo' = todo \ {v}
      /\ holds' = [holds EXCEPT ![u] = @ \union holds[v]]
      /\ UNCHANGED <<pod, stage, matrix, group>>
  BY DEF FuseCopies
<1>2. /\ g' = g /\ cmd' = cmd /\ sub' = sub /\ plan' = plan
      /\ group' = group /\ matrix' = matrix /\ stage' = stage
  BY <1>1 DEF pod
<1>3. /\ u # v /\ v \in Top /\ Operands(ir, u) = Operands(ir, v) /\ Users(ir, u) = Users(ir, v)
      /\ ir.attr[v].copy.dim = 1 /\ ir.attr[u].copy.dim = 1
  BY <1>1 DEF Fusible, Top
<1>4. /\ ir.nested = {} /\ Head(plan) = "copy-fuse" /\ u \in Top \ {entry, exit}
      /\ v \notin {entry, exit} /\ dead \subseteq ir.ops
  <2>1. v \notin {entry, exit}
    BY <1>3, EndTypes
  <2>2. QED
    BY <1>1, <2>1 DEF IInv, Running
<1> DEFINE E == Block
           H == Block'
           S == Top \ {v}
<1>5. /\ E \in Graphs /\ EdgesMirrored(E) /\ SimpleEdges(E) /\ Acyclic(E) /\ Framed(E)
      /\ E.members = Top /\ Top \subseteq Node /\ entry \in Top /\ exit \in Top
      /\ \A x \in Top : \A y :
           /\ y \in Succs(E, x) <=> y \in Top /\ ir.operands[y][x] > 0
           /\ y \in Preds(E, x) <=> y \in Top /\ ir.operands[x][y] > 0
      /\ ir.ops \subseteq Node /\ \A x, y \in Node : ir.operands[y][x] \in Nat
  BY <1>1, BlockFacts
<1>6. ir \in Blocks /\ ir.attr \in [Node -> CommandType] /\ ir.operands \in [Node -> [Node -> Nat]]
  BY DEF IInv, TypeOK, Blocks, Lists
<1>7. /\ ir'.ops = ir.ops /\ ir'.nested = ir.nested
      /\ ir'.operands = [w \in Node |-> [ir.operands[w] EXCEPT ![v] = 0]]
      /\ ir'.attr = [ir.attr EXCEPT ![u].copy = Union(ir.attr[u].copy, ir.attr[v].copy)]
      /\ ir' = [ops |-> ir'.ops, nested |-> ir'.nested, operands |-> ir'.operands, attr |-> ir'.attr]
  BY <1>1, <1>6 DEF DropUses, Blocks
<1>8. \A x, y \in Node : ir'.operands[y][x] = IF x = v THEN 0 ELSE ir.operands[y][x]
  BY <1>6, <1>7
<1>9. Top' = S
  BY <1>1, <1>7 DEF Top
<1>10. H = Edges(ir'.operands, S)
  BY <1>9 DEF Block
<1> HIDE DEF E, H
<1>11. ASSUME NEW x \in S, NEW y \in S, ir'.operands[y][x] > 0 PROVE x # y /\ <<x, y>> \in Paths(E)
  <2>1. y \in Succs(E, x)
    BY <1>5, <1>8, <1>11
  <2>2. QED
    BY <1>5, <2>1, EdgesArePaths, NoWayBack
<1>12. ASSUME NEW y \in S \ {entry} PROVE \E x \in S : ir'.operands[y][x] > 0
  <2>1. PICK p \in Top : ir.operands[y][p] > 0
    BY <1>5 DEF Framed
  <2>2. CASE p # v
    BY <1>5, <1>8, <2>1, <2>2
  <2>3. CASE p = v
    <3>1. y \in Users(ir, u)
      BY <1>3, <2>1, <2>3 DEF Users, Top
    <3>2. QED
      BY <1>3, <1>4, <1>5, <1>8, <3>1 DEF Users
  <2>4. QED
    BY <2>2, <2>3
<1>13. ASSUME NEW x \in S \ {exit} PROVE \E y \in S : ir'.operands[y][x] > 0
  <2>1. PICK s \in Top : ir.operands[s][x] > 0
    BY <1>5 DEF Framed
  <2>2. CASE s # v
    BY <1>5, <1>8, <2>1, <2>2
  <2>3. CASE s = v
    <3>1. x \in Operands(ir, u)
      BY <1>3, <1>5, <2>1, <2>3 DEF Operands
    <3>2. QED
      BY <1>3, <1>4, <1>5, <1>8, <3>1 DEF Operands
  <2>4. QED
    BY <2>2, <2>3
<1>14. ASSUME NEW x \in S PROVE ~(ir'.operands[entry][x] > 0) /\ ~(ir'.operands[x][exit] > 0)
  <2>1. /\ \A p \in Top : ~(ir.operands[entry][p] > 0)
        /\ \A s \in Top : ~(ir.operands[s][exit] > 0)
    BY <1>5 DEF Framed
  <2>2. QED
    BY <1>4, <1>5, <1>8, <2>1
<1>15. Acyclic(H) /\ Framed(H)
  <2>1. S \subseteq E.members /\ entry \in S /\ exit \in S
    BY <1>4, <1>5
  <2> HIDE DEF S
  <2>2. QED
    BY <1>5, <1>10, <1>11, <1>12, <1>13, <1>14, <2>1, EdgeByEdge
<1>16. \A x \in Node : /\ ir'.attr[x] \in CommandType
                       /\ ir'.attr[x].type = ir.attr[x].type /\ ir'.attr[x].dev = ir.attr[x].dev
                       /\ ir'.attr[x].copy.dim = ir.attr[x].copy.dim
  <2>1. ir.attr[u].copy \in CopyType /\ ir.attr[v].copy \in CopyType /\ ir.attr[u] \in CommandType
    BY <1>6 DEF CommandType
  <2> DEFINE c == Union(ir.attr[u].copy, ir.attr[v].copy)
  <2>2. c \in CopyType /\ c.dim = ir.attr[u].copy.dim
    BY <2>1, CopyTypes
  <2>3. ir'.attr = [ir.attr EXCEPT ![u] = [ir.attr[u] EXCEPT !.copy = c]]
    BY <1>7
  <2> HIDE DEF c
  <2>4. [ir.attr[u] EXCEPT !.copy = c] \in CommandType
    BY <2>1, <2>2 DEF CommandType
  <2>5. QED
    BY <1>6, <2>1, <2>2, <2>3, <2>4 DEF CommandType
<1>17. Labels' /\ AtRest' /\ Holding' /\ Subs'
  <2>1. UNCHANGED pod /\ SameLabels
    BY <1>1, <1>16 DEF SameLabels
  <2>2. holds[u] # {} /\ holds \in [Node -> SUBSET RecordedNodes]
    BY <1>1, <1>4 DEF IInv, TypeOK, Holding, Present, Top
  <2>3. \A x \in Node : holds'[x] = {} <=> holds[x] = {}
    BY <1>1, <2>2
  <2>4. QED
    BY <1>1, <1>2, <1>4, <1>7, <2>1, <2>3, PassStep
<1>18. TypeOK'
  <2>1. ir'.operands \in Lists
    BY <1>6, <1>7 DEF Lists
  <2>2. ir'.attr \in [Node -> CommandType]
    <3>1. ir'.attr = [x \in Node |-> ir'.attr[x]]
      BY <1>6, <1>7
    <3>2. QED
      BY <1>16, <3>1
  <2>3. ir' \in Blocks
    BY <1>6, <1>7, <2>1, <2>2 DEF Blocks
  <2>4. holds' \in [Node -> SUBSET RecordedNodes] /\ dead' \subseteq Node /\ todo' \subseteq Node
    BY <1>1 DEF IInv, TypeOK
  <2>5. QED
    BY <1>1, <1>2, <2>3, <2>4 DEF IInv, TypeOK
<1>19. Running'
  <2>1. plan' # <<>> /\ stage' = Head(plan') /\ dead' \subseteq ir'.ops /\ ir'.nested = {}
    BY <1>1, <1>2, <1>3, <1>4, <1>7 DEF IInv, Running, Top
  <2>2. Acyclic(Block') /\ Framed(Block')
    BY <1>15 DEF H
  <2>3. \A w \in ir'.ops, x \in Node \ Top' : ir'.operands[w][x] = 0
    BY SMTT(40), <1>1, <1>5, <1>7, <1>8, <1>9 DEF IInv, Running
  <2>4. \A w \in Node \ (ir'.ops \union ir'.nested), x \in Node : ir'.operands[w][x] = 0
    BY <1>1, <1>7, <1>8 DEF IInv, Running
  <2>5. \A x \in ir'.ops \ Batch, w \in ir'.ops : ir'.operands[w][x] <= 1
    <3>1. \A x \in ir.ops \ Batch, w \in ir.ops : ir.operands[w][x] <= 1
      BY <1>1 DEF IInv, Running
    <3>2. ASSUME NEW x \in ir.ops \ Batch, NEW w \in ir.ops PROVE ir'.operands[w][x] <= 1
      <4>1. ir'.operands[w][x] = IF x = v THEN 0 ELSE ir.operands[w][x]
        BY <1>5, <1>8
      <4>2. QED
        BY <3>1, <4>1
    <3>3. QED
      BY <1>7, <3>2
  <2>6. todo' \subseteq Top' \ {entry, exit} /\ \A x \in todo' : ir'.attr[x].copy.dim = 1
    BY <1>1, <1>9, <1>16 DEF IInv, TypeOK, Running
  <2>7. QED
    BY <1>1, <1>2, <2>1, <2>2, <2>3, <2>4, <2>5, <2>6 DEF Running
<1>20. Groups' /\ Rows' /\ EdgesReduced'
  BY <1>1, <1>2 DEF Groups, Rows, EdgesReduced
<1>21. QED
  BY <1>17, <1>18, <1>19, <1>20 DEF IInv
LEMMA EraseDeadIInv ==
  ASSUME IInv, EraseDead
  PROVE  IInv'
<1>1. /\ stage = "copy-fuse" /\ todo = {} /\ ir' = EraseOps(ir, dead) /\ dead' = {} /\ stage' = "done"
      /\ UNCHANGED <<pod, todo, cur, matrix, group, holds>>
  BY DEF EraseDead
<1>2. /\ g' = g /\ cmd' = cmd /\ sub' = sub /\ plan' = plan /\ todo' = todo /\ cur' = cur
      /\ group' = group /\ matrix' = matrix /\ holds' = holds
  BY <1>1 DEF pod
<1>3. ir.nested = {} /\ Head(plan) = "copy-fuse" /\ dead \subseteq ir.ops /\ plan # <<>>
  BY <1>1 DEF IInv, Running
<1>4. /\ ir'.ops = Top /\ ir'.nested = {} /\ ir'.attr = ir.attr /\ Top' = Top
      /\ ir'.operands = [v \in Node |-> IF v \in dead THEN [u \in Node |-> 0] ELSE ir.operands[v]]
      /\ ir' = [ops |-> ir'.ops, nested |-> ir'.nested, operands |-> ir'.operands, attr |-> ir'.attr]
  BY <1>1, <1>3 DEF EraseOps, Top, IInv, TypeOK, Blocks
<1>5. /\ ir.ops \subseteq Node /\ Top \subseteq Node /\ ir.operands \in [Node -> [Node -> Nat]]
      /\ Acyclic(Block) /\ Framed(Block)
  BY <1>1 DEF IInv, TypeOK, Blocks, Lists, Running, Top
<1>6. \A v \in Node : ir'.operands[v] = IF v \in dead THEN [u \in Node |-> 0] ELSE ir.operands[v]
  BY <1>4
<1>7. \A v \in Top : ir'.operands[v] = ir.operands[v]
  BY <1>5, <1>6 DEF Top
<1>8. Block' = Block
  <2>1. Linking(ir'.operands, Top) = Linking(ir.operands, Top)
    BY <1>7 DEF Linking
  <2>2. QED
    BY <1>4, <2>1 DEF Block, Edges
<1>9. Labels' /\ AtRest' /\ Holding' /\ Subs'
  <2>1. UNCHANGED pod /\ SameLabels /\ ir'.ops \subseteq ir.ops
    BY <1>1, <1>4 DEF SameLabels, Top
  <2>2. QED
    BY <1>1, <1>2, <1>3, <1>4, <2>1, PassStep
<1>10. TypeOK'
  <2>1. ir'.operands \in Lists
    BY <1>4, <1>5 DEF Lists
  <2>2. ir' \in Blocks
    BY <1>4, <1>5, <2>1 DEF Blocks, IInv, TypeOK
  <2>3. QED
    BY <1>1, <1>2, <2>2 DEF IInv, TypeOK
<1>11. Running'
  <2>1. \A w \in ir'.ops, x \in Node \ Top' : ir'.operands[w][x] = 0
    BY <1>1, <1>4, <1>5, <1>7 DEF IInv, Running, Top
  <2>2. ASSUME NEW w \in Node \ (ir'.ops \union ir'.nested), NEW x \in Node
        PROVE  ir'.operands[w][x] = 0
    <3>1. w \in dead \/ w \notin ir.ops
      BY <1>4 DEF Top
    <3>2. w \notin ir.ops => ir.operands[w][x] = 0
      BY <1>1, <1>3 DEF IInv, Running
    <3>3. QED
      BY <1>6, <3>1, <3>2
  <2>3. \A x \in ir'.ops \ Batch, w \in ir'.ops : ir'.operands[w][x] <= 1
    <3>1. \A x \in ir.ops \ Batch, w \in ir.ops : ir.operands[w][x] <= 1
      BY <1>1 DEF IInv, Running
    <3>2. QED
      BY <1>4, <1>7, <3>1 DEF Top
  <2>4. QED
    BY <1>1, <1>2, <1>3, <1>4, <1>5, <1>8, <2>1, <2>2, <2>3 DEF Running
<1>12. Groups' /\ Rows' /\ EdgesReduced'
  BY <1>1, <1>2, <1>3 DEF Groups, Rows, EdgesReduced
<1>13. QED
  BY <1>9, <1>10, <1>11, <1>12 DEF IInv
LEMMA FuseProgsIInv ==
  ASSUME IInv, NEW u \in Node, NEW w \in Node, FuseProgs(u, w)
  PROVE  IInv'
<1>1. /\ stage = "prog-fuse" /\ u \in todo /\ Link(u, w)
      /\ ir' = ReplaceUses(EraseOps(ir, {w}), w, u)
      /\ todo' = todo \ {w}
      /\ holds' = [holds EXCEPT ![u] = @ \union holds[w]]
      /\ UNCHANGED <<pod, stage, dead, matrix, group>> /\ cur' = {u}
  BY DEF FuseProgs
<1>2. /\ g' = g /\ cmd' = cmd /\ sub' = sub /\ plan' = plan /\ dead' = dead
      /\ group' = group /\ matrix' = matrix /\ stage' = stage
  BY <1>1 DEF pod
<1>3. /\ dead = {} /\ ir.nested = {} /\ Head(plan) = "prog-fuse" /\ u \in ir.ops \ {entry, exit}
      /\ Top = ir.ops /\ plan # <<>>
  BY <1>1 DEF IInv, Running, Top
<1>4. /\ w \in ir.ops /\ ir.operands[w][u] > 0 /\ ir.operands[w] = Just(u) /\ Uses(ir, u) = 1
      /\ ir.attr[w].type = "prog"
  BY <1>1 DEF Link, Users
<1> DEFINE E == Block
           H == Block'
<1>5. /\ E \in Graphs /\ EdgesMirrored(E) /\ SimpleEdges(E) /\ Acyclic(E) /\ Framed(E)
      /\ E.members = ir.ops /\ entry \in ir.ops /\ exit \in ir.ops
      /\ \A x \in ir.ops : \A y :
           /\ y \in Succs(E, x) <=> y \in ir.ops /\ ir.operands[y][x] > 0
           /\ y \in Preds(E, x) <=> y \in ir.ops /\ ir.operands[x][y] > 0
      /\ ir.ops \subseteq Node /\ \A x, y \in Node : ir.operands[y][x] \in Nat
      /\ \A x \in ir.ops : x \notin Operands(ir, x)
  BY <1>1, <1>3, BlockFacts
<1>6. u # w /\ w \notin {entry, exit} /\ w \notin Batch
  <2>1. u # w
    BY <1>3, <1>4, <1>5 DEF Operands
  <2>2. cmd[w].type = "prog"
    BY <1>4 DEF IInv, Labels
  <2>3. QED
    BY <2>1, <2>2 DEF IInv, Labels
<1>7. \A y \in ir.ops \ {w} : ir.operands[y][u] = 0
  <2>1. TypeOK /\ w \in Users(ir, u)
    BY <1>4 DEF IInv, Users
  <2>2. Users(ir, u) = {w}
    BY <1>4, <2>1, UsesCount
  <2>3. QED
    BY <1>5, <2>2 DEF Users
<1>8. /\ ir'.ops = ir.ops \ {w} /\ ir'.nested = ir.nested /\ ir'.attr = ir.attr
      /\ ir' = [ops |-> ir'.ops, nested |-> ir'.nested, operands |-> ir'.operands, attr |-> ir'.attr]
  BY <1>1 DEF ReplaceUses, EraseOps, IInv, TypeOK, Blocks
<1>9. PICK old : old = EraseOps(ir, {w}).operands
  OBVIOUS
<1>9a. /\ old = [v \in Node |-> IF v \in {w} THEN [x \in Node |-> 0] ELSE ir.operands[v]]
       /\ old \in [Node -> [Node -> Nat]]
  <2>1. ir.operands \in [Node -> [Node -> Nat]]
    BY DEF IInv, TypeOK, Blocks, Lists
  <2>2. old = [v \in Node |-> IF v \in {w} THEN [x \in Node |-> 0] ELSE ir.operands[v]]
    BY <1>9 DEF EraseOps, IInv, TypeOK, Blocks
  <2>3. QED
    BY <2>1, <2>2
<1>9b. ir'.operands = [v \in Node |-> [old[v] EXCEPT ![u] = old[v][u] + old[v][w], ![w] = 0]]
  <2>1. PICK b : b = EraseOps(ir, {w})
    OBVIOUS
  <2>2. ir' = ReplaceUses(b, w, u) /\ b.operands = old
    BY <1>1, <1>9, <2>1
  <2>3. b \in [ops : SUBSET Node, nested : SUBSET Node, operands : [Node -> [Node -> Nat]],
               attr : [Node -> CommandType]]
    <3>1. b = [ops |-> ir.ops \ {w}, nested |-> ir.nested, operands |-> old, attr |-> ir.attr]
      BY <1>9, <2>1 DEF EraseOps, IInv, TypeOK, Blocks
    <3>2. QED
      BY <1>9a, <3>1 DEF IInv, TypeOK, Blocks
  <2>4. QED
    BY <2>2, <2>3 DEF ReplaceUses
<1>10. \A x, y \in Node : old[y][x] = IF y = w THEN 0 ELSE ir.operands[y][x]
  BY <1>9a
<1>11. \A x, y \in Node : ir'.operands[y][x] =
         IF x = w THEN 0 ELSE IF x = u THEN old[y][u] + old[y][w] ELSE old[y][x]
  <2>1. \A y \in Node : old[y] \in [Node -> Nat]
    BY <1>9a
  <2>2. \A y \in Node : ir'.operands[y] = [old[y] EXCEPT ![u] = old[y][u] + old[y][w], ![w] = 0]
    BY <1>9b
  <2>3. QED
    BY ZenonT(60), <1>6, <2>1, <2>2
<1>12. ir'.operands \in Lists
  <2>1. ASSUME NEW v \in Node
        PROVE  [old[v] EXCEPT ![u] = old[v][u] + old[v][w], ![w] = 0] \in [Node -> Nat]
    <3>1. old[v] \in [Node -> Nat] /\ old[v][u] + old[v][w] \in Nat
      BY <1>9a
    <3>2. QED
      BY <3>1
  <2>2. QED
    BY <1>9b, <2>1 DEF Lists
<1>13. Top' = ir.ops \ {w}
  BY <1>2, <1>3, <1>8 DEF Top
<1>14. H = Edges(ir'.operands, ir.ops \ {w})
  BY <1>13 DEF Block
<1> HIDE DEF E, H
<1> DEFINE S == ir.ops \ {w}
<1>15. \A x \in Node, y \in S : ir'.operands[y][x] =
         IF x = w THEN 0 ELSE IF x = u THEN ir.operands[y][w] ELSE ir.operands[y][x]
  BY <1>5, <1>7, <1>10, <1>11
<1>16. ASSUME NEW x \in S, NEW y \in S, ir'.operands[y][x] > 0 PROVE x # y /\ <<x, y>> \in Paths(E)
  <2>1. CASE x = u
    <3>1. w \in Succs(E, u) /\ y \in Succs(E, w)
      BY <1>3, <1>4, <1>5, <1>15, <1>16, <2>1
    <3>2. <<u, w>> \in Paths(E) /\ <<w, y>> \in Paths(E) /\ <<w, u>> \notin Paths(E)
      BY <1>3, <1>4, <1>5, <3>1, EdgesArePaths, NoWayBack
    <3>3. QED
      BY <1>5, <2>1, <3>2, PathsTransitive
  <2>2. CASE x # u
    <3>1. y \in Succs(E, x)
      BY <1>5, <1>15, <1>16, <2>2
    <3>2. QED
      BY <1>5, <3>1, EdgesArePaths, NoWayBack
  <2>3. QED
    BY <2>1, <2>2
<1>17. ASSUME NEW y \in S \ {entry} PROVE \E x \in S : ir'.operands[y][x] > 0
  <2>1. PICK p \in ir.ops : ir.operands[y][p] > 0
    BY <1>5 DEF Framed
  <2>2. p # u
    BY <1>5, <1>7, <2>1
  <2>3. CASE p = w
    <3>1. u \in S /\ y \in S /\ u \in Node /\ ir'.operands[y][u] = ir.operands[y][w]
      BY <1>3, <1>5, <1>6, <1>15
    <3>2. QED
      BY <2>1, <2>3, <3>1
  <2>4. CASE p # w
    <3>1. p \in S /\ y \in S /\ p \in Node /\ ir'.operands[y][p] = ir.operands[y][p]
      BY <1>5, <1>15, <2>1, <2>2, <2>4
    <3>2. QED
      BY <2>1, <3>1
  <2>5. QED
    BY <2>3, <2>4
<1>18. ASSUME NEW x \in S \ {exit} PROVE \E y \in S : ir'.operands[y][x] > 0
  <2>1. PICK s \in ir.ops : ir.operands[s][x] > 0
    BY <1>5 DEF Framed
  <2>2. CASE s # w
    BY <1>5, <1>7, <1>15, <2>1, <2>2
  <2>3. CASE s = w
    <3>1. x = u
      BY <1>4, <1>5, <2>1, <2>3 DEF Just
    <3>2. PICK t \in ir.ops : ir.operands[t][w] > 0
      BY <1>4, <1>5, <1>6 DEF Framed
    <3>3. t # w
      BY <1>4, <1>5, <3>2 DEF Operands
    <3>4. t \in S /\ u \in Node /\ ir'.operands[t][u] = ir.operands[t][w]
      BY <1>3, <1>5, <1>6, <1>15, <3>2, <3>3
    <3>5. QED
      BY <3>1, <3>2, <3>4
  <2>4. QED
    BY <2>2, <2>3
<1>19. ASSUME NEW x \in S PROVE ~(ir'.operands[entry][x] > 0) /\ ~(ir'.operands[x][exit] > 0)
  <2>1. /\ \A p \in ir.ops : ~(ir.operands[entry][p] > 0)
        /\ \A s \in ir.ops : ~(ir.operands[s][exit] > 0)
    BY <1>5 DEF Framed
  <2>2. /\ ir'.operands[entry][x] = IF x = u THEN ir.operands[entry][w] ELSE ir.operands[entry][x]
        /\ ir'.operands[x][exit] = ir.operands[x][exit]
    <3>1. entry \in S /\ exit \in S /\ x \in Node /\ exit \in Node /\ exit # u /\ exit # w
      BY <1>3, <1>5, <1>6
    <3>2. QED
      BY <1>15, <3>1
  <2>3. QED
    BY <1>4, <1>5, <2>1, <2>2
<1>20. Acyclic(H) /\ Framed(H)
  <2>1. S \subseteq E.members /\ entry \in S /\ exit \in S /\ H = Edges(ir'.operands, S)
    BY <1>5, <1>6, <1>14
  <2> HIDE DEF S
  <2>2. QED
    BY <1>5, <1>16, <1>17, <1>18, <1>19, <2>1, EdgeByEdge
<1>21. Labels' /\ AtRest' /\ Holding' /\ Subs'
  <2>1. UNCHANGED pod /\ SameLabels
    BY <1>1, <1>8 DEF SameLabels
  <2>2. holds[u] # {} /\ holds \in [Node -> SUBSET RecordedNodes]
    BY <1>1, <1>3 DEF IInv, TypeOK, Holding, Present
  <2>3. \A x \in Node : holds'[x] = {} <=> holds[x] = {}
    BY <1>1, <2>2
  <2>4. QED
    BY <1>1, <1>2, <1>3, <1>8, <2>1, <2>3, PassStep
<1>22. TypeOK'
  <2>1. ir' \in Blocks
    BY <1>8, <1>12 DEF Blocks, IInv, TypeOK
  <2>2. holds' \in [Node -> SUBSET RecordedNodes] /\ todo' \subseteq Node
    BY <1>1 DEF IInv, TypeOK
  <2>3. QED
    BY <1>1, <1>2, <2>1, <2>2 DEF IInv, TypeOK
<1>23. Running'
  <2>1. ASSUME NEW y \in ir'.ops, NEW x \in Node \ Top' PROVE ir'.operands[y][x] = 0
    <3>1. x # w => ir.operands[y][x] = 0
      BY <1>1, <1>3, <1>8, <1>13, <2>1 DEF IInv, Running
    <3>2. QED
      BY <1>3, <1>6, <1>8, <1>13, <1>15, <3>1
  <2>2. ASSUME NEW y \in Node \ (ir'.ops \union ir'.nested), NEW x \in Node
        PROVE  ir'.operands[y][x] = 0
    <3>1. y = w \/ y \notin ir.ops
      BY <1>8
    <3>2. y \notin ir.ops => \A z \in Node : ir.operands[y][z] = 0
      BY <1>1, <1>3 DEF IInv, Running
    <3>3. old[y][u] = 0 /\ old[y][w] = 0 /\ old[y][x] = 0
      BY <1>10, <3>1, <3>2
    <3>4. QED
      BY <1>11, <3>3
  <2>3. ASSUME NEW x \in ir'.ops \ Batch, NEW y \in ir'.ops PROVE ir'.operands[y][x] <= 1
    <3>1. ir.operands[y][x] <= 1 /\ ir.operands[y][w] <= 1
      BY <1>1, <1>4, <1>6, <1>8 DEF IInv, Running
    <3>2. QED
      BY <1>5, <1>8, <1>15, <3>1
  <2>4. Acyclic(Block') /\ Framed(Block')
    BY <1>20 DEF H
  <2>5. todo' \subseteq Top' \ {entry, exit}
    BY <1>1, <1>3, <1>13 DEF IInv, Running
  <2>6. QED
    BY <1>1, <1>2, <1>3, <1>8, <2>1, <2>2, <2>3, <2>4, <2>5 DEF Running
<1>24. Groups' /\ Rows' /\ EdgesReduced'
  BY <1>1, <1>2, <1>3 DEF Groups, Rows, EdgesReduced
<1>25. QED
  BY <1>21, <1>22, <1>23, <1>24 DEF IInv
-----------------------------------------------------------------------------
(***************************************************************************)
(* The bits of a matrix: the word and the position of one bit are no       *)
(* other's, so that setting a bit or a row sets nothing else.              *)
(***************************************************************************)
LEMMA DivUnique ==
  ASSUME NEW A \in Nat \ {0}, NEW x \in Int, NEW q \in Int, NEW r \in 0 .. A - 1, x = A * q + r
  PROVE  x \div A = q
<1> DEFINE p == x \div A
           s == x % A
<1>1. p \in Int /\ s \in 0 .. A - 1 /\ x = A * p + s
  BY ModRange
<1> HIDE DEF p, s
<1>2. s - r = A * (q - p)
  BY <1>1
<1>3. q - p = 0
  <2>1. q - p \in Int /\ s - r \in Int /\ -A < s - r /\ s - r < A
    BY <1>1
  <2>2. QED
    BY <1>2, <2>1, SmallMultiple
<1>4. QED
  BY <1>1, <1>3 DEF p

LEMMA InRange ==
  ASSUME NEW n \in Nat, NEW s \in Nat \ {0}, NEW i \in 0 .. n - 1, NEW q \in 0 .. s - 1
  PROVE  i * s + q \in 0 .. n * s - 1
<1>1. n * s = i * s + s + (n - 1 - i) * s
  <2>1. i \in Int /\ n - 1 - i \in Int /\ n = i + 1 + (n - 1 - i)
    OBVIOUS
  <2>2. \A x, y \in Int : (x + 1 + y) * s = x * s + s + y * s
    OBVIOUS
  <2>3. QED
    BY <2>1, <2>2
<1>2. i * s \in Nat /\ (n - 1 - i) * s \in Nat
  <2>1. i \in Nat /\ n - 1 - i \in Nat
    OBVIOUS
  <2>2. \A x, y \in Nat : x * y \in Nat
    OBVIOUS
  <2>3. QED
    BY <2>1, <2>2
<1>3. PICK a, b \in Nat : a = i * s /\ b = (n - 1 - i) * s
  BY <1>2
<1>4. PICK c \in Int : c = n * s
  OBVIOUS
<1>5. c = a + s + b
  BY <1>1, <1>3, <1>4
<1>6. a + q \in 0 .. c - 1
  BY <1>3, <1>5
<1>7. QED
  BY <1>3, <1>4, <1>6

LEMMA WordPlace ==
  ASSUME NEW n \in Nat, NEW i \in 0 .. n - 1, NEW j \in 0 .. n - 1
  PROVE  /\ Stride(n) \in Nat \ {0} /\ j \div Bits \in 0 .. Stride(n) - 1 /\ j % Bits \in 0 .. Bits - 1
         /\ j = Bits * (j \div Bits) + (j % Bits)
         /\ WordOf(n, i, j) \in 0 .. n * Stride(n) - 1
         /\ WordOf(n, i, j) \div Stride(n) = i /\ WordOf(n, i, j) % Stride(n) = j \div Bits
<1> DEFINE q == j \div Bits
           r == j % Bits
           s == Stride(n)
           t == (n + Bits - 1) % Bits
<1>1. Bits \in Nat \ {0}
  BY BitsAssumption
<1>2. q \in Int /\ r \in 0 .. Bits - 1 /\ j = Bits * q + r
  BY <1>1, ModRange
<1>3. s \in Int /\ t \in 0 .. Bits - 1 /\ n + Bits - 1 = Bits * s + t
  BY <1>1, ModRange DEF Stride
<1>4. WordOf(n, i, j) = i * s + q
  BY DEF WordOf
<1> HIDE DEF q, r, s, t
<1>5. q >= 0
  <2>1. SUFFICES ASSUME q <= -1 PROVE FALSE
    BY <1>2
  <2>2. Bits * q = -Bits - Bits * (-q - 1) /\ Bits * (-q - 1) >= 0
    BY <1>1, <1>2, <2>1
  <2>3. QED
    BY <1>1, <1>2, <2>2
<1>6. q < s
  <2>1. SUFFICES ASSUME q >= s PROVE FALSE
    BY <1>2, <1>3
  <2>2. Bits * q = Bits * s + Bits * (q - s) /\ Bits * (q - s) >= 0 /\ Bits * s \in Int
    BY <1>1, <1>2, <1>3, <2>1
  <2>3. PICK a \in Int : a = Bits * s
    BY <2>2
  <2>4. Bits * q >= a /\ n + Bits - 1 = a + t
    BY <1>1, <1>2, <1>3, <2>2, <2>3
  <2>5. j >= a
    BY <1>1, <1>2, <2>3, <2>4
  <2>6. n + Bits - 1 = a + t /\ t <= Bits - 1 /\ t \in Int /\ j <= n - 1 /\ j \in Int
    BY <1>1, <1>3, <2>4
  <2>7. QED
    BY <1>1, <2>3, <2>5, <2>6
<1>7. i * s + q \in 0 .. n * s - 1
  BY <1>2, <1>3, <1>5, <1>6, InRange
<1>8. s \in Nat \ {0} /\ q \in 0 .. s - 1 /\ i * s + q = s * i + q /\ i * s + q \in Int
  BY <1>2, <1>3, <1>5, <1>6
<1>9. (i * s + q) \div s = i /\ (i * s + q) % s = q
  BY <1>8, DivUnique, ModUnique
<1>10. QED
  BY <1>2, <1>4, <1>7, <1>8, <1>9 DEF q, r, s

LEMMA BitOfNone ==
  ASSUME NEW n \in Nat
  PROVE  /\ NoBits(n) \in Matrices(n)
         /\ \A i, j \in 0 .. n - 1 : ~TestBit(NoBits(n), n, i, j)
BY WordPlace DEF Matrices, NoBits, TestBit

LEMMA BitOfSet ==
  ASSUME NEW n \in Nat, NEW words \in Matrices(n), NEW i \in 0 .. n - 1, NEW j \in 0 .. n - 1
  PROVE  /\ SetBit(words, n, i, j) \in Matrices(n)
         /\ \A k, l \in 0 .. n - 1 :
              TestBit(SetBit(words, n, i, j), n, k, l) <=> TestBit(words, n, k, l) \/ (k = i /\ l = j)
<1> DEFINE new == SetBit(words, n, i, j)
           W == WordOf(n, i, j)
<1>1. /\ W \in 0 .. n * Stride(n) - 1 /\ W \div Stride(n) = i /\ W % Stride(n) = j \div Bits
      /\ j = Bits * (j \div Bits) + (j % Bits) /\ j % Bits \in 0 .. Bits - 1
  BY WordPlace
<1>2. /\ new \in Matrices(n) /\ new[W] = words[W] \union {j % Bits}
      /\ \A V \in 0 .. n * Stride(n) - 1 : V # W => new[V] = words[V]
  BY <1>1 DEF SetBit, Matrices
<1> HIDE DEF new
<1>3. ASSUME NEW k \in 0 .. n - 1, NEW l \in 0 .. n - 1
      PROVE  TestBit(new, n, k, l) <=> TestBit(words, n, k, l) \/ (k = i /\ l = j)
  <2> DEFINE V == WordOf(n, k, l)
  <2>1. /\ V \in 0 .. n * Stride(n) - 1 /\ V \div Stride(n) = k /\ V % Stride(n) = l \div Bits
        /\ l = Bits * (l \div Bits) + (l % Bits)
    BY WordPlace
  <2>2. k = i /\ l = j => W = V
    OBVIOUS
  <2> HIDE DEF W, V
  <2>3. W = V /\ j % Bits = l % Bits => k = i /\ l = j
    BY <1>1, <2>1
  <2>4. l % Bits \in new[V] <=> l % Bits \in words[V] \/ (k = i /\ l = j)
    <3>1. CASE V = W
      BY <1>2, <2>3, <3>1
    <3>2. CASE V # W
      BY <1>2, <2>1, <2>2, <3>2
    <3>3. QED
      BY <3>1, <3>2
  <2>5. QED
    BY <2>4 DEF TestBit, V
<1>4. QED
  BY <1>2, <1>3 DEF new

LEMMA BitOfRows ==
  ASSUME NEW n \in Nat, NEW words \in Matrices(n), NEW i \in 0 .. n - 1, NEW j \in 0 .. n - 1
  PROVE  /\ OrRows(words, n, i, j) \in Matrices(n)
         /\ \A k, l \in 0 .. n - 1 :
              TestBit(OrRows(words, n, i, j), n, k, l)
                <=> TestBit(words, n, k, l) \/ (k = i /\ TestBit(words, n, j, l))
<1> DEFINE new == OrRows(words, n, i, j)
<1>1. new \in Matrices(n)
  <2>1. ASSUME NEW w \in 0 .. n * Stride(n) - 1
        PROVE  words[(j * Stride(n)) + (w % Stride(n))] \in SUBSET (0 .. Bits - 1)
    <3>1. Stride(n) \in Nat \ {0}
      BY WordPlace
    <3>2. w % Stride(n) \in 0 .. Stride(n) - 1
      <4>1. w \in Int
        OBVIOUS
      <4>2. QED
        BY <3>1, <4>1, ModRange
    <3>3. (j * Stride(n)) + (w % Stride(n)) \in 0 .. n * Stride(n) - 1
      BY <3>1, <3>2, InRange
    <3>4. QED
      BY <3>3 DEF Matrices
  <2>2. QED
    BY <2>1 DEF OrRows, Matrices
<1>2. ASSUME NEW k \in 0 .. n - 1, NEW l \in 0 .. n - 1
      PROVE  TestBit(new, n, k, l) <=> TestBit(words, n, k, l) \/ (k = i /\ TestBit(words, n, j, l))
  <2> DEFINE V == WordOf(n, k, l)
  <2>1. V \in 0 .. n * Stride(n) - 1 /\ V \div Stride(n) = k /\ V % Stride(n) = l \div Bits
    BY WordPlace
  <2>2. WordOf(n, j, l) = (j * Stride(n)) + (V % Stride(n))
    BY <2>1 DEF WordOf
  <2> HIDE DEF V
  <2>3. new[V] = IF k = i THEN words[V] \union words[WordOf(n, j, l)] ELSE words[V]
    BY <2>1, <2>2 DEF OrRows, Matrices
  <2> HIDE DEF new
  <2>4. l % Bits \in new[V] <=> l % Bits \in words[V] \/ (k = i /\ l % Bits \in words[WordOf(n, j, l)])
    BY <2>3
  <2>5. QED
    BY <2>4 DEF TestBit, V
<1>3. QED
  BY <1>1, <1>2

(* Each operation has an index of its own. *)
LEMMA Places ==
  ASSUME NEW S, S \subseteq Node
  PROVE  LET place(u) == Cardinality({x \in S : Rank[x] < Rank[u]})
         IN  /\ Cardinality(S) \in Nat /\ \A u \in S : place(u) \in 0 .. Cardinality(S) - 1
             /\ \A u, v \in S : place(u) = place(v) => u = v
<1> DEFINE before(u) == {x \in S : Rank[x] < Rank[u]}
           place(u) == Cardinality(before(u))
<1>1. IsFiniteSet(S)
  BY FS_Subset, NodeFacts
<1>2. \A x \in Node : Rank[x] \in Nat
  BY MlirAssumption
<1>3. \A x, y \in Node : Rank[x] = Rank[y] => x = y
  BY MlirAssumption DEF IsInjective
<1>4. Cardinality(S) \in Nat
  BY <1>1, FS_CardinalityType
<1>5. \A u \in S : IsFiniteSet(before(u)) /\ place(u) \in Nat
  BY <1>1, FS_Subset, FS_CardinalityType
<1>6. ASSUME NEW u \in S PROVE place(u) \in 0 .. Cardinality(S) - 1
  <2>1. before(u) \subseteq S /\ u \notin before(u)
    BY <1>2
  <2>2. place(u) <= Cardinality(S) /\ place(u) # Cardinality(S)
    BY <1>1, <2>1, FS_Subset
  <2>3. QED
    BY <1>4, <1>5, <2>2
<1>7. ASSUME NEW u \in S, NEW v \in S, Rank[u] < Rank[v] PROVE place(u) # place(v)
  <2>1. before(u) \subseteq before(v)
    BY <1>2, <1>7
  <2>2. u \in before(v) /\ u \notin before(u)
    BY <1>2, <1>7
  <2>3. QED
    BY <1>5, <2>1, <2>2, FS_Subset
<1>8. ASSUME NEW u \in S, NEW v \in S, place(u) = place(v) PROVE u = v
  <2>1. Rank[u] = Rank[v]
    BY <1>2, <1>7, <1>8
  <2>2. QED
    BY <1>3, <2>1
<1>9. QED
  BY <1>4, <1>6, <1>8

LEMMA Indices ==
  ASSUME TypeOK
  PROVE  /\ Size \in Nat /\ \A u \in ir.ops : Index(u) \in 0 .. Size - 1
         /\ \A u, v \in ir.ops : Index(u) = Index(v) => u = v
<1>1. ir.ops \subseteq Node
  BY DEF TypeOK, Blocks
<1>2. QED
  BY <1>1, Places DEF Index, Size

LEMMA RowFilled ==
  ASSUME TypeOK, matrix \in Matrices(Size), NEW u \in ir.ops, Accumulate(u), u \notin Users(ir, u)
  PROVE  /\ matrix' \in Matrices(Size)
         /\ \A k, l \in 0 .. Size - 1 :
              TestBit(matrix', Size, k, l)
                <=> \/ TestBit(matrix, Size, k, l)
                    \/ /\ k = Index(u)
                       /\ l = Index(u) \/ \E s \in Users(ir, u) : TestBit(matrix, Size, Index(s), l)
<1> DEFINE U == Users(ir, u)
           V == Matrices(Size)
           base == SetBit(matrix, Size, Index(u), Index(u))
           F(iter) == iter = [s \in SUBSET U |->
                         IF s = {} THEN base
                         ELSE LET x == CHOOSE x \in s : TRUE
                              IN  OrRows(iter[s \ {x}], Size, Index(u), Index(x))]
           filled == CHOOSE iter : F(iter)
           step == [p \in U \X V |-> OrRows(p[2], Size, Index(u), Index(p[1]))]
<1>1. matrix' = filled[U]
  BY DEF Accumulate, FoldSet, MapThenFoldSet
<1>2. Size \in Nat /\ U \subseteq ir.ops /\ IsFiniteSet(U) /\ \A x \in ir.ops : Index(x) \in 0 .. Size - 1
  <2>1. ir.ops \subseteq Node
    BY DEF TypeOK, Blocks
  <2>2. U \subseteq ir.ops
    BY DEF Users
  <2>3. IsFiniteSet(U)
    BY <2>1, <2>2, FS_Subset, NodeFacts
  <2>4. QED
    BY <2>2, <2>3, Indices
<1>3. /\ base \in V
      /\ \A k, l \in 0 .. Size - 1 :
           TestBit(base, Size, k, l) <=> TestBit(matrix, Size, k, l) \/ (k = Index(u) /\ l = Index(u))
  BY <1>2, BitOfSet
<1>4. \A x \in U : x \in ir.ops /\ Index(x) # Index(u)
  BY <1>2, Indices
<1> HIDE DEF base, U
<1>5. \E iter : F(iter)
  <2>1. step \in [U \X V -> V]
    BY <1>2, <1>4, BitOfRows
  <2>2. PICK h : Folding(SUBSET U, V, base, step, h)
    <3> HIDE DEF step, V
    <3>1. QED
      BY <1>2, <1>3, <2>1, FoldExists
  <2>3. ASSUME NEW s \in SUBSET U
        PROVE  h[s] = IF s = {} THEN base
                      ELSE LET x == CHOOSE x \in s : TRUE
                           IN  OrRows(h[s \ {x}], Size, Index(u), Index(x))
    <3>1. CASE s = {}
      BY <2>2, <3>1 DEF Folding
    <3>2. CASE s # {}
      <4>1. Any(s) \in U /\ s \ {Any(s)} \in SUBSET U
        BY <3>2 DEF Any
      <4>2. h[s \ {Any(s)}] \in V
        BY <2>2, <4>1 DEF Folding
      <4>3. h[s] = step[<<Any(s), h[s \ {Any(s)}]>>]
        BY <2>2, <3>2 DEF Folding
      <4>4. h[s] = OrRows(h[s \ {Any(s)}], Size, Index(u), Index(Any(s)))
        BY <4>1, <4>2, <4>3
      <4>5. QED
        BY <3>2, <4>4 DEF Any
    <3>3. QED
      BY <3>1, <3>2
  <2>4. DOMAIN h = SUBSET U /\ h = [s \in DOMAIN h |-> h[s]]
    BY <2>2 DEF Folding
  <2>5. F(h)
    BY <2>3, <2>4
  <2>6. QED
    BY <2>5
<1>6. F(filled)
  BY <1>5
<1> HIDE DEF filled
<1>7. ASSUME NEW s \in SUBSET U
      PROVE  filled[s] = IF s = {} THEN base
                         ELSE OrRows(filled[s \ {Any(s)}], Size, Index(u), Index(Any(s)))
  BY <1>6 DEF Any
<1> DEFINE Filled(s) ==
             /\ filled[s] \in V
             /\ \A k, l \in 0 .. Size - 1 :
                  TestBit(filled[s], Size, k, l)
                    <=> \/ TestBit(base, Size, k, l)
                        \/ k = Index(u) /\ \E x \in s : TestBit(base, Size, Index(x), l)
           T == {s \in SUBSET U : ~Filled(s)}
<1>8. T = {}
  <2>1. SUFFICES ASSUME T # {} PROVE FALSE
    OBVIOUS
  <2>2. PICK s \in T : \A t \in T : t \subseteq s => t = s
    <3>1. T \subseteq SUBSET U
      OBVIOUS
    <3> HIDE DEF T
    <3>2. QED
      BY <1>2, <2>1, <3>1, SmallestSet
  <2>3. s \in SUBSET U
    BY <2>2
  <2>4. CASE s = {}
    BY <1>3, <1>7, <2>2, <2>4
  <2>5. CASE s # {}
    <3> DEFINE a == Any(s)
               t == s \ {a}
    <3>1. a \in s /\ t \in SUBSET U /\ t # s /\ s = t \union {a}
      BY <2>2, <2>5 DEF Any
    <3>2. Filled(t)
      BY <2>2, <3>1
    <3>3. filled[s] = OrRows(filled[t], Size, Index(u), Index(a))
      BY <1>7, <2>3, <2>5
    <3> HIDE DEF a, t
    <3>4. Index(a) \in 0 .. Size - 1 /\ Index(u) \in 0 .. Size - 1 /\ Index(a) # Index(u)
      BY <1>2, <1>4, <2>3, <3>1
    <3>5. PICK old : old = filled[t]
      OBVIOUS
    <3>6. /\ old \in V
          /\ \A k, l \in 0 .. Size - 1 :
               TestBit(old, Size, k, l)
                 <=> \/ TestBit(base, Size, k, l)
                     \/ k = Index(u) /\ \E x \in t : TestBit(base, Size, Index(x), l)
      BY <3>2, <3>5
    <3>7. PICK i, j \in 0 .. Size - 1 : i = Index(u) /\ j = Index(a)
      BY <3>4
    <3>8. /\ OrRows(old, Size, i, j) \in V
          /\ \A k, l \in 0 .. Size - 1 :
               TestBit(OrRows(old, Size, i, j), Size, k, l)
                 <=> TestBit(old, Size, k, l) \/ (k = i /\ TestBit(old, Size, j, l))
      BY ZenonT(60), <1>2, <3>6, BitOfRows
    <3>9. ASSUME NEW k \in 0 .. Size - 1, NEW l \in 0 .. Size - 1
          PROVE  TestBit(filled[s], Size, k, l)
                   <=> \/ TestBit(base, Size, k, l)
                       \/ k = Index(u) /\ \E x \in s : TestBit(base, Size, Index(x), l)
      <4>1. TestBit(filled[s], Size, k, l) <=> TestBit(old, Size, k, l) \/ (k = i /\ TestBit(old, Size, j, l))
        BY <3>3, <3>5, <3>7, <3>8
      <4>2. TestBit(old, Size, j, l) <=> TestBit(base, Size, Index(a), l)
        BY <3>4, <3>6, <3>7
      <4>3. (\E x \in s : TestBit(base, Size, Index(x), l))
              <=> \/ \E x \in t : TestBit(base, Size, Index(x), l)
                  \/ TestBit(base, Size, Index(a), l)
        BY <3>1
      <4>4. TestBit(old, Size, k, l)
              <=> \/ TestBit(base, Size, k, l)
                  \/ k = Index(u) /\ \E x \in t : TestBit(base, Size, Index(x), l)
        BY <3>6
      <4>5. QED
        BY <3>7, <4>1, <4>2, <4>3, <4>4
    <3>10. filled[s] \in V
      BY <3>3, <3>5, <3>7, <3>8
    <3>11. Filled(s)
      BY <3>9, <3>10
    <3>12. QED
      BY <2>2, <3>11
  <2>6. QED
    BY <2>4, <2>5
<1>9. Filled(U)
  BY <1>8
<1>10. ASSUME NEW k \in 0 .. Size - 1, NEW l \in 0 .. Size - 1
       PROVE  TestBit(matrix', Size, k, l)
                <=> \/ TestBit(matrix, Size, k, l)
                    \/ /\ k = Index(u)
                       /\ l = Index(u) \/ \E s \in U : TestBit(matrix, Size, Index(s), l)
  <2>1. \A s \in U : TestBit(base, Size, Index(s), l) <=> TestBit(matrix, Size, Index(s), l)
    BY <1>2, <1>3, <1>4
  <2>2. TestBit(base, Size, k, l) <=> TestBit(matrix, Size, k, l) \/ (k = Index(u) /\ l = Index(u))
    BY <1>3
  <2>3. TestBit(matrix', Size, k, l)
          <=> \/ TestBit(base, Size, k, l)
              \/ k = Index(u) /\ \E x \in U : TestBit(base, Size, Index(x), l)
    BY <1>1, <1>9
  <2>4. QED
    BY <2>1, <2>2, <2>3
<1>11. QED
  BY <1>1, <1>9, <1>10 DEF U

LEMMA AccumulateIInv ==
  ASSUME IInv, NEW u \in Node, Accumulate(u)
  PROVE  IInv'
<1>1. /\ stage = "reduce-edge" /\ u \in todo /\ Users(ir, u) \intersect todo = {} /\ todo' = todo \ {u}
      /\ UNCHANGED <<pod, ir, stage, cur, dead, group, holds>>
  BY DEF Accumulate
<1>2. /\ g' = g /\ cmd' = cmd /\ sub' = sub /\ plan' = plan /\ ir' = ir /\ dead' = dead /\ holds' = holds
      /\ stage' = stage /\ group' = group /\ cur' = cur
  BY <1>1 DEF pod
<1>3. Labels' /\ AtRest' /\ Holding' /\ Subs' /\ Top' = Top /\ Block' = Block
  BY <1>1, <1>2, SameBlock
<1>4. TypeOK'
  BY <1>1, <1>2 DEF IInv, TypeOK
<1>5. Running'
  BY <1>1, <1>2, <1>3 DEF IInv, Running
<1>6. dead = {} /\ Top = ir.ops /\ u \in ir.ops /\ TypeOK /\ matrix \in Matrices(Size)
  BY <1>1 DEF IInv, Running, Top, Rows
<1> DEFINE E == Block
<1>7. /\ E \in Graphs /\ EdgesMirrored(E) /\ Acyclic(E) /\ E.members = ir.ops
      /\ \A x \in ir.ops : \A y : y \in Succs(E, x) <=> y \in ir.ops /\ ir.operands[y][x] > 0
  BY <1>1, <1>6, BlockFacts
<1> HIDE DEF E
<1>8. u \notin Users(ir, u) /\ Users(ir, u) = Succs(E, u)
  BY <1>6, <1>7, NoWayBack DEF Users
<1>9. /\ matrix' \in Matrices(Size)
      /\ \A k, l \in 0 .. Size - 1 :
           TestBit(matrix', Size, k, l)
             <=> \/ TestBit(matrix, Size, k, l)
                 \/ /\ k = Index(u)
                    /\ l = Index(u) \/ \E s \in Users(ir, u) : TestBit(matrix, Size, Index(s), l)
  BY <1>6, <1>8, RowFilled
<1>10. /\ \A x \in ir.ops : Index(x) \in 0 .. Size - 1
       /\ \A x, y \in ir.ops : Index(x) = Index(y) => x = y
  BY <1>6, Indices
<1>11. \A x \in ir.ops : Reached(x) = IF x \in todo THEN {} ELSE After(E, x)
  BY <1>1 DEF IInv, Rows, E
<1>12. ASSUME NEW x \in ir.ops
       PROVE  {v \in ir.ops : TestBit(matrix', Size, Index(x), Index(v))}
                = IF x \in todo' THEN {} ELSE After(E, x)
  <2>1. CASE x # u
    <3>1. Index(x) # Index(u)
      BY <1>6, <1>10, <2>1
    <3>2. \A v \in ir.ops : TestBit(matrix', Size, Index(x), Index(v))
                              <=> TestBit(matrix, Size, Index(x), Index(v))
      BY <1>9, <1>10, <3>1
    <3>3. QED
      BY <1>1, <1>11, <2>1, <3>2 DEF Reached
  <2>2. CASE x = u
    <3>1. \A v \in ir.ops : ~TestBit(matrix, Size, Index(u), Index(v))
      BY <1>1, <1>6, <1>11 DEF Reached
    <3>2. \A s \in Users(ir, u) : /\ s \in ir.ops
                                  /\ \A v \in ir.ops : TestBit(matrix, Size, Index(s), Index(v))
                                                         <=> v \in After(E, s)
      BY <1>1, <1>11 DEF Reached, Users
    <3>3. \A v \in ir.ops : TestBit(matrix', Size, Index(u), Index(v))
                              <=> v = u \/ \E s \in Users(ir, u) : v \in After(E, s)
      BY <1>6, <1>9, <1>10, <3>1, <3>2
    <3>4. ASSUME NEW v \in ir.ops
          PROVE  v \in After(E, u) <=> v = u \/ \E s \in Users(ir, u) : v \in After(E, s)
      <4>1. \A z : v \in After(E, z) <=> <<z, v>> \in Paths(E)
        BY <1>7 DEF After
      <4>2. <<u, v>> \in Paths(E) /\ u # v => \E s \in Succs(E, u) : <<s, v>> \in Paths(E)
        BY <1>7, FirstEdge
      <4>3. \A s \in Succs(E, u) : <<s, v>> \in Paths(E) => <<u, v>> \in Paths(E)
        BY <1>6, <1>7, EdgesArePaths, PathsTransitive
      <4>4. v = u => <<u, v>> \in Paths(E)
        BY <1>6, <1>7, PathsReflexive
      <4>5. QED
        BY <1>8, <4>1, <4>2, <4>3, <4>4
    <3>5. After(E, u) \subseteq ir.ops
      BY <1>7 DEF After
    <3>6. QED
      BY <1>1, <2>2, <3>3, <3>4, <3>5
  <2>3. QED
    BY <2>1, <2>2
<1>13. Rows'
  <2>1. Size' = Size /\ \A x : Index(x)' = Index(x)
    BY <1>2 DEF Size, Index
  <2>2. \A x : Reached(x)' = {v \in ir.ops : TestBit(matrix', Size, Index(x), Index(v))}
    BY <1>2, <2>1 DEF Reached
  <2>3. matrix' \in Matrices(Size)'
    BY <1>9, <2>1
  <2>4. QED
    BY <1>2, <1>3, <1>12, <2>2, <2>3 DEF Rows, E
<1>14. Groups' /\ EdgesReduced'
  BY <1>1, <1>2 DEF Groups, EdgesReduced
<1>15. QED
  BY <1>3, <1>4, <1>5, <1>13, <1>14 DEF IInv
(***************************************************************************)
(* reduce-edge erases one operand per edge that another one implies; the   *)
(* last of the predecessors and the first of the successors stay.          *)
(***************************************************************************)
LEMMA EraseEdgesIInv ==
  ASSUME IInv, EraseEdges
  PROVE  IInv'
<1>1. /\ stage = "reduce-edge" /\ todo = {} /\ stage' = "done" /\ matrix' = NoBits(0)
      /\ ir' = [ir EXCEPT !.operands = [v \in Node |-> [u \in Node |->
                  IF u \in ir.ops /\ Redundant(u, v) THEN ir.operands[v][u] - 1
                                                     ELSE ir.operands[v][u]]]]
      /\ UNCHANGED <<pod, todo, cur, dead, group, holds>>
  BY DEF EraseEdges
<1>2. /\ g' = g /\ cmd' = cmd /\ sub' = sub /\ plan' = plan /\ dead' = dead /\ holds' = holds
      /\ group' = group /\ cur' = cur /\ todo' = todo
  BY <1>1 DEF pod
<1>3. dead = {} /\ ir.nested = {} /\ Top = ir.ops /\ TypeOK /\ Head(plan) = "reduce-edge" /\ plan # <<>>
  BY <1>1 DEF IInv, Running, Top
<1> DEFINE E == Block
           H == Block'
           S == ir.ops
<1>4. /\ E \in Graphs /\ EdgesMirrored(E) /\ SimpleEdges(E) /\ Acyclic(E) /\ Framed(E)
      /\ E.members = S /\ entry \in S /\ exit \in S
      /\ \A x \in S : \A y :
           /\ y \in Succs(E, x) <=> y \in S /\ ir.operands[y][x] > 0
           /\ y \in Preds(E, x) <=> y \in S /\ ir.operands[x][y] > 0
      /\ S \subseteq Node /\ \A u, v \in Node : ir.operands[v][u] \in Nat
  BY <1>1, <1>3, BlockFacts
<1>5. \A u \in S : Reached(u) = After(E, u)
  BY <1>1 DEF IInv, Rows
<1> HIDE DEF E, H
<1>6. \A u \in S : \A v \in Node :
        Redundant(u, v) <=> v \in Succs(E, u) /\ \E w \in Succs(E, u) \ {v} : <<w, v>> \in Paths(E)
  <2>1. \A w, v \in S : TestBit(matrix, Size, Index(w), Index(v)) <=> <<w, v>> \in Paths(E)
    BY <1>4, <1>5 DEF Reached, After
  <2>2. \A u \in S : Users(ir, u) = Succs(E, u) /\ Succs(E, u) \subseteq S
    BY <1>4 DEF Users
  <2>3. QED
    BY ZenonT(60), <2>1, <2>2 DEF Redundant
<1>7. /\ ir'.ops = ir.ops /\ ir'.nested = ir.nested /\ ir'.attr = ir.attr
      /\ ir' = [ops |-> ir'.ops, nested |-> ir'.nested, operands |-> ir'.operands, attr |-> ir'.attr]
      /\ ir'.operands = [v \in Node |-> [u \in Node |->
                           IF u \in S /\ Redundant(u, v) THEN ir.operands[v][u] - 1
                                                         ELSE ir.operands[v][u]]]
  BY <1>1 DEF IInv, TypeOK, Blocks
<1>8. \A u, v \in Node : ir'.operands[v][u] = IF u \in S /\ Redundant(u, v) THEN ir.operands[v][u] - 1
                                                                            ELSE ir.operands[v][u]
  BY <1>7
<1>9. \A u, v \in Node : /\ ir'.operands[v][u] \in Nat /\ ir'.operands[v][u] <= ir.operands[v][u]
                         /\ u \in S /\ ~Redundant(u, v) => ir'.operands[v][u] = ir.operands[v][u]
                         /\ u \in S /\ Redundant(u, v) => ir'.operands[v][u] = ir.operands[v][u] - 1
  BY <1>4, <1>6, <1>8
<1>10. ir'.operands \in Lists
  <2>1. \A v \in Node : ir'.operands[v] \in [Node -> Nat]
    BY <1>7, <1>9
  <2>2. QED
    BY <1>7, <2>1 DEF Lists
<1>11. Top' = S /\ H = Edges(ir'.operands, S)
  BY <1>2, <1>3, <1>7 DEF Top, Block, H
<1>12. ASSUME NEW x \in S, NEW y \in S, ir'.operands[y][x] > 0
       PROVE  x # y /\ <<x, y>> \in Paths(E) /\ y \in Succs(E, x)
  <2>1. y \in Succs(E, x)
    BY <1>4, <1>9, <1>12
  <2>2. QED
    BY <1>4, <2>1, EdgesArePaths, NoWayBack
<1>13. ASSUME NEW y \in S \ {entry} PROVE \E x \in S : ir'.operands[y][x] > 0
  <2>1. Preds(E, y) # {} /\ Preds(E, y) \subseteq E.members
    BY <1>4 DEF Framed
  <2>2. PICK p \in Preds(E, y) : \A s \in Preds(E, y) : <<p, s>> \in Paths(E) => s = p
    BY <1>4, <2>1, FirstAndLast
  <2>3. p \in S /\ p \in Node /\ y \in Node /\ ir.operands[y][p] > 0
    BY <1>4, <2>2
  <2>4. ASSUME NEW w \in Succs(E, p) \ {y}, <<w, y>> \in Paths(E) PROVE FALSE
    <3>1. PICK z \in After(E, w) : y \in Succs(E, z)
      BY <1>4, <2>4, LastEdge
    <3>2. z \in Preds(E, y) /\ <<w, z>> \in Paths(E)
      BY <1>4, <3>1 DEF After
    <3>3. <<p, w>> \in Paths(E) /\ <<w, p>> \notin Paths(E)
      BY <1>4, <2>3, EdgesArePaths, NoWayBack
    <3>4. <<p, z>> \in Paths(E)
      BY <1>4, <3>2, <3>3, PathsTransitive
    <3>5. QED
      BY <2>2, <3>2, <3>3, <3>4
  <2>5. ~Redundant(p, y)
    BY <1>6, <2>3, <2>4
  <2>6. QED
    BY <1>9, <2>3, <2>5
<1>14. ASSUME NEW x \in S \ {exit} PROVE \E y \in S : ir'.operands[y][x] > 0
  <2>1. Succs(E, x) # {} /\ Succs(E, x) \subseteq E.members
    BY <1>4 DEF Framed
  <2>2. PICK y \in Succs(E, x) : \A p \in Succs(E, x) : <<p, y>> \in Paths(E) => p = y
    BY <1>4, <2>1, FirstAndLast
  <2>3. y \in S /\ y \in Node /\ x \in Node /\ ir.operands[y][x] > 0
    BY <1>4, <2>2
  <2>4. ~Redundant(x, y)
    BY <1>6, <2>2, <2>3
  <2>5. QED
    BY <1>9, <2>3, <2>4
<1>15. ASSUME NEW x \in S PROVE ~(ir'.operands[entry][x] > 0) /\ ~(ir'.operands[x][exit] > 0)
  <2>1. entry \notin Succs(E, x) /\ x \notin Succs(E, exit)
    BY <1>4 DEF Framed
  <2>2. QED
    BY <1>4, <1>12, <2>1
<1>16. Acyclic(H) /\ Framed(H)
  <2>1. S \subseteq E.members
    BY <1>4
  <2>2. \A x, y \in S : ir'.operands[y][x] > 0 => x # y /\ <<x, y>> \in Paths(E)
    BY <1>12
  <2> HIDE DEF S
  <2>3. QED
    BY ZenonT(60), <1>4, <1>11, <1>13, <1>14, <1>15, <2>1, <2>2, EdgeByEdge
<1>17. Labels' /\ AtRest' /\ Holding' /\ Subs'
  <2>1. UNCHANGED pod /\ SameLabels
    BY <1>1, <1>7 DEF SameLabels
  <2>2. QED
    BY <1>1, <1>2, <1>3, <1>7, <2>1, PassStep
<1>18. TypeOK'
  <2>1. ir' \in Blocks
    BY <1>3, <1>7, <1>10 DEF Blocks, TypeOK
  <2>2. QED
    BY <1>1, <1>2, <1>3, <2>1 DEF TypeOK
<1>19. Running'
  <2>1. ASSUME NEW v \in S, NEW u \in Node \ S PROVE ir'.operands[v][u] = 0
    <3>1. ir.operands[v][u] = 0
      BY <1>1, <1>3 DEF IInv, Running
    <3>2. QED
      BY <1>4, <1>8, <2>1, <3>1
  <2>2. ASSUME NEW v \in Node \ (ir'.ops \union ir'.nested), NEW u \in Node
        PROVE  ir'.operands[v][u] = 0
    <3>1. ir.operands[v][u] = 0
      BY <1>1, <1>3, <1>7 DEF IInv, Running
    <3>2. ir'.operands[v][u] \in Nat /\ ir'.operands[v][u] <= 0
      BY <1>9, <3>1
    <3>3. QED
      BY <3>2
  <2>3. ASSUME NEW u \in S \ Batch, NEW v \in S PROVE ir'.operands[v][u] <= 1
    <3>1. ir.operands[v][u] <= 1
      BY <1>1 DEF IInv, Running
    <3>2. QED
      BY <1>4, <1>9, <3>1
  <2>4. Acyclic(Block') /\ Framed(Block')
    BY <1>16 DEF H
  <2>5. QED
    BY <1>1, <1>2, <1>3, <1>7, <1>11, <2>1, <2>2, <2>3, <2>4 DEF Running
<1>20. EdgesReduced'
  <2>1. SUFFICES ASSUME NEW u \in S \ Batches', NEW v \in Users(ir', u), Implied(u, v)'
                 PROVE  FALSE
    BY <1>7 DEF EdgesReduced
  <2>2. u \notin Batch
    <3>1. Batches' = Batches /\ u \in Node
      BY <1>2, <1>4 DEF Batches
    <3>2. holds[u] # {}
      BY <1>1 DEF IInv, Holding, Present
    <3>3. QED
      BY <2>1, <3>1, <3>2 DEF IInv, Holding, Batches
  <2> DEFINE G == [successors |-> [x \in Node |-> [y \in Node |-> ir'.operands[y][x]]], members |-> ir'.ops]
  <2>3. PICK w \in Users(ir', u) \ {v} : <<w, v>> \in Paths(G)
    BY <2>1 DEF Implied
  <2>4. v \in S /\ w \in S /\ ir'.operands[v][u] > 0 /\ ir'.operands[w][u] > 0
    BY <1>7, <2>3 DEF Users
  <2>5. /\ H \in Graphs /\ H.members = S
        /\ \A x \in S : \A y : y \in Succs(H, x) <=> y \in S /\ ir'.operands[y][x] > 0
    BY <1>4, <1>11, EdgesGraph
  <2>6. <<w, v>> \in Paths(H)
    <3>1. PICK K : K = G
      OBVIOUS
    <3>2. /\ K.members = S
          /\ \A x \in S : Succs(K, x) = {y \in Node : ir'.operands[y][x] > 0}
      BY <1>4, <1>7, <3>1 DEF Succs
    <3>3. <<w, v>> \in Paths(K)
      BY <2>3, <3>1
    <3> HIDE DEF G
    <3>4. \A y \in Node \ S, x \in Node : ir'.operands[y][x] = 0
      BY <1>1, <1>3, <1>7, <1>19 DEF Running
    <3>5. ASSUME NEW x \in S PROVE Succs(K, x) = Succs(H, x)
      <4>1. \A y : y \in Succs(H, x) <=> y \in Node /\ ir'.operands[y][x] > 0
        BY <1>4, <2>5, <3>4
      <4>2. \A y : y \in Succs(K, x) <=> y \in Node /\ ir'.operands[y][x] > 0
        BY <3>2
      <4>3. QED
        BY <4>1, <4>2
    <3>6. Paths(K) = Paths(H)
      BY <2>5, <3>2, <3>5, SamePaths
    <3>7. QED
      BY <3>3, <3>6
  <2>7. <<w, v>> \in Paths(E)
    <3>1. Coarser(H, E)
      BY <1>4, <1>12, <2>5 DEF Coarser
    <3>2. QED
      BY <1>4, <2>5, <2>6, <3>1, CoarserPaths
  <2>8. Redundant(u, v)
    BY <1>4, <1>6, <1>12, <2>3, <2>4, <2>7
  <2>9. ir.operands[v][u] <= 1
    BY <1>1, <2>2, <2>4 DEF IInv, Running
  <2>10. ir'.operands[v][u] = ir.operands[v][u] - 1 /\ ir.operands[v][u] \in Nat
    BY <1>4, <1>9, <2>4, <2>8
  <2>11. QED
    BY <2>4, <2>9, <2>10
<1>21. Groups' /\ Rows'
  BY <1>1 DEF Groups, Rows
<1>22. QED
  BY <1>17, <1>18, <1>19, <1>20, <1>21 DEF IInv
-----------------------------------------------------------------------------
(* The graph of the groups. *)
LEMMA GroupedGraph ==
  ASSUME NEW part, NEW operands, NEW G, G = Grouped(operands, part)
  PROVE  /\ G \in Graphs /\ EdgesMirrored(G) /\ SimpleEdges(G) /\ G.members = Parts(part)
         /\ \A a \in Parts(part) : \A b :
              /\ b \in Succs(G, a) <=> /\ b \in Parts(part) /\ a # b
                                       /\ \E x \in part[a], y \in part[b] : operands[y][x] > 0
              /\ b \in Preds(G, a) <=> /\ b \in Parts(part) /\ a # b
                                       /\ \E x \in part[b], y \in part[a] : operands[y][x] > 0
<1> DEFINE S == Parts(part)
           L == Crossing(operands, part)
<1>1. S \subseteq Node /\ L \subseteq S \X S
  BY DEF Parts, Crossing
<1>2. \A a, b \in S : <<a, b>> \in L
                        <=> a # b /\ \E x \in part[a], y \in part[b] : operands[y][x] > 0
  BY DEF Crossing
<1> HIDE DEF S, L
<1>3. Consists(G, S, L)
  BY <1>1, SimplyGraph DEF Grouped, S, L
<1>4. G \in Graphs /\ EdgesMirrored(G) /\ SimpleEdges(G) /\ G.members = S
  BY <1>3 DEF Consists
<1>5. \A a \in S : \A b : /\ b \in Succs(G, a) <=> b \in S /\ <<a, b>> \in L
                          /\ b \in Preds(G, a) <=> b \in S /\ <<b, a>> \in L
  BY ZenonT(60), <1>3 DEF Consists
<1>6. QED
  BY <1>2, <1>4, <1>5 DEF S

(* Where every edge is listed once, lists are sets. *)
LEMMA ListsAsSets ==
  ASSUME NEW E \in Graphs, EdgesMirrored(E), SimpleEdges(E), NEW u \in E.members, NEW v \in E.members
  PROVE  /\ Succs(E, u) = Succs(E, v) /\ Preds(E, u) = Preds(E, v) => AreFalseTwins(E, u, v)
         /\ Succs(E, u) = {v} /\ Preds(E, v) = {u} => AreSequence(E, u, v)
<1>1. /\ E.members \subseteq Node /\ E.successors \in [Node -> [Node -> Nat]]
      /\ E.predecessors \in [Node -> [Node -> Nat]]
  BY DEF Graphs, Lists
<1>2. ASSUME NEW x \in E.members, NEW y \in Node
      PROVE  /\ E.successors[x][y] = IF y \in Succs(E, x) THEN 1 ELSE 0
             /\ E.predecessors[x][y] = IF y \in Preds(E, x) THEN 1 ELSE 0
  <2>1. E.successors[x][y] \in Nat /\ E.successors[x][y] <= 1 /\ E.predecessors[x][y] \in Nat
    BY <1>1 DEF SimpleEdges
  <2>2. E.predecessors[x][y] <= 1
    <3>1. CASE y \in E.members
      <4>1. E.predecessors[x][y] = E.successors[y][x] /\ E.successors[y][x] <= 1
        BY <1>1, <3>1 DEF EdgesMirrored, SimpleEdges
      <4>2. QED
        BY <4>1
    <3>2. CASE y \notin E.members
      <4>1. E.predecessors[x][y] = 0
        BY <1>1, <3>2 DEF EdgesMirrored
      <4>2. QED
        BY <4>1
    <3>3. QED
      BY <3>1, <3>2
  <2>3. QED
    BY <2>1, <2>2 DEF Succs, Preds
<1>3. \A x, y \in E.members : /\ Succs(E, x) = Succs(E, y) => E.successors[x] = E.successors[y]
                              /\ Preds(E, x) = Preds(E, y) => E.predecessors[x] = E.predecessors[y]
  <2>1. ASSUME NEW x \in E.members, NEW y \in E.members
        PROVE  /\ Succs(E, x) = Succs(E, y) => E.successors[x] = E.successors[y]
               /\ Preds(E, x) = Preds(E, y) => E.predecessors[x] = E.predecessors[y]
    <3>1. /\ E.successors[x] \in [Node -> Nat] /\ E.successors[y] \in [Node -> Nat]
          /\ E.predecessors[x] \in [Node -> Nat] /\ E.predecessors[y] \in [Node -> Nat]
      BY <1>1
    <3>2. Succs(E, x) = Succs(E, y) => \A z \in Node : E.successors[x][z] = E.successors[y][z]
      BY <1>2
    <3>3. Preds(E, x) = Preds(E, y) => \A z \in Node : E.predecessors[x][z] = E.predecessors[y][z]
      BY <1>2
    <3>4. QED
      BY <3>1, <3>2, <3>3
  <2>2. QED
    BY <2>1
<1>4. Succs(E, u) = {v} => E.successors[u] = Just(v)
  <2>1. E.successors[u] \in [Node -> Nat] /\ Just(v) \in [Node -> Nat]
    BY <1>1 DEF Just
  <2>2. Succs(E, u) = {v} => \A z \in Node : E.successors[u][z] = Just(v)[z]
    BY <1>2 DEF Just
  <2>3. QED
    BY <2>1, <2>2
<1>5. Preds(E, v) = {u} => E.predecessors[v] = Just(u)
  <2>1. E.predecessors[v] \in [Node -> Nat] /\ Just(u) \in [Node -> Nat]
    BY <1>1 DEF Just
  <2>2. Preds(E, v) = {u} => \A z \in Node : E.predecessors[v][z] = Just(u)[z]
    BY <1>2 DEF Just
  <2>3. QED
    BY <2>1, <2>2
<1>6. QED
  BY <1>3, <1>4, <1>5 DEF AreFalseTwins, AreSequence

LEMMA MergeGroupsIInv ==
  ASSUME IInv, NEW i \in Node, NEW j \in Node, MergeGroups(i, j)
  PROVE  IInv'
<1>1. /\ stage = "batch" /\ i \in todo /\ j \in Mates(i) /\ todo' = todo \ {j}
      /\ group' = [group EXCEPT ![i] = @ \union group[j], ![j] = {}]
      /\ UNCHANGED <<pod, ir, stage, cur, dead, matrix, holds>>
  BY DEF MergeGroups
<1>2. /\ g' = g /\ cmd' = cmd /\ sub' = sub /\ plan' = plan /\ ir' = ir /\ dead' = dead /\ holds' = holds
      /\ stage' = stage /\ matrix' = matrix /\ cur' = cur
  BY <1>1 DEF pod
<1>3. Labels' /\ AtRest' /\ Holding' /\ Subs' /\ Top' = Top /\ Block' = Block
  BY <1>1, <1>2, SameBlock
<1>4. /\ i # j /\ {i, j} \subseteq Alive \ {entry, exit} /\ ir.attr[i].dev = ir.attr[j].dev
      /\ TwinGroups(i, j) \/ SeriesGroups(i, j) \/ SeriesGroups(j, i)
  BY <1>1 DEF Mates, CanBatch
<1>5. group \in [Node -> SUBSET Node] /\ Grown \subseteq ir.ops /\ ir.ops \subseteq Grown /\ todo \subseteq Alive
  BY <1>1 DEF IInv, TypeOK, Groups
<1>6. \A k \in Node : group'[k] = IF k = j THEN {} ELSE IF k = i THEN group[i] \union group[j] ELSE group[k]
  BY <1>1, <1>4, <1>5
<1>7. group' \in [Node -> SUBSET Node]
  BY <1>1, <1>5
<1>8. TypeOK'
  BY <1>1, <1>2, <1>7 DEF IInv, TypeOK
<1>9. Running'
  BY <1>1, <1>2, <1>3 DEF IInv, Running
<1>10. Grown' = Grown
  BY <1>4, <1>6 DEF Grown
<1>11. Alive' = Alive \ {j}
  BY <1>4, <1>6 DEF Alive
<1>12. Part = group /\ Part' = group' /\ Parts(Part) = Alive
  <2>1. ir.ops \ Grown = {} /\ ir'.ops \ Grown' = {}
    BY <1>2, <1>5, <1>10
  <2>2. Part = [a \in Node |-> group[a]] /\ Part' = [a \in Node |-> group'[a]]
    BY <2>1 DEF Part
  <2>3. QED
    BY <1>5, <1>7, <2>2 DEF Parts, Alive
<1>13. Parts(Part') = Alive \ {j}
  BY <1>4, <1>6, <1>12 DEF Alive, Parts
<1> DEFINE G == Grouped(ir.operands, Part)
           H == Grouped(ir.operands, Part')
<1>14. /\ G \in Graphs /\ EdgesMirrored(G) /\ SimpleEdges(G) /\ G.members = Alive
       /\ \A a \in Alive : \A b :
            /\ b \in Succs(G, a) <=> /\ b \in Alive /\ a # b
                                     /\ \E x \in group[a], y \in group[b] : ir.operands[y][x] > 0
            /\ b \in Preds(G, a) <=> /\ b \in Alive /\ a # b
                                     /\ \E x \in group[b], y \in group[a] : ir.operands[y][x] > 0
  BY <1>12, GroupedGraph
<1>15. /\ H \in Graphs /\ EdgesMirrored(H) /\ SimpleEdges(H) /\ H.members = Alive \ {j}
       /\ \A a \in Alive \ {j} : \A b :
            b \in Succs(H, a) <=> /\ b \in Alive \ {j} /\ a # b
                                  /\ \E x \in group'[a], y \in group'[b] : ir.operands[y][x] > 0
  BY <1>12, <1>13, GroupedGraph
<1>16. Acyclic(G)
  BY <1>1 DEF IInv, Groups
<1> HIDE DEF G, H
<1>17. Contractible(G, i, j, i)
  <2>1. \A a \in Alive : GroupPreds(a) = Preds(G, a) /\ GroupSuccs(a) = Succs(G, a)
    <3>1. \A a \in Node : group[a] \subseteq ir.ops
      BY <1>5 DEF Grown
    <3>2. ASSUME NEW a \in Alive, NEW b \in Alive
          PROVE  (\E x \in group[a], y \in group[b] : ir.operands[y][x] > 0)
                   <=> \E x \in group[a], y \in group[b] : y \in Users(ir, x)
      <4>1. \A y \in group[b] : y \in ir.ops
        BY <3>1 DEF Alive
      <4>2. QED
        BY <4>1 DEF Users
    <3>3. ASSUME NEW a \in Alive PROVE GroupPreds(a) = Preds(G, a)
      <4>1. \A b : b \in Preds(G, a) <=> b \in GroupPreds(a)
        BY <1>14, <3>2 DEF GroupPreds
      <4>2. QED
        BY <4>1
    <3>4. ASSUME NEW a \in Alive PROVE GroupSuccs(a) = Succs(G, a)
      <4>1. \A b : b \in Succs(G, a) <=> b \in GroupSuccs(a)
        BY <1>14, <3>2 DEF GroupSuccs
      <4>2. QED
        BY <4>1
    <3>5. QED
      BY <3>3, <3>4
  <2>2. i \in G.members /\ j \in G.members
    BY <1>4, <1>14
  <2>3. Mergeable(G, i, j)
    BY <1>4, <1>14, <2>1, <2>2, ListsAsSets DEF Mergeable, TwinGroups, SeriesGroups
  <2>4. QED
    BY <1>4, <2>2, <2>3 DEF Contractible
<1>18. Quotient(G, H, i, j, i)
  <2>1. H.members = (G.members \ {i, j}) \union {i}
    BY <1>4, <1>14, <1>15
  <2>2. ASSUME NEW x \in G.members \ {i, j}
        PROVE  Succs(H, x) = IF i \in Succs(G, x) \/ j \in Succs(G, x)
                             THEN (Succs(G, x) \ {i, j}) \union {i}
                             ELSE Succs(G, x)
    <3>1. x \in Alive \ {i, j} /\ group'[x] = group[x] /\ i \in Alive /\ j \in Alive /\ Alive \subseteq Node
      BY <1>4, <1>6, <1>14 DEF Alive
    <3>2. \A b \in Alive \ {i, j} : group'[b] = group[b]
      BY <1>6, <3>1
    <3>3. \A b \in Alive \ {i, j} : b \in Succs(H, x) <=> b \in Succs(G, x)
      BY <1>14, <1>15, <3>1, <3>2
    <3>4. i \in Succs(H, x) <=> i \in Succs(G, x) \/ j \in Succs(G, x)
      BY <1>4, <1>6, <1>14, <1>15, <3>1
    <3>5. j \notin Succs(H, x) /\ Succs(H, x) \subseteq Alive /\ Succs(G, x) \subseteq Alive
      BY <1>14, <1>15, <3>1
    <3>6. QED
      BY <3>3, <3>4, <3>5
  <2>3. Succs(H, i) = (Succs(G, i) \union Succs(G, j)) \ {i, j}
    <3>1. i \in Alive \ {j} /\ j \in Alive /\ group'[i] = group[i] \union group[j] /\ Alive \subseteq Node
      BY <1>4, <1>6 DEF Alive
    <3>2. \A b \in Alive \ {i, j} : group'[b] = group[b]
      BY <1>6, <3>1
    <3>3. \A b \in Alive \ {i, j} : b \in Succs(H, i) <=> b \in Succs(G, i) \/ b \in Succs(G, j)
      BY <1>14, <1>15, <3>1, <3>2
    <3>4. i \notin Succs(H, i) /\ j \notin Succs(H, i) /\ Succs(H, i) \subseteq Alive
      BY <1>15, <3>1
    <3>5. Succs(G, i) \subseteq Alive /\ Succs(G, j) \subseteq Alive
      BY <1>14, <3>1
    <3>6. QED
      BY <3>3, <3>4, <3>5
  <2>4. QED
    BY <1>15, <2>1, <2>2, <2>3 DEF Quotient
<1>19. Acyclic(H)
  <2>1. Dag(G)
    BY <1>14, <1>16 DEF Dag
  <2>2. QED
    BY <1>17, <1>18, <2>1, QuotientAcyclic DEF Dag
<1>20. Groups'
  <2>1. \A k \in Alive : k \in group[k] /\ \A u \in group[k] : ir.attr[u].dev = ir.attr[k].dev
    BY <1>1 DEF IInv, Groups
  <2>2. \A k, l \in Node : k # l => group[k] \intersect group[l] = {}
    BY <1>1 DEF IInv, Groups
  <2>3. \A k \in Alive : entry \in group[k] \/ exit \in group[k] => group[k] = {k}
    BY <1>1 DEF IInv, Groups
  <2>4. ASSUME NEW k \in Alive'
        PROVE  k \in group'[k] /\ \A u \in group'[k] : ir.attr[u].dev = ir.attr[k].dev
    <3>1. k \in Alive /\ k # j /\ k \in Node
      BY <1>11, <2>4 DEF Alive
    <3>2. QED
      BY <1>4, <1>6, <2>1, <3>1
  <2>5. ASSUME NEW k \in Node, NEW l \in Node, k # l PROVE group'[k] \intersect group'[l] = {}
    BY <1>6, <2>2, <2>5
  <2>6. ASSUME NEW k \in Alive', entry \in group'[k] \/ exit \in group'[k] PROVE group'[k] = {k}
    <3>1. k \in Alive /\ k # j /\ k \in Node
      BY <1>11, <2>6 DEF Alive
    <3>2. k # i
      <4>1. \A l \in {i, j} : entry \notin group[l] /\ exit \notin group[l]
        BY <1>4, <2>3
      <4>2. QED
        BY <1>6, <2>6, <3>1, <4>1
    <3>3. QED
      BY <1>6, <2>3, <2>6, <3>1, <3>2
  <2>7. todo' \subseteq Alive'
    BY <1>1, <1>5, <1>11
  <2>8. Acyclic(Grouped(ir'.operands, Part'))
    BY <1>2, <1>19 DEF H
  <2>9. Grown' \subseteq ir'.ops /\ ir'.ops \subseteq Grown'
    BY <1>2, <1>5, <1>10
  <2>10. \A k \in Alive' : k \in group'[k] /\ \A u \in group'[k] : ir'.attr[u].dev = ir'.attr[k].dev
    BY <1>2, <2>4
  <2>11. \A k \in Alive' : entry \in group'[k] \/ exit \in group'[k] => group'[k] = {k}
    BY <2>6
  <2>12. \A k, l \in Node : k # l => group'[k] \intersect group'[l] = {}
    BY <2>5
  <2>13. NewBatches' \intersect Grown' = {}
    <3>1. NewBatches' = NewBatches
      BY <1>2 DEF NewBatches
    <3>2. QED
      BY <1>1, <1>10, <3>1 DEF IInv, Groups
  <2>14. QED
    BY <2>7, <2>8, <2>9, <2>10, <2>11, <2>12, <2>13 DEF Groups
<1>21. Rows' /\ EdgesReduced'
  BY <1>1, <1>2 DEF Rows, EdgesReduced
<1>22. QED
  BY <1>3, <1>8, <1>9, <1>20, <1>21 DEF IInv
LEMMA BatchReturnsIInv ==
  ASSUME IInv, BatchReturns
  PROVE  IInv'
<1>1. /\ stage = "batch" /\ todo = {} /\ group' = NoGroups /\ stage' = "done"
      /\ UNCHANGED <<pod, ir, todo, cur, dead, matrix, holds>>
  BY DEF BatchReturns
<1>2. /\ g' = g /\ cmd' = cmd /\ sub' = sub /\ plan' = plan /\ ir' = ir /\ dead' = dead /\ holds' = holds
      /\ todo' = todo /\ matrix' = matrix /\ cur' = cur
  BY <1>1 DEF pod
<1>3. Labels' /\ AtRest' /\ Holding' /\ Subs' /\ Top' = Top /\ Block' = Block
  BY <1>1, <1>2, SameBlock
<1>4. TypeOK'
  BY <1>1, <1>2 DEF IInv, TypeOK, NoGroups
<1>5. Head(plan) = "batch" /\ dead = {} /\ plan # <<>>
  BY <1>1 DEF IInv, Running
<1>6. Running'
  BY <1>1, <1>2, <1>3, <1>5 DEF IInv, Running
<1>7. Groups' /\ Rows' /\ EdgesReduced'
  BY <1>1, <1>2, <1>5 DEF Groups, Rows, EdgesReduced
<1>8. QED
  BY <1>3, <1>4, <1>6, <1>7 DEF IInv

(***************************************************************************)
(* A graph is a DAG when its nodes have homes, an edge between two homes   *)
(* is one of a DAG of homes, and one within a home is one of a DAG.        *)
(***************************************************************************)
Layered(H, home, G, E) ==
  \A x \in H.members :
    /\ home[x] \in G.members
    /\ \A y \in Succs(H, x) :
         /\ y \in H.members
         /\ home[x] # home[y] => home[y] \in Succs(G, home[x])
         /\ home[x] = home[y] => x \in E.members /\ y \in Succs(E, x)

LEMMA LayeredAcyclic ==
  ASSUME NEW G, Dag(G), NEW E, Dag(E), NEW H \in Graphs, EdgesMirrored(H), NEW home, Layered(H, home, G, E)
  PROVE  Acyclic(H)
<1> USE DEF Dag
<1>1. SUFFICES ASSUME NEW x \in H.members, NEW y \in Succs(H, x), <<y, x>> \in Paths(H) PROVE FALSE
  BY DEF Acyclic
<1>2. Maps(home, H, G)
  <2>1. ASSUME NEW z \in H.members, NEW t \in Succs(H, z)
        PROVE  t \in H.members /\ <<home[z], home[t]>> \in Paths(G)
    <3>1. home[z] \in G.members /\ t \in H.members
      BY <2>1 DEF Layered
    <3>2. CASE home[z] = home[t]
      BY <3>1, <3>2, PathsReflexive
    <3>3. CASE home[z] # home[t]
      BY <2>1, <3>1, <3>3, EdgesArePaths DEF Layered
    <3>4. QED
      BY <3>1, <3>2, <3>3
  <2>2. QED
    BY <2>1 DEF Maps, Layered
<1>3. <<home[y], home[x]>> \in Paths(G)
  BY <1>1, <1>2, MapPaths
<1>4. home[x] = home[y]
  <2>1. home[x] # home[y] => home[y] \in Succs(G, home[x]) /\ home[x] \in G.members
    BY DEF Layered
  <2>2. QED
    BY <1>3, <2>1, NoWayBack
<1>5. x \in E.members /\ y \in Succs(E, x) /\ y \in E.members /\ y \in H.members
  <2>1. x \in E.members /\ y \in Succs(E, x) /\ y \in H.members
    BY <1>4 DEF Layered
  <2>2. QED
    BY <2>1, EdgesArePaths
<1> DEFINE c == home[x]
           T == {z \in H.members : <<c, home[z]>> \in Paths(G) /\ (home[z] = c => <<y, z>> \in Paths(E))}
<1>6. y \in T
  BY <1>4, <1>5, PathsReflexive DEF Layered
<1>7. ASSUME NEW z \in T, NEW t \in Succs(H, z) PROVE t \in T
  <2>1. t \in H.members /\ <<home[z], home[t]>> \in Paths(G)
    BY <1>2, <1>7 DEF Maps
  <2>2. <<c, home[t]>> \in Paths(G)
    BY <1>7, <2>1, PathsTransitive
  <2>3. ASSUME home[t] = c PROVE <<y, t>> \in Paths(E)
    <3>1. home[z] = c
      BY <1>7, <2>1, <2>3, PathsAntisymmetric
    <3>2. <<y, z>> \in Paths(E) /\ z \in E.members /\ t \in Succs(E, z)
      BY <1>7, <2>3, <3>1 DEF Layered
    <3>3. QED
      BY <3>2, EdgesArePaths, PathsTransitive
  <2>4. QED
    BY <2>1, <2>2, <2>3
<1>8. T \in Closed(H)
  BY <1>7, ClosedSets
<1>9. x \in T
  BY <1>1, <1>5, <1>6, <1>8, PathsBySets
<1>10. QED
  BY <1>5, <1>9, NoWayBack
-----------------------------------------------------------------------------
(***************************************************************************)
(* The making of a batch.                                                  *)
(***************************************************************************)
Making(i, B, S) ==
  /\ stage = "batch" /\ dead = {} /\ Top = ir.ops /\ Head(plan) = "batch" /\ plan # <<>>
  /\ ir'.ops = (ir.ops \ S) \union {B} /\ ir'.nested = ir.nested \union S
  /\ S \subseteq ir.ops /\ i \in S /\ entry \notin S /\ exit \notin S
  /\ B \in Batch /\ holds[B] = {} /\ B \notin ir.ops /\ B \notin ir.nested
  /\ Cardinality({u \in S : ir.attr[u].type # "none"}) >= 2
  /\ \E u \in S : ir'.attr = [ir.attr EXCEPT ![B].dev = ir.attr[u].dev]
  /\ sub' = [sub EXCEPT ![B].nodes = S]
  /\ group' = [group EXCEPT ![i] = {}]
  /\ holds' = [holds EXCEPT ![B] = UNION {holds[u] : u \in S}]
  /\ UNCHANGED <<g, cmd, plan, stage, todo, cur, dead, matrix>>
  /\ todo = {}

LEMMA Contracting ==
  ASSUME IInv, NEW i \in Node, NEW B \in Node, Materialize(i, B), NEW S, S = group[i]
  PROVE  Making(i, B, S)
<1>1. /\ stage = "batch" /\ todo = {} /\ i \in Alive /\ Batchable(i) /\ B \in Unused
      /\ sub' = [sub EXCEPT ![B].nodes = S]
      /\ group' = [group EXCEPT ![i] = {}]
      /\ holds' = [holds EXCEPT ![B] = UNION {holds[u] : u \in S}]
      /\ UNCHANGED <<g, cmd, plan, stage, todo, cur, dead, matrix>>
  BY DEF Materialize
<1>2. PICK u \in S : ir' = Contracted(S, B, ir.attr[u].dev)
  BY DEF Materialize
<1>3. /\ ir'.ops = (ir.ops \ S) \union {B} /\ ir'.nested = ir.nested \union S
      /\ ir'.attr = [ir.attr EXCEPT ![B].dev = ir.attr[u].dev]
  BY <1>2 DEF Contracted
<1>4. dead = {} /\ Top = ir.ops /\ Head(plan) = "batch" /\ plan # <<>>
  BY <1>1 DEF IInv, Running, Top
<1>5. S \subseteq ir.ops /\ i \in S
  BY <1>1 DEF IInv, Groups, Grown
<1>6. Cardinality({x \in S : ir.attr[x].type # "none"}) >= 2
  BY <1>1 DEF Batchable
<1>7. entry \notin S /\ exit \notin S
  <2>1. SUFFICES ASSUME entry \in S \/ exit \in S PROVE FALSE
    OBVIOUS
  <2>2. S = {i}
    BY <1>1, <2>1 DEF IInv, Groups
  <2>3. {x \in S : ir.attr[x].type # "none"} \in SUBSET {i}
    BY <2>2
  <2>4. Cardinality({x \in S : ir.attr[x].type # "none"}) <= 1
    <3>1. IsFiniteSet({i}) /\ Cardinality({i}) = 1
      BY FS_Singleton
    <3>2. PICK T \in SUBSET {i} : T = {x \in S : ir.attr[x].type # "none"}
      BY <2>3
    <3>3. Cardinality(T) <= 1
      BY <3>1, FS_Subset
    <3>4. QED
      BY <3>2, <3>3
  <2>5. Cardinality({x \in S : ir.attr[x].type # "none"}) \in Nat
    BY <2>3, FS_Singleton, FS_Subset, FS_CardinalityType
  <2>6. QED
    BY <1>6, <2>4, <2>5
<1>8. B \in Batch /\ holds[B] = {} /\ B \notin ir.ops
  BY <1>1 DEF Unused, IInv, Holding, Present
<1>9. B \notin ir.nested
  <2>1. ir.nested \subseteq Nested
    <3>1. NewBatches \subseteq Batches
      BY DEF NewBatches, Batches, IInv, TypeOK, Blocks
    <3>2. QED
      BY <3>1 DEF Nested, IInv, Holding
  <2>2. QED
    BY <1>8, <2>1 DEF IInv, Holding
<1>10. QED
  BY <1>1, <1>3, <1>4, <1>5, <1>6, <1>7, <1>8, <1>9 DEF Making

(* Its operands: those of its members, from outside; its users: theirs. *)
LEMMA ContractedOperands ==
  ASSUME IInv, NEW i \in Node, NEW B \in Node, Materialize(i, B), NEW S, S = group[i]
  PROVE  /\ ir'.operands \in Lists
         /\ \A v \in Node \ (S \union {B}), u \in Node \ (S \union {B}) :
              ir'.operands[v][u] = ir.operands[v][u]
         /\ \A v \in Node \ (S \union {B}), u \in S : ir'.operands[v][u] = 0
         /\ \A v \in Node \ (S \union {B}) : /\ ir'.operands[v][B] \in Nat
                                             /\ ir'.operands[v][B] > 0 <=> \E s \in S : ir.operands[v][s] > 0
         /\ \A v \in S, u \in S : ir'.operands[v][u] = ir.operands[v][u]
         /\ \A v \in S, u \in Node \ S : ir'.operands[v][u] = 0
         /\ \A u \in Node : ir'.operands[B][u] = IF u \in OperandsOf(S) THEN 1 ELSE 0
<1>1. S \subseteq ir.ops /\ B \notin ir.ops /\ B \notin S
  <2>1. Making(i, B, S)
    BY Contracting
  <2>2. QED
    BY <2>1 DEF Making
<1>2. PICK u \in S : ir' = Contracted(S, B, ir.attr[u].dev)
  BY DEF Materialize
<1>3. ir'.operands = [v \in Node |->
        IF v = B THEN Listed(OperandsOf(S))
        ELSE IF v \in S THEN [x \in Node |-> IF x \in S THEN ir.operands[v][x] ELSE 0]
        ELSE [x \in Node |-> IF x = B THEN SumFunction([s \in S |-> ir.operands[v][s]])
                             ELSE IF x \in S THEN 0
                             ELSE ir.operands[v][x]]]
  BY <1>2 DEF Contracted
<1>4. S \subseteq Node /\ IsFiniteSet(S) /\ \A v, x \in Node : ir.operands[v][x] \in Nat
  <2>1. S \subseteq Node /\ \A v, x \in Node : ir.operands[v][x] \in Nat
    BY SMTT(40), <1>1 DEF IInv, TypeOK, Blocks, Lists
  <2>2. QED
    BY <2>1, FS_Subset, NodeFacts
<1> DEFINE sum(v) == SumFunction([s \in S |-> ir.operands[v][s]])
<1>5. ASSUME NEW v \in Node PROVE sum(v) \in Nat /\ (sum(v) > 0 <=> \E s \in S : ir.operands[v][s] > 0)
  <2>1. PICK f : f = [s \in S |-> ir.operands[v][s]]
    OBVIOUS
  <2>2. f \in [S -> Nat] /\ \A s \in S : f[s] = ir.operands[v][s] /\ f[s] \in Nat
    BY <1>4, <2>1
  <2>3. IsSum(f, S, sum(v))
    BY <1>4, <2>1, <2>2, SumOf
  <2>4. PICK n : n = sum(v)
    OBVIOUS
  <2>5. n \in Nat /\ (n = 0 <=> \A s \in S : f[s] = 0)
    BY <2>3, <2>4 DEF IsSum
  <2>6. QED
    BY <2>2, <2>4, <2>5
<1> HIDE DEF sum
<1>6. ir'.operands = [v \in Node |->
        IF v = B THEN Listed(OperandsOf(S))
        ELSE IF v \in S THEN [x \in Node |-> IF x \in S THEN ir.operands[v][x] ELSE 0]
        ELSE [x \in Node |-> IF x = B THEN sum(v) ELSE IF x \in S THEN 0 ELSE ir.operands[v][x]]]
  BY <1>3 DEF sum
<1>7. \A v \in Node, x \in Node : ir'.operands[v][x] =
        IF v = B THEN Listed(OperandsOf(S))[x]
        ELSE IF v \in S THEN IF x \in S THEN ir.operands[v][x] ELSE 0
        ELSE IF x = B THEN sum(v) ELSE IF x \in S THEN 0 ELSE ir.operands[v][x]
  BY <1>6
<1>8. \A x \in Node : Listed(OperandsOf(S))[x] = IF x \in OperandsOf(S) THEN 1 ELSE 0
  BY DEF Listed
<1>9. ir'.operands \in Lists
  <2>1. ASSUME NEW v \in Node PROVE ir'.operands[v] \in [Node -> Nat]
    <3>1. Listed(OperandsOf(S)) \in [Node -> Nat]
      BY DEF Listed
    <3>2. [x \in Node |-> IF x \in S THEN ir.operands[v][x] ELSE 0] \in [Node -> Nat]
      BY <1>4
    <3>3. [x \in Node |-> IF x = B THEN sum(v) ELSE IF x \in S THEN 0 ELSE ir.operands[v][x]] \in [Node -> Nat]
      BY <1>4, <1>5
    <3>4. QED
      BY <1>6, <3>1, <3>2, <3>3
  <2>2. QED
    BY <1>6, <2>1 DEF Lists
<1>10. QED
  BY <1>1, <1>4, <1>5, <1>7, <1>8, <1>9
(* The operations at the top stay a DAG between entry and exit, and so do the groups. *)
LEMMA ContractedBlock ==
  ASSUME IInv, NEW i \in Node, NEW B \in Node, Materialize(i, B)
  PROVE  /\ Acyclic(Block') /\ Framed(Block')
         /\ Acyclic(Grouped(ir'.operands, Part'))
<1> DEFINE S == group[i]
<1>1. Making(i, B, S)
  BY Contracting
<1>2. /\ stage = "batch" /\ dead = {} /\ Top = ir.ops
      /\ ir'.ops = (ir.ops \ S) \union {B}
      /\ S \subseteq ir.ops /\ i \in S /\ entry \notin S /\ exit \notin S
      /\ B \in Batch /\ B \notin ir.ops /\ B \notin S
      /\ group' = [group EXCEPT ![i] = {}] /\ dead' = dead
  BY <1>1 DEF Making
<1>3. /\ ir'.operands \in Lists
      /\ \A v \in Node \ (S \union {B}), u \in Node \ (S \union {B}) :
           ir'.operands[v][u] = ir.operands[v][u]
      /\ \A v \in Node \ (S \union {B}) : /\ ir'.operands[v][B] \in Nat
                                          /\ ir'.operands[v][B] > 0 <=> \E s \in S : ir.operands[v][s] > 0
      /\ \A u \in Node : ir'.operands[B][u] = IF u \in OperandsOf(S) THEN 1 ELSE 0
  BY ContractedOperands
<1> DEFINE E == Block
           H == Block'
<1>4. /\ E \in Graphs /\ EdgesMirrored(E) /\ SimpleEdges(E) /\ Acyclic(E) /\ Framed(E)
      /\ E.members = ir.ops /\ entry \in ir.ops /\ exit \in ir.ops
      /\ \A x \in ir.ops : \A y :
           /\ y \in Succs(E, x) <=> y \in ir.ops /\ ir.operands[y][x] > 0
           /\ y \in Preds(E, x) <=> y \in ir.ops /\ ir.operands[x][y] > 0
      /\ ir.ops \subseteq Node /\ \A u, v \in Node : ir.operands[v][u] \in Nat
      /\ \A x \in ir.ops : Operands(ir, x) \subseteq ir.ops /\ x \notin Operands(ir, x)
  BY <1>2, BlockFacts
<1> HIDE DEF E
<1>5. Top' = ir'.ops /\ ir'.ops \subseteq Node /\ Top' \subseteq Node
  BY <1>2, <1>4 DEF Top
<1>6. /\ H \in Graphs /\ EdgesMirrored(H) /\ SimpleEdges(H) /\ H.members = ir'.ops
      /\ \A x \in ir'.ops : \A y :
           /\ y \in Succs(H, x) <=> y \in ir'.ops /\ ir'.operands[y][x] > 0
           /\ y \in Preds(H, x) <=> y \in ir'.ops /\ ir'.operands[x][y] > 0
  <2>1. H = Edges(ir'.operands, ir'.ops)
    BY <1>5 DEF Block
  <2> HIDE DEF H
  <2>2. QED
    BY <1>5, <2>1, EdgesGraph
<1> HIDE DEF H, S
<1>7. \A u \in Node : u \in OperandsOf(S) <=> u \in ir.ops \ S /\ \E s \in S : ir.operands[s][u] > 0
  <2>1. \A s \in S : Operands(ir, s) \subseteq ir.ops
    BY <1>2, <1>4
  <2>2. QED
    BY <2>1 DEF OperandsOf, Operands
(* Edges between operations that stay, into the batch and out of it. *)
<1>8. /\ \A x, y \in ir.ops \ S : ir'.operands[y][x] > 0 <=> ir.operands[y][x] > 0
      /\ \A x \in ir.ops \ S : /\ ir'.operands[B][x] > 0 <=> \E s \in S : ir.operands[s][x] > 0
                               /\ ir'.operands[x][B] > 0 <=> \E s \in S : ir.operands[x][s] > 0
      /\ ~(ir'.operands[B][B] > 0)
  BY <1>2, <1>3, <1>4, <1>7
<1>9. Framed(H)
  <2>1. entry \in ir'.ops /\ exit \in ir'.ops /\ B \notin {entry, exit}
    BY <1>2, <1>4
  <2>2. ASSUME NEW y \in ir'.ops \ {entry} PROVE \E x \in ir'.ops : ir'.operands[y][x] > 0
    <3>1. CASE y = B
      <4>1. PICK s \in S : \A p \in S : <<p, s>> \in Paths(E) => p = s
        BY <1>2, <1>4, FirstAndLast
      <4>2. PICK p \in ir.ops : ir.operands[s][p] > 0
        BY <1>2, <1>4, <4>1 DEF Framed
      <4>3. <<p, s>> \in Paths(E) /\ p # s
        <5>1. s \in Succs(E, p)
          BY <1>2, <1>4, <4>1, <4>2
        <5>2. QED
          BY <1>4, <4>2, <5>1, EdgesArePaths, NoWayBack
      <4>4. p \notin S
        BY <4>1, <4>3
      <4>5. QED
        BY <1>2, <1>8, <3>1, <4>1, <4>2, <4>4
    <3>2. CASE y # B
      <4>1. y \in ir.ops \ S
        BY <1>2, <2>2, <3>2
      <4>2. PICK p \in ir.ops : ir.operands[y][p] > 0
        BY <1>4, <2>2, <4>1 DEF Framed
      <4>3. CASE p \in S
        BY <1>2, <1>8, <4>1, <4>2, <4>3
      <4>4. CASE p \notin S
        BY <1>2, <1>8, <4>1, <4>2, <4>4
      <4>5. QED
        BY <4>3, <4>4
    <3>3. QED
      BY <3>1, <3>2
  <2>3. ASSUME NEW x \in ir'.ops \ {exit} PROVE \E y \in ir'.ops : ir'.operands[y][x] > 0
    <3>1. CASE x = B
      <4>1. PICK s \in S : \A t \in S : <<s, t>> \in Paths(E) => t = s
        BY <1>2, <1>4, FirstAndLast
      <4>2. PICK t \in ir.ops : ir.operands[t][s] > 0
        BY <1>2, <1>4, <4>1 DEF Framed
      <4>3. <<s, t>> \in Paths(E) /\ s # t
        <5>1. t \in Succs(E, s) /\ s \in ir.ops
          BY <1>2, <1>4, <4>1, <4>2
        <5>2. QED
          BY <1>4, <5>1, EdgesArePaths, NoWayBack
      <4>4. t \notin S
        BY <4>1, <4>3
      <4>5. QED
        BY <1>2, <1>8, <3>1, <4>1, <4>2, <4>4
    <3>2. CASE x # B
      <4>1. x \in ir.ops \ S
        BY <1>2, <2>3, <3>2
      <4>2. PICK t \in ir.ops : ir.operands[t][x] > 0
        BY <1>4, <2>3, <4>1 DEF Framed
      <4>3. CASE t \in S
        BY <1>2, <1>8, <4>1, <4>2, <4>3
      <4>4. CASE t \notin S
        BY <1>2, <1>8, <4>1, <4>2, <4>4
      <4>5. QED
        BY <4>3, <4>4
    <3>3. QED
      BY <3>1, <3>2
  <2>4. \A x \in ir'.ops : ~(ir'.operands[entry][x] > 0) /\ ~(ir'.operands[x][exit] > 0)
    <3>1. /\ \A p \in ir.ops : ~(ir.operands[entry][p] > 0)
          /\ \A s \in ir.ops : ~(ir.operands[s][exit] > 0)
      BY <1>4 DEF Framed
    <3>2. QED
      BY <1>2, <1>4, <1>8, <3>1
  <2>5. \A x \in ir'.ops : /\ x = entry <=> Preds(H, x) = {}
                           /\ x = exit <=> Succs(H, x) = {}
    BY <1>6, <2>1, <2>2, <2>3, <2>4
  <2>6. QED
    BY <1>6, <2>1, <2>5 DEF Framed
<1> DEFINE G == Grouped(ir.operands, Part)
           K == Grouped(ir'.operands, Part')
<1>10. /\ group \in [Node -> SUBSET Node] /\ Grown \subseteq ir.ops /\ S \subseteq Grown
       /\ \A a, b \in Node : a # b => group[a] \intersect group[b] = {}
       /\ \A a \in Node : group[a] # {} => a \in group[a]
       /\ Acyclic(G)
  BY <1>2 DEF IInv, TypeOK, Groups, Alive, Grown, S
<1>11. /\ \A a \in Node : /\ Part[a] \subseteq ir.ops
                          /\ Part[a] = IF a \in ir.ops \ Grown THEN {a} ELSE group[a]
       /\ \A a, b \in Node : a # b => Part[a] \intersect Part[b] = {}
       /\ Part[i] = S /\ Part[B] = {}
       /\ \A x \in ir.ops : \E a \in Node : x \in Part[a]
  <2>1. \A a \in Node : group[a] \subseteq Grown
    BY DEF Grown
  <2>2. \A a \in Node : Part[a] = IF a \in ir.ops \ Grown THEN {a} ELSE group[a]
    BY DEF Part
  <2>3. Part[i] = S /\ Part[B] = {}
    BY <1>2, <1>4, <1>10, <2>1, <2>2 DEF S
  <2>4. ASSUME NEW x \in ir.ops PROVE \E a \in Node : x \in Part[a]
    <3>1. CASE x \in Grown
      <4>1. PICK a \in Node : x \in group[a]
        BY <3>1 DEF Grown
      <4>2. a \in Grown
        BY <1>10, <2>1, <4>1
      <4>3. QED
        BY <2>2, <4>1, <4>2
    <3>2. CASE x \notin Grown
      BY <1>4, <2>2, <2>4, <3>2
    <3>3. QED
      BY <3>1, <3>2
  <2>5. ASSUME NEW a \in Node, NEW b \in Node, a # b PROVE Part[a] \intersect Part[b] = {}
    <3>1. CASE a \in ir.ops \ Grown
      <4>1. Part[a] = {a} /\ a \notin Grown
        BY <2>2, <3>1
      <4>2. a \notin Part[b]
        BY <2>1, <2>2, <2>5, <3>1
      <4>3. QED
        BY <4>1, <4>2
    <3>2. CASE b \in ir.ops \ Grown
      <4>1. Part[b] = {b} /\ b \notin Grown
        BY <2>2, <3>2
      <4>2. b \notin Part[a]
        BY <2>1, <2>2, <2>5, <3>2
      <4>3. QED
        BY <4>1, <4>2
    <3>3. CASE a \notin ir.ops \ Grown /\ b \notin ir.ops \ Grown
      BY <1>10, <2>2, <2>5, <3>3
    <3>4. QED
      BY <3>1, <3>2, <3>3
  <2>6. ASSUME NEW a \in Node PROVE Part[a] \subseteq ir.ops
    <3>1. CASE a \in ir.ops \ Grown
      BY <2>2, <3>1
    <3>2. CASE a \notin ir.ops \ Grown
      <4>1. Part[a] = group[a]
        BY <2>2, <3>2
      <4>2. QED
        BY <1>10, <2>1, <4>1
    <3>3. QED
      BY <3>1, <3>2
  <2>7. QED
    BY <2>2, <2>3, <2>4, <2>5, <2>6
<1>12. \A a \in Node : Part'[a] = IF a = B THEN {B} ELSE IF a = i THEN {} ELSE Part[a]
  <2>1. \A a \in Node : group'[a] = IF a = i THEN {} ELSE group[a]
    BY <1>2, <1>10
  <2>2. Grown' = Grown \ S
    <3>1. \A x : x \in Grown' <=> \E a \in Node : x \in group'[a]
      BY DEF Grown
    <3>2. \A x : x \in Grown <=> \E a \in Node : x \in group[a]
      BY DEF Grown
    <3>3. \A x : x \in Grown' <=> x \in Grown \ S
      BY <1>10, <2>1, <3>1, <3>2 DEF S
    <3>4. QED
      BY <3>3
  <2>3. \A a \in Node : Part'[a] = IF a \in ir'.ops \ Grown' THEN {a} ELSE group'[a]
    BY DEF Part
  <2>4. \A a \in Node : a \in ir'.ops \ Grown' <=> a = B \/ a \in ir.ops \ Grown
    BY <1>2, <1>10, <2>2
  <2>5. i \in Grown
    BY <1>2, <1>10
  <2>6. QED
    BY <1>11, <2>1, <2>3, <2>4, <2>5
<1>13. /\ \A a : a \in Parts(Part) <=> a \in Node /\ Part[a] # {}
       /\ Parts(Part') = (Parts(Part) \ {i}) \union {B} /\ B \notin Parts(Part) /\ i \in Parts(Part) /\ i # B
  <2>1. \A a : a \in Parts(Part) <=> a \in Node /\ Part[a] # {}
    BY DEF Parts
  <2>2. \A a : a \in Parts(Part') <=> a \in Node /\ Part'[a] # {}
    <3>1. PICK p : p = Part'
      OBVIOUS
    <3>2. \A a : a \in Parts(p) <=> a \in Node /\ p[a] # {}
      BY DEF Parts
    <3>3. QED
      BY <3>1, <3>2
  <2>3. i \in S /\ i # B /\ Part[i] # {} /\ Part[B] = {} /\ Part'[i] = {} /\ Part'[B] # {}
    BY <1>2, <1>11, <1>12
  <2>4. \A a \in Node \ {i, B} : Part'[a] = Part[a]
    BY <1>12
  <2>5. \A a : a \in Parts(Part') <=> a \in (Parts(Part) \ {i}) \union {B}
    BY <2>1, <2>2, <2>3, <2>4
  <2>6. QED
    BY <2>1, <2>3, <2>5
<1>14. /\ G \in Graphs /\ EdgesMirrored(G) /\ SimpleEdges(G) /\ G.members = Parts(Part)
       /\ \A a \in Parts(Part) : \A b :
            b \in Succs(G, a) <=> /\ b \in Parts(Part) /\ a # b
                                  /\ \E x \in Part[a], y \in Part[b] : ir.operands[y][x] > 0
  BY GroupedGraph
<1>15. /\ K \in Graphs /\ EdgesMirrored(K) /\ SimpleEdges(K) /\ K.members = Parts(Part')
       /\ \A a \in Parts(Part') : \A b :
            b \in Succs(K, a) <=> /\ b \in Parts(Part') /\ a # b
                                  /\ \E x \in Part'[a], y \in Part'[b] : ir'.operands[y][x] > 0
  <2>1. PICK p, o : p = Part' /\ o = ir'.operands
    OBVIOUS
  <2>2. PICK k : k = Grouped(o, p)
    OBVIOUS
  <2>3. /\ k \in Graphs /\ EdgesMirrored(k) /\ SimpleEdges(k) /\ k.members = Parts(p)
        /\ \A a \in Parts(p) : \A b :
             b \in Succs(k, a) <=> b \in Parts(p) /\ a # b /\ \E x \in p[a], y \in p[b] : o[y][x] > 0
    BY <2>2, GroupedGraph
  <2>4. QED
    BY <2>1, <2>2, <2>3
<1> HIDE DEF G, K
<1>16. Acyclic(K)
  <2> DEFINE f == [a \in Node |-> IF a = B THEN i ELSE a]
  <2>1. ASSUME NEW a \in Parts(Part') PROVE f[a] \in Parts(Part) /\ a \in Node /\ (a # B => a \in Parts(Part) \ {i})
    BY <1>13
  <2>2. ASSUME NEW a \in Parts(Part'), NEW b \in Succs(K, a)
        PROVE  b \in Parts(Part') /\ f[a] # f[b] /\ f[b] \in Succs(G, f[a])
    <3>1. PICK x \in Part'[a], y \in Part'[b] : ir'.operands[y][x] > 0
      BY <1>15, <2>2
    <3>2. b \in Parts(Part') /\ a # b /\ b \in Node /\ a \in Node
      BY <1>15, <2>1, <2>2
    <3>3. f[a] \in Parts(Part) /\ f[b] \in Parts(Part) /\ f[a] # f[b]
      BY <1>13, <2>1, <3>2
    <3>4. CASE a = B
      <4>1. x = B /\ b # i /\ y \in Part[b] /\ y \in ir.ops \ S
        <5>1. x = B
          BY <1>12, <3>1, <3>2, <3>4
        <5>2. b # i /\ b # B
          BY <1>13, <3>2, <3>4
        <5>3. y \in Part[b]
          BY <1>12, <3>1, <3>2, <5>2
        <5>4. y \in ir.ops /\ y \notin Part[i]
          BY <1>11, <3>2, <5>2, <5>3
        <5>5. QED
          BY <1>11, <5>1, <5>2, <5>3, <5>4
      <4>2. \E s \in S : ir.operands[y][s] > 0
        BY <1>8, <3>1, <4>1
      <4>3. b \in Succs(G, i)
        BY <1>11, <1>13, <1>14, <3>2, <3>3, <3>4, <4>1, <4>2
      <4>4. QED
        BY <3>2, <3>3, <3>4, <4>3
    <3>5. CASE b = B
      <4>1. y = B /\ a # i /\ x \in Part[a] /\ x \in ir.ops \ S
        <5>1. y = B
          BY <1>12, <3>1, <3>2, <3>5
        <5>2. a # i /\ a # B
          BY <1>13, <3>2, <3>5
        <5>3. x \in Part[a]
          BY <1>12, <3>1, <3>2, <5>2
        <5>4. x \in ir.ops /\ x \notin Part[i]
          BY <1>11, <3>2, <5>2, <5>3
        <5>5. QED
          BY <1>11, <5>1, <5>2, <5>3, <5>4
      <4>2. \E s \in S : ir.operands[s][x] > 0
        BY <1>8, <3>1, <4>1
      <4>3. i \in Succs(G, a)
        BY <1>11, <1>13, <1>14, <3>2, <3>3, <3>5, <4>1, <4>2
      <4>4. QED
        BY <3>2, <3>3, <3>5, <4>3
    <3>6. CASE a # B /\ b # B
      <4>1. a # i /\ b # i /\ x \in Part[a] /\ y \in Part[b] /\ x \in ir.ops \ S /\ y \in ir.ops \ S
        <5>1. a # i /\ b # i
          BY <1>13, <3>2, <3>6
        <5>2. x \in Part[a] /\ y \in Part[b]
          BY <1>12, <3>1, <3>2, <3>6, <5>1
        <5>3. x \in ir.ops /\ x \notin Part[i] /\ y \in ir.ops /\ y \notin Part[i]
          BY <1>11, <3>2, <5>1, <5>2
        <5>4. QED
          BY <1>11, <5>1, <5>2, <5>3
      <4>2. ir.operands[y][x] > 0
        BY <1>8, <3>1, <4>1
      <4>3. b \in Succs(G, a)
        BY <1>14, <3>2, <3>3, <3>6, <4>1, <4>2
      <4>4. QED
        BY <3>2, <3>3, <3>6, <4>3
    <3>7. QED
      BY <3>4, <3>5, <3>6
  <2> HIDE DEF f
  <2>3. Layered(K, f, G, G)
    BY <1>14, <1>15, <2>1, <2>2 DEF Layered
  <2>4. QED
    BY <1>10, <1>14, <1>15, <2>3, LayeredAcyclic DEF Dag
<1>17. Acyclic(H)
  <2> DEFINE home == [x \in Node |-> IF x = B THEN i ELSE CHOOSE a \in Node : x \in Part[a]]
  <2>1. ASSUME NEW x \in ir.ops \ S
        PROVE  home[x] \in Parts(Part) /\ home[x] # i /\ x \in Part[home[x]]
    <3>1. x \in Node /\ x # B
      BY <1>2, <1>4
    <3>2. home[x] \in Node /\ x \in Part[home[x]]
      BY <1>11, <3>1
    <3>3. QED
      BY <1>11, <1>13, <3>2
  <2>2. home[B] = i /\ i \in Parts(Part)
    BY <1>2, <1>13, NodeFacts
  <2> HIDE DEF home
  <2>3. \A x \in ir'.ops : home[x] \in Parts(Part)
    BY <1>2, <2>1, <2>2
  <2>4. ASSUME NEW x \in ir'.ops, NEW y \in Succs(H, x)
        PROVE  /\ y \in ir'.ops
               /\ home[x] # home[y] => home[y] \in Succs(G, home[x])
               /\ home[x] = home[y] => x \in ir.ops /\ y \in Succs(E, x)
    <3>1. y \in ir'.ops /\ ir'.operands[y][x] > 0
      BY <1>6, <2>4
    <3>2. CASE x = B
      <4>1. y \in ir.ops \ S /\ \E s \in S : ir.operands[y][s] > 0
        BY <1>2, <1>8, <3>1, <3>2
      <4>2. home[y] # i /\ home[y] \in Parts(Part) /\ y \in Part[home[y]]
        BY <2>1, <4>1
      <4>3. home[y] \in Succs(G, i)
        BY <1>11, <1>14, <2>2, <4>1, <4>2
      <4>4. QED
        BY <2>2, <3>1, <3>2, <4>2, <4>3
    <3>3. CASE x # B /\ y = B
      <4>1. x \in ir.ops \ S /\ \E s \in S : ir.operands[s][x] > 0
        BY <1>2, <1>8, <3>1, <3>3
      <4>2. home[x] # i /\ home[x] \in Parts(Part) /\ x \in Part[home[x]]
        BY <2>1, <4>1
      <4>3. i \in Succs(G, home[x])
        BY <1>11, <1>14, <2>2, <4>1, <4>2
      <4>4. QED
        BY <2>2, <3>1, <3>3, <4>2, <4>3
    <3>4. CASE x # B /\ y # B
      <4>1. x \in ir.ops \ S /\ y \in ir.ops \ S /\ ir.operands[y][x] > 0
        BY <1>2, <1>8, <3>1, <3>4
      <4>2. /\ home[x] \in Parts(Part) /\ x \in Part[home[x]]
            /\ home[y] \in Parts(Part) /\ y \in Part[home[y]]
        BY <2>1, <4>1
      <4>3. home[x] # home[y] => home[y] \in Succs(G, home[x])
        BY <1>14, <4>1, <4>2
      <4>4. y \in Succs(E, x)
        BY <1>4, <4>1
      <4>5. QED
        BY <3>1, <4>1, <4>3, <4>4
    <3>5. QED
      BY <3>2, <3>3, <3>4
  <2>5. Layered(H, home, G, E)
    BY <1>4, <1>6, <1>14, <2>3, <2>4 DEF Layered
  <2>6. QED
    BY <1>4, <1>6, <1>10, <1>14, <2>5, LayeredAcyclic DEF Dag
<1>18. QED
  BY <1>9, <1>16, <1>17 DEF H, K
(* What the names of the new batch say in the next state. *)
LEMMA MadeNames ==
  ASSUME IInv, NEW i \in Node, NEW B \in Node, NEW S, S = group[i], Making(i, B, S)
  PROVE  /\ S \subseteq Node /\ S # {} /\ B \notin S /\ S \intersect NewBatches = {}
         /\ sub \in [Node -> [nodes : SUBSET Node, sources : SUBSET Node, sinks : SUBSET Node]]
         /\ sub' \in [Node -> [nodes : SUBSET Node, sources : SUBSET Node, sinks : SUBSET Node]]
         /\ sub'[B].nodes = S /\ \A C \in Node \ {B} : sub'[C] = sub[C]
         /\ B \notin Batches /\ B \notin Nested /\ Nested \subseteq Node
         /\ S \intersect Nested = {}
         /\ \A C : C \in Batches' <=> C \in Batches \/ C = B
         /\ \A C : C \in NewBatches' <=> C \in NewBatches \/ C = B
         /\ \A u : u \in Nested' <=> u \in Nested \/ u \in S
         /\ \A u \in Node : ir'.attr[u].type = ir.attr[u].type /\ ir'.attr[u].copy = ir.attr[u].copy
         /\ \A u \in Node \ {B} : ir'.attr[u] = ir.attr[u]
         /\ \E u \in S : ir'.attr[B].dev = ir.attr[u].dev
         /\ ir'.attr \in [Node -> CommandType]
<1>1. /\ S \subseteq ir.ops /\ i \in S /\ B \in Batch /\ holds[B] = {} /\ B \notin ir.ops
      /\ sub' = [sub EXCEPT ![B].nodes = S] /\ stage = "batch"
      /\ ir'.ops = (ir.ops \ S) \union {B} /\ ir'.nested = ir.nested \union S
  BY DEF Making
<1>2. ir.ops \subseteq Node /\ ir.attr \in [Node -> CommandType]
  BY DEF IInv, TypeOK, Blocks
<1>3. sub \in [Node -> [nodes : SUBSET Node, sources : SUBSET Node, sinks : SUBSET Node]]
  BY DEF IInv, TypeOK
<1>4. S \subseteq Node /\ S # {} /\ B \notin S
  BY <1>1, <1>2
<1>5. S \intersect NewBatches = {}
  BY <1>1 DEF IInv, Groups, Grown
<1>6. sub' = [sub EXCEPT ![B] = [nodes |-> S, sources |-> sub[B].sources, sinks |-> sub[B].sinks]]
  <2>1. [sub[B] EXCEPT !.nodes = S] = [nodes |-> S, sources |-> sub[B].sources, sinks |-> sub[B].sinks]
    BY <1>3
  <2>2. QED
    BY <1>1, <2>1
<1>7. /\ sub'[B].nodes = S /\ \A C \in Node \ {B} : sub'[C] = sub[C]
      /\ sub' \in [Node -> [nodes : SUBSET Node, sources : SUBSET Node, sinks : SUBSET Node]]
  BY <1>3, <1>4, <1>6
<1>8. B \notin Batches /\ B \notin Nested /\ Nested \subseteq Node
  BY <1>1, <1>3 DEF IInv, Holding, Batches, Nested
<1>9. Present = ir.ops
  BY <1>1 DEF Present
<1>10. S \intersect Nested = {}
  BY <1>1, <1>9 DEF IInv, Holding, Nested
<1>11. \A C : C \in Batches' <=> C \in Batches \/ C = B
  BY <1>4, <1>7, <1>8 DEF Batches
<1>12. \A u : u \in Nested' <=> u \in Nested \/ u \in S
  <2>1. \A u : u \in Nested <=> \E C \in Batches : u \in sub[C].nodes
    BY DEF Nested
  <2>2. \A u : u \in Nested' <=> \E C \in Batches' : u \in sub'[C].nodes
    BY DEF Nested
  <2>3. \A C \in Batches : sub'[C] = sub[C]
    BY <1>7, <1>8 DEF Batches
  <2>4. QED
    BY <1>7, <1>11, <2>1, <2>2, <2>3
<1>13. \A C : C \in NewBatches' <=> C \in NewBatches \/ C = B
  <2>1. \A C : C \in NewBatches <=> C \in ir.ops /\ sub[C].nodes \intersect ir.nested # {}
    BY DEF NewBatches
  <2>2. \A C : C \in NewBatches' <=> C \in ir'.ops /\ sub'[C].nodes \intersect ir'.nested # {}
    BY DEF NewBatches
  <2>3. ASSUME NEW C \in ir.ops PROVE sub[C].nodes \intersect S = {} /\ sub'[C] = sub[C]
    <3>1. C \in Node /\ C # B
      BY <1>1, <1>2
    <3>2. sub[C].nodes # {} => sub[C].nodes \subseteq Nested
      BY <3>1 DEF Nested, Batches
    <3>3. QED
      BY <1>7, <1>10, <3>1, <3>2
  <2>4. B \in NewBatches'
    BY <1>1, <1>4, <1>7, <2>2
  <2>5. ASSUME NEW C, C # B PROVE C \in NewBatches' <=> C \in NewBatches
    <3>1. CASE C \in ir.ops
      BY <1>1, <1>5, <2>1, <2>2, <2>3, <2>5, <3>1
    <3>2. CASE C \notin ir.ops
      BY <1>1, <2>1, <2>2, <2>5, <3>2
    <3>3. QED
      BY <3>1, <3>2
  <2>6. QED
    BY <2>4, <2>5
<1>14. PICK w \in S : ir'.attr = [ir.attr EXCEPT ![B].dev = ir.attr[w].dev]
  BY DEF Making
<1>15. ir'.attr = [ir.attr EXCEPT ![B] = [type |-> ir.attr[B].type, dev |-> ir.attr[w].dev,
                                          copy |-> ir.attr[B].copy, launch |-> ir.attr[B].launch]]
  BY <1>2, <1>14 DEF CommandType
<1>16. /\ \A u \in Node : ir'.attr[u].type = ir.attr[u].type /\ ir'.attr[u].copy = ir.attr[u].copy
       /\ \A u \in Node \ {B} : ir'.attr[u] = ir.attr[u]
       /\ ir'.attr[B].dev = ir.attr[w].dev
  BY <1>2, <1>15
<1>17. ir'.attr \in [Node -> CommandType]
  <2>1. w \in Node
    BY <1>4
  <2>2. [type |-> ir.attr[B].type, dev |-> ir.attr[w].dev,
         copy |-> ir.attr[B].copy, launch |-> ir.attr[B].launch] \in CommandType
    BY <1>2, <2>1 DEF CommandType
  <2>3. QED
    BY <1>2, <1>15, <2>2
<1>18. QED
  BY <1>3, <1>4, <1>5, <1>7, <1>8, <1>10, <1>11, <1>12, <1>13, <1>16, <1>17

LEMMA MadeHolding ==
  ASSUME IInv, NEW i \in Node, NEW B \in Node, Materialize(i, B), NEW S, S = group[i]
  PROVE  TypeOK' /\ Labels' /\ AtRest' /\ Holding'
<1>0. Making(i, B, S)
  BY Contracting
<1>1. /\ S \subseteq ir.ops /\ i \in S /\ B \in Batch /\ holds[B] = {} /\ B \notin ir.ops /\ B \notin ir.nested
      /\ stage = "batch" /\ dead = {} /\ todo = {}
      /\ ir'.ops = (ir.ops \ S) \union {B} /\ ir'.nested = ir.nested \union S
      /\ group' = [group EXCEPT ![i] = {}]
      /\ holds' = [holds EXCEPT ![B] = UNION {holds[u] : u \in S}]
      /\ UNCHANGED <<g, cmd, plan, stage, todo, cur, dead, matrix>>
  BY <1>0 DEF Making
<1>2. /\ S \subseteq Node /\ S # {} /\ B \notin S /\ S \intersect NewBatches = {}
      /\ sub' \in [Node -> [nodes : SUBSET Node, sources : SUBSET Node, sinks : SUBSET Node]]
      /\ sub'[B].nodes = S /\ \A C \in Node \ {B} : sub'[C] = sub[C]
      /\ B \notin Batches /\ B \notin Nested /\ Nested \subseteq Node
      /\ S \intersect Nested = {}
      /\ \A C : C \in Batches' <=> C \in Batches \/ C = B
      /\ \A C : C \in NewBatches' <=> C \in NewBatches \/ C = B
      /\ \A u : u \in Nested' <=> u \in Nested \/ u \in S
      /\ \A u \in Node : ir'.attr[u].type = ir.attr[u].type /\ ir'.attr[u].copy = ir.attr[u].copy
      /\ \A u \in Node \ {B} : ir'.attr[u] = ir.attr[u]
      /\ ir'.attr \in [Node -> CommandType]
  BY <1>0, MadeNames
<1>3. holds \in [Node -> SUBSET RecordedNodes] /\ group \in [Node -> SUBSET Node] /\ ir.ops \subseteq Node
      /\ ir.nested \subseteq Node /\ Batches \subseteq Node
  BY DEF IInv, TypeOK, Blocks, Batches
<1>4. Labels'
  BY <1>1, <1>2 DEF IInv, Labels
<1>5. AtRest'
  BY <1>1 DEF AtRest
<1>6. /\ \A C \in Node \ {B} : holds'[C] = holds[C]
      /\ holds'[B] = UNION {holds[u] : u \in S}
  BY <1>1, <1>3
<1>7. \A u \in ir.ops \union Nested : holds[u] # {}
  BY <1>1 DEF IInv, Holding, Present
<1>8. holds'[B] # {}
  BY <1>1, <1>6, <1>7
<1>9. Holding'
  <2>1. Present' = (ir.ops \ S) \union {B}
    BY <1>1 DEF Present
  <2>2. ASSUME NEW C \in Node PROVE sub'[C].nodes # {} <=> C \in Batch /\ holds'[C] # {}
    <3>1. CASE C = B
      BY <1>1, <1>2, <1>8, <3>1
    <3>2. CASE C # B
      BY <1>2, <1>6, <3>2 DEF IInv, Holding
    <3>3. QED
      BY <3>1, <3>2
  <2>3. ASSUME NEW u \in Present' \union Nested' PROVE holds'[u] # {}
    <3>1. u = B \/ (u \in ir.ops \union Nested /\ u \in Node \ {B})
      BY <1>1, <1>2, <1>3, <2>1
    <3>2. QED
      BY <1>6, <1>7, <1>8, <3>1
  <2>4. \A C \in Batches : sub'[C].nodes = sub[C].nodes /\ sub[C].nodes \subseteq Nested
    BY <1>2, <1>3 DEF Nested
  <2>5. \A C \in Batches : sub[C].nodes \intersect ir.ops = {}
    BY <1>1 DEF IInv, Holding, Present
  <2>6. \A C \in Batches' : sub'[C].nodes \intersect Present' = {}
    BY <1>2, <2>1, <2>4, <2>5
  <2>7. \A C, D \in Batches : C # D => sub[C].nodes \intersect sub[D].nodes = {}
    BY DEF IInv, Holding
  <2>8. \A C, D \in Batches' : C # D => sub'[C].nodes \intersect sub'[D].nodes = {}
    BY SMTT(40), <1>2, <2>4, <2>7
  <2>9. ir'.nested = UNION {sub'[C].nodes : C \in NewBatches'}
    <3>1. ir.nested = UNION {sub[C].nodes : C \in NewBatches}
      BY DEF IInv, Holding
    <3>2. \A C \in NewBatches : sub'[C].nodes = sub[C].nodes
      BY <1>1, <1>2, <1>3 DEF NewBatches
    <3>3. \A u : u \in ir.nested <=> \E C \in NewBatches : u \in sub[C].nodes
      BY <3>1
    <3>4. \A u : u \in ir'.nested <=> \E C \in NewBatches' : u \in sub'[C].nodes
      BY <1>1, <1>2, <3>2, <3>3
    <3>5. QED
      BY <3>4
  <2>10. QED
    BY <2>2, <2>3, <2>6, <2>8, <2>9 DEF Holding
<1>10. TypeOK'
  <2>1. ir' \in Blocks
    <3>1. ir'.operands \in Lists
      BY ContractedOperands
    <3>2. PICK u \in S : ir' = Contracted(S, B, ir.attr[u].dev)
      BY DEF Materialize
    <3>3. ir' = [ops |-> ir'.ops, nested |-> ir'.nested, operands |-> ir'.operands, attr |-> ir'.attr]
      BY <3>2 DEF Contracted
    <3>4. QED
      BY <1>1, <1>2, <1>3, <3>1, <3>3 DEF Blocks
  <2>2. QED
    BY <1>1, <1>2, <1>3, <2>1 DEF IInv, TypeOK
<1>11. QED
  BY <1>4, <1>5, <1>9, <1>10

LEMMA MadeRunning ==
  ASSUME IInv, NEW i \in Node, NEW B \in Node, Materialize(i, B)
  PROVE  Running'
<1> DEFINE S == group[i]
<1>0. Making(i, B, S)
  BY Contracting
<1>1. /\ S \subseteq ir.ops /\ i \in S /\ B \in Batch /\ B \notin ir.ops /\ B \notin ir.nested
      /\ stage = "batch" /\ dead = {} /\ todo = {} /\ Head(plan) = "batch" /\ plan # <<>>
      /\ ir'.ops = (ir.ops \ S) \union {B} /\ ir'.nested = ir.nested \union S
      /\ UNCHANGED <<g, cmd, plan, stage, todo, cur, dead, matrix>>
      /\ Top = ir.ops
  BY <1>0 DEF Making
<1>2. ir.ops \subseteq Node /\ \A u, v \in Node : ir.operands[v][u] \in Nat
  BY DEF IInv, TypeOK, Blocks, Lists
<1>3. /\ ir.ops \intersect ir.nested = {}
      /\ \A v \in ir.ops, u \in Node \ ir.ops : ir.operands[v][u] = 0
      /\ \A v \in Node \ (ir.ops \union ir.nested), u \in Node : ir.operands[v][u] = 0
      /\ \A u \in ir.ops \ Batch, v \in ir.ops : ir.operands[v][u] <= 1
  BY <1>1 DEF IInv, Running
<1>4. /\ \A v \in Node \ (S \union {B}), u \in Node \ (S \union {B}) :
           ir'.operands[v][u] = ir.operands[v][u]
      /\ \A v \in Node \ (S \union {B}), u \in S : ir'.operands[v][u] = 0
      /\ \A v \in Node \ (S \union {B}) : /\ ir'.operands[v][B] \in Nat
                                          /\ ir'.operands[v][B] > 0 <=> \E s \in S : ir.operands[v][s] > 0
      /\ \A u \in Node : ir'.operands[B][u] = IF u \in OperandsOf(S) THEN 1 ELSE 0
  BY ContractedOperands
<1>5. Acyclic(Block') /\ Framed(Block')
  BY ContractedBlock
<1> HIDE DEF S
<1>6. OperandsOf(S) \subseteq ir.ops \ S
  BY <1>1, <1>2, <1>3 DEF OperandsOf, Operands
<1>7. Top' = ir'.ops
  BY <1>1 DEF Top
<1>8. ir'.ops \intersect ir'.nested = {}
  BY <1>0, <1>1, <1>3 DEF Making
<1>9. ASSUME NEW v \in ir'.ops, NEW u \in Node \ ir'.ops PROVE ir'.operands[v][u] = 0
  <2>1. u # B /\ (u \in S \/ u \notin ir.ops)
    BY <1>1, <1>9
  <2>2. CASE v = B
    BY <1>4, <1>6, <2>1, <2>2
  <2>3. CASE v # B
    <3>1. v \in ir.ops \ S /\ v \in Node \ (S \union {B})
      BY <1>1, <1>2, <1>9, <2>3
    <3>2. QED
      BY <1>3, <1>4, <2>1, <3>1
  <2>4. QED
    BY <2>2, <2>3
<1>10. ASSUME NEW v \in Node \ (ir'.ops \union ir'.nested), NEW u \in Node PROVE ir'.operands[v][u] = 0
  <2>1. v \notin ir.ops \union ir.nested /\ v \in Node \ (S \union {B})
    BY <1>1, <1>10
  <2>2. \A x \in Node : ir.operands[v][x] = 0
    BY <1>3, <2>1
  <2>3. u = B => ~(ir'.operands[v][u] > 0) /\ ir'.operands[v][u] \in Nat
    BY <1>1, <1>2, <1>4, <2>1, <2>2
  <2>4. u # B => ir'.operands[v][u] = 0
    BY <1>4, <2>1, <2>2
  <2>5. QED
    BY <2>3, <2>4
<1>11. ASSUME NEW u \in ir'.ops \ Batch, NEW v \in ir'.ops PROVE ir'.operands[v][u] <= 1
  <2>1. u # B /\ u \in ir.ops \ S /\ u \in Node \ (S \union {B})
    BY <1>1, <1>2, <1>11
  <2>2. CASE v = B
    <3>1. ir'.operands[v][u] = 0 \/ ir'.operands[v][u] = 1
      BY <1>4, <2>1, <2>2
    <3>2. QED
      BY <3>1
  <2>3. CASE v # B
    <3>1. v \in ir.ops /\ ir'.operands[v][u] = ir.operands[v][u]
      BY <1>1, <1>2, <1>4, <1>11, <2>1, <2>3
    <3>2. QED
      BY <1>3, <1>11, <2>1, <3>1
  <2>4. QED
    BY <2>2, <2>3
<1>12. QED
  BY <1>1, <1>5, <1>7, <1>8, <1>9, <1>10, <1>11 DEF Running

LEMMA MadeSubs ==
  ASSUME IInv, NEW i \in Node, NEW B \in Node, Materialize(i, B)
  PROVE  Subs'
<1> DEFINE S == group[i]
<1>0. Making(i, B, S)
  BY Contracting
<1>1. /\ S \subseteq ir.ops /\ i \in S /\ B \notin ir.ops
      /\ stage = "batch" /\ dead = {} /\ Top = ir.ops
      /\ Cardinality({u \in S : ir.attr[u].type # "none"}) >= 2
      /\ g' = g /\ cmd' = cmd
  BY <1>0 DEF Making
<1>2. /\ S \subseteq Node /\ S # {} /\ B \notin S /\ S \intersect NewBatches = {}
      /\ sub \in [Node -> [nodes : SUBSET Node, sources : SUBSET Node, sinks : SUBSET Node]]
      /\ sub'[B].nodes = S /\ \A C \in Node \ {B} : sub'[C] = sub[C]
      /\ B \notin Batches /\ B \notin Nested /\ Nested \subseteq Node
      /\ S \intersect Nested = {}
      /\ \A C : C \in Batches' <=> C \in Batches \/ C = B
      /\ \A C : C \in NewBatches' <=> C \in NewBatches \/ C = B
      /\ \A u \in Node \ {B} : ir'.attr[u] = ir.attr[u]
      /\ \E u \in S : ir'.attr[B].dev = ir.attr[u].dev
  BY <1>0, MadeNames
<1>3. /\ \A v \in Node \ (S \union {B}), u \in Node \ (S \union {B}) :
           ir'.operands[v][u] = ir.operands[v][u]
      /\ \A v \in Node \ (S \union {B}), u \in S : ir'.operands[v][u] = 0
      /\ \A v \in Node \ (S \union {B}) : /\ ir'.operands[v][B] \in Nat
                                          /\ ir'.operands[v][B] > 0 <=> \E s \in S : ir.operands[v][s] > 0
      /\ \A v \in S, u \in S : ir'.operands[v][u] = ir.operands[v][u]
      /\ \A v \in S, u \in Node \ S : ir'.operands[v][u] = 0
  BY ContractedOperands
<1>4. /\ Block \in Graphs /\ EdgesMirrored(Block) /\ SimpleEdges(Block) /\ Acyclic(Block)
      /\ Block.members = ir.ops
      /\ \A x \in ir.ops : \A y : y \in Succs(Block, x) <=> y \in ir.ops /\ ir.operands[y][x] > 0
      /\ \A u, v \in Node : ir.operands[v][u] \in Nat
  BY <1>1, BlockFacts
<1>5. \A u \in S : ir.attr[u].dev = ir.attr[i].dev
  BY <1>1 DEF IInv, Groups, Alive
<1>6. \A u \in Node : ir.attr[u].type = cmd[u].type
  BY DEF IInv, Labels
<1>7. Batches \subseteq Node /\ \A C \in Batches : sub[C].nodes \subseteq Nested
  BY DEF Batches, Nested
<1> HIDE DEF S
<1>8. OneDevice(B)' /\ NewSound(B)'
  <2>1. {u \in S : cmd'[u].type # "none"} = {u \in S : ir.attr[u].type # "none"}
    BY <1>1, <1>2, <1>6
  <2>2. \A u \in S : ir'.attr[u].dev = ir'.attr[B].dev
    <3>1. PICK w \in S : ir'.attr[B].dev = ir.attr[w].dev
      BY <1>2
    <3>2. \A u \in S : ir'.attr[u] = ir.attr[u]
      BY <1>2
    <3>3. QED
      BY <1>5, <3>1, <3>2
  <2>3. OneDevice(B)'
    <3>1. Cardinality({u \in sub'[B].nodes : cmd'[u].type # "none"}) >= 2
      BY <1>1, <1>2, <2>1
    <3>2. QED
      BY <1>2, <2>2, <3>1 DEF OneDevice
  <2>4. PICK H : H = Edges(ir'.operands, S)
    OBVIOUS
  <2>5. /\ H \in Graphs /\ H.members = S
        /\ \A x \in S : \A y : y \in Succs(H, x) <=> y \in S /\ ir'.operands[y][x] > 0
    BY <1>2, <2>4, EdgesGraph
  <2>6. ASSUME NEW x \in S, NEW y \in Succs(H, x) PROVE y \in S /\ x # y /\ <<x, y>> \in Paths(Block)
    <3>1. y \in S /\ ir.operands[y][x] > 0
      BY <1>3, <2>5, <2>6
    <3>2. y \in Succs(Block, x) /\ x \in Block.members
      BY <1>1, <1>4, <3>1
    <3>3. QED
      BY <1>4, <3>1, <3>2, EdgesArePaths, NoWayBack
  <2>7. Coarser(H, Block)
    BY <1>1, <1>4, <2>5, <2>6 DEF Coarser
  <2>8. Acyclic(H)
    BY <1>4, <2>5, <2>7, CoarserAcyclic
  <2>9. NewSound(B)'
    BY <1>2, <1>3, <2>4, <2>8 DEF NewSound
  <2>10. QED
    BY <2>3, <2>9
<1>9. ASSUME NEW C \in Batches
      PROVE  OneDevice(C)' /\ IF C \in NewBatches THEN NewSound(C)' ELSE OldSound(C)'
  <2>1. OneDevice(C) /\ IF C \in NewBatches THEN NewSound(C) ELSE OldSound(C)
    BY DEF IInv, Subs
  <2>2. C \in Node /\ C # B /\ sub'[C] = sub[C]
    BY <1>2, <1>7
  <2>3. PICK T : T = sub[C].nodes
    OBVIOUS
  <2>4. T \subseteq Node \ (S \union {B}) /\ T \intersect ir.ops = {}
    <3>1. T \subseteq Nested
      BY <1>7, <2>3
    <3>2. T \intersect ir.ops = {}
      BY <1>1, <2>3 DEF IInv, Holding, Present
    <3>3. QED
      BY <1>2, <3>1, <3>2
  <2>5. OneDevice(C)'
    BY <1>1, <1>2, <2>1, <2>2, <2>3, <2>4 DEF OneDevice
  <2>6. OldSound(C) => OldSound(C)'
    BY <1>1, <2>2 DEF OldSound
  <2>7. ASSUME NewSound(C) PROVE NewSound(C)'
    <3>1. Acyclic(Edges(ir.operands, T)) /\ \A v \in T, u \in Node \ T : ir.operands[v][u] = 0
      BY <2>3, <2>7 DEF NewSound
    <3>2. ASSUME NEW v \in T, NEW u \in Node PROVE ir'.operands[v][u] = ir.operands[v][u]
      <4>1. v \in Node \ (S \union {B})
        BY <2>4
      <4>2. CASE u \in S
        <5>1. u \notin T
          BY <1>1, <2>4, <4>2
        <5>2. QED
          BY <1>3, <3>1, <4>1, <4>2, <5>1
      <4>3. CASE u = B
        <5>1. u \notin T /\ \A s \in S : s \in Node \ T
          BY <1>2, <2>4, <4>3
        <5>2. ir.operands[v][u] = 0 /\ \A s \in S : ir.operands[v][s] = 0
          BY <3>1, <5>1
        <5>3. ir'.operands[v][u] \in Nat /\ ~(ir'.operands[v][u] > 0)
          BY <1>3, <4>1, <4>3, <5>2
        <5>4. QED
          BY <5>2, <5>3
      <4>4. CASE u \notin S \union {B}
        BY <1>3, <4>1, <4>4
      <4>5. QED
        BY <4>2, <4>3, <4>4
    <3>3. Linking(ir'.operands, T) = Linking(ir.operands, T)
      <4>1. T \subseteq Node
        BY <2>4
      <4>2. QED
        BY <3>2, <4>1 DEF Linking
    <3>4. Acyclic(Edges(ir'.operands, T))
      BY <3>1, <3>3 DEF Edges
    <3>5. \A v \in T, u \in Node \ T : ir'.operands[v][u] = 0
      BY <3>1, <3>2
    <3>6. QED
      BY <2>2, <2>3, <3>4, <3>5 DEF NewSound
  <2>8. QED
    BY <2>1, <2>5, <2>6, <2>7
<1>10. QED
  <2>1. ASSUME NEW C \in Batches' PROVE OneDevice(C)' /\ IF C \in NewBatches' THEN NewSound(C)' ELSE OldSound(C)'
    BY <1>2, <1>8, <1>9, <2>1
  <2>2. QED
    BY <2>1 DEF Subs

LEMMA MaterializeIInv ==
  ASSUME IInv, NEW i \in Node, NEW B \in Node, Materialize(i, B)
  PROVE  IInv'
<1> DEFINE S == group[i]
<1>0. Making(i, B, S)
  BY Contracting
<1>1. /\ S \subseteq ir.ops /\ i \in S /\ B \in Batch /\ B \notin ir.ops
      /\ stage = "batch" /\ todo = {}
      /\ ir'.ops = (ir.ops \ S) \union {B}
      /\ group' = [group EXCEPT ![i] = {}]
      /\ UNCHANGED <<g, cmd, plan, stage, todo, cur, dead, matrix>>
  BY <1>0 DEF Making
<1>2. /\ S \subseteq Node /\ B \notin S
      /\ \A C : C \in NewBatches' <=> C \in NewBatches \/ C = B
      /\ \A u \in Node \ {B} : ir'.attr[u] = ir.attr[u]
  BY <1>0, MadeNames
<1>3. TypeOK' /\ Labels' /\ AtRest' /\ Holding'
  BY MadeHolding
<1>4. Running' /\ Subs'
  BY MadeRunning, MadeSubs
<1>5. Acyclic(Grouped(ir'.operands, Part'))
  BY ContractedBlock
<1>6. /\ group \in [Node -> SUBSET Node] /\ Grown \subseteq ir.ops /\ ir.ops \subseteq Node
      /\ \A a \in Alive : a \in group[a] /\ \A u \in group[a] : ir.attr[u].dev = ir.attr[a].dev
      /\ \A a, b \in Node : a # b => group[a] \intersect group[b] = {}
      /\ \A a \in Alive : entry \in group[a] \/ exit \in group[a] => group[a] = {a}
      /\ ir.ops \ Grown \subseteq Batch /\ NewBatches \intersect Grown = {}
  BY <1>1 DEF IInv, Groups, TypeOK, Blocks
<1>7. \A a \in Node : group'[a] = IF a = i THEN {} ELSE group[a]
  BY <1>1, <1>6
<1>8. \A a : a \in Alive' <=> a \in Alive /\ a # i
  BY <1>7 DEF Alive
<1>9. \A x : x \in Grown' <=> x \in Grown /\ x \notin S
  <2>1. \A x : x \in Grown' <=> \E a \in Node : x \in group'[a]
    BY DEF Grown
  <2>2. \A x : x \in Grown <=> \E a \in Node : x \in group[a]
    BY DEF Grown
  <2>3. QED
    BY <1>6, <1>7, <2>1, <2>2
<1>10. \A a \in Node : group[a] \subseteq Grown
  BY DEF Grown
<1> HIDE DEF S
<1>11. Groups'
  <2>1. Grown' \subseteq ir'.ops /\ todo' \subseteq Alive' /\ todo' = {}
    BY <1>1, <1>6, <1>9
  <2>2. ASSUME NEW a \in Alive' PROVE /\ a \in Alive /\ a \in Node /\ group'[a] = group[a]
                                      /\ \A u \in group[a] : ir'.attr[u].dev = ir.attr[u].dev
                                      /\ ir'.attr[a].dev = ir.attr[a].dev
    <3>1. a \in Alive /\ a # i /\ a \in Node
      BY <1>8, <2>2 DEF Alive
    <3>2. group'[a] = group[a]
      BY <1>7, <3>1
    <3>3. group[a] \subseteq ir.ops /\ a \in group[a]
      BY <1>6, <1>10, <3>1
    <3>4. \A u \in group[a] : u \in Node \ {B}
      BY <1>1, <1>6, <3>3
    <3>5. QED
      BY <1>2, <3>1, <3>2, <3>3, <3>4
  <2>3. \A a \in Alive' : /\ a \in group'[a] /\ \A u \in group'[a] : ir'.attr[u].dev = ir'.attr[a].dev
                          /\ entry \in group'[a] \/ exit \in group'[a] => group'[a] = {a}
    BY <1>6, <2>2
  <2>4. \A a, b \in Node : a # b => group'[a] \intersect group'[b] = {}
    BY <1>6, <1>7
  <2>5. ir'.ops \ Grown' \subseteq Batch /\ NewBatches' \intersect Grown' = {}
    BY <1>1, <1>2, <1>6, <1>9
  <2>6. QED
    BY <1>5, <2>1, <2>3, <2>4, <2>5 DEF Groups
<1>12. Rows' /\ EdgesReduced'
  BY <1>1 DEF Rows, EdgesReduced
<1>13. QED
  BY <1>3, <1>4, <1>11, <1>12 DEF IInv
-----------------------------------------------------------------------------
(***************************************************************************)
(* The graph between the calls.  Its lists, read as sets, are a DAG, all   *)
(* of which a walk from the entry finds.                                   *)
(***************************************************************************)
LEMMA ListsOfGraph ==
  ASSUME NEW G \in Graphs, EdgesMirrored(G), Acyclic(G), Framed(G),
         NEW H, H = Edges(G.predecessors, G.members)
  PROVE  /\ Coherent(G) /\ After(G, entry) = G.members
         /\ H \in Graphs /\ EdgesMirrored(H) /\ SimpleEdges(H) /\ Acyclic(H) /\ Framed(H)
         /\ H.members = G.members
         /\ \A x \in G.members : Succs(H, x) = Succs(G, x) /\ Preds(H, x) = Preds(G, x)
<1>1. G.members \subseteq Node
  BY DEF Graphs
<1>2. /\ H \in Graphs /\ EdgesMirrored(H) /\ SimpleEdges(H) /\ H.members = G.members
      /\ \A x \in G.members : \A y :
           /\ y \in Succs(H, x) <=> y \in G.members /\ G.predecessors[y][x] > 0
           /\ y \in Preds(H, x) <=> y \in G.members /\ G.predecessors[x][y] > 0
  BY <1>1, EdgesGraph
<1>3. ASSUME NEW x \in G.members, NEW y
      PROVE  /\ y \in Succs(G, x) <=> y \in G.members /\ G.predecessors[y][x] > 0
             /\ y \in Preds(G, x) <=> y \in G.members /\ G.predecessors[x][y] > 0
  <2>1. CASE y \in G.members
    BY <1>1, <2>1 DEF EdgesMirrored, Succs, Preds
  <2>2. CASE y \in Node \ G.members
    <3>1. G.successors[x][y] = 0 /\ G.predecessors[x][y] = 0
      BY <1>1, <2>2 DEF EdgesMirrored
    <3>2. QED
      BY <2>2, <3>1 DEF Succs, Preds
  <2>3. CASE y \notin Node
    BY <1>1, <2>3 DEF Succs, Preds
  <2>4. QED
    BY <2>1, <2>2, <2>3
<1>4. ASSUME NEW x \in G.members PROVE Succs(H, x) = Succs(G, x) /\ Preds(H, x) = Preds(G, x)
  <2>1. \A y : y \in Succs(H, x) <=> y \in Succs(G, x)
    BY <1>2, <1>3
  <2>2. \A y : y \in Preds(H, x) <=> y \in Preds(G, x)
    BY <1>2, <1>3
  <2>3. Succs(H, x) \subseteq Succs(G, x) /\ Succs(G, x) \subseteq Succs(H, x)
    BY <2>1
  <2>4. Preds(H, x) \subseteq Preds(G, x) /\ Preds(G, x) \subseteq Preds(H, x)
    BY <2>2
  <2>5. QED
    BY <2>3, <2>4
<1>5. Paths(H) = Paths(G) /\ After(H, entry) = After(G, entry)
  BY <1>2, <1>4, SamePaths
<1>6. Acyclic(H)
  BY <1>2, <1>4, <1>5 DEF Acyclic
<1>7. Framed(H)
  BY <1>2, <1>4 DEF Framed
<1>8. Coherent(H) /\ After(H, entry) = H.members
  BY <1>2, <1>6, <1>7, FramedCoherent
<1>9. Coherent(G)
  BY DEF Coherent, Framed
<1>10. QED
  BY <1>2, <1>4, <1>5, <1>6, <1>7, <1>8, <1>9

LEMMA InitIInv == Init => IInv
<1> SUFFICES ASSUME Init PROVE IInv
  OBVIOUS
<1>1. PICK r \in Requests : g = RecordedGraph(r.edges, r.cmd) /\ cmd = r.cmd /\ plan = r.plan
  BY DEF Init
<1>2. /\ sub = [u \in Node |-> NoSub] /\ ir = NoOps(cmd) /\ stage = "idle"
      /\ todo = {} /\ cur = {} /\ dead = {} /\ group = NoGroups
      /\ holds = [u \in Node |-> IF u \in RecordedNodes THEN {u} ELSE {}]
  BY DEF Init
<1>3. /\ r.edges \subseteq RecordedNodes \X RecordedNodes
      /\ cmd \in [Node -> CommandType]
      /\ \A u \in Node : /\ cmd[u].type = "none" <=> u \in Control \union {entry, exit}
                         /\ cmd[u].type = "batch" <=> u \in Batch
                         /\ cmd[u].type = "copy" <=> cmd[u].copy.dim # 0
      /\ plan \in Seq(Passes)
      /\ Acyclic(g) /\ Coherent(g) /\ After(g, entry) = g.members
  BY <1>1, MlirAssumption
<1>4. RecordedNodes \subseteq Node /\ entry \in RecordedNodes /\ exit \in RecordedNodes
  BY NodeFacts DEF RecordedNodes
<1> DEFINE allocated == (UNION {{e[1], e[2]} : e \in r.edges}) \ {entry, exit}
           type == [u \in Node |-> IF cmd[u].type = "none" THEN "EMPTY" ELSE "COMMAND"]
<1>5. g = Recorded(type, allocated, r.edges)
  BY <1>1 DEF RecordedGraph
<1>6. \A e \in r.edges : e[1] \in RecordedNodes /\ e[2] \in RecordedNodes /\ e = <<e[1], e[2]>>
  BY <1>3
<1>7. allocated \in SUBSET Inner /\ allocated \subseteq RecordedNodes
  BY <1>4, <1>6 DEF Inner
<1>8. r.edges \in SUBSET ((allocated \union {entry, exit}) \X (allocated \union {entry, exit}))
  <2>1. ASSUME NEW e \in r.edges
        PROVE  e[1] \in allocated \union {entry, exit} /\ e[2] \in allocated \union {entry, exit}
    OBVIOUS
  <2>2. QED
    BY <1>6, <2>1
<1>9. type \in [Node -> NodeType]
  BY DEF NodeType
<1> HIDE DEF allocated, type
<1>10. g \in Graphs /\ EdgesMirrored(g) /\ SimpleEdges(g) /\ g.members = allocated \union {entry, exit}
  BY <1>5, <1>7, <1>8, <1>9, RecordedLists
<1>11. Framed(g)
  BY <1>3, <1>10, CoherentFramed
<1>12. ir.ops = {} /\ ir.nested = {} /\ ir.operands = NoEdge /\ ir.attr = cmd /\ ir \in Blocks
  BY <1>2, <1>3 DEF NoOps, NoEdge, Blocks, Lists
<1>13. \A u \in Node : sub[u].nodes = {}
  BY <1>2 DEF NoSub
<1>14. Batches = {} /\ Nested = {} /\ NewBatches = {}
  BY <1>12, <1>13 DEF Batches, Nested, NewBatches
<1>15. \A u \in Node : holds[u] = IF u \in RecordedNodes THEN {u} ELSE {}
  BY <1>2
<1>16. TypeOK
  <2>1. sub \in [Node -> [nodes : SUBSET Node, sources : SUBSET Node, sinks : SUBSET Node]]
    BY <1>2 DEF NoSub
  <2>2. group \in [Node -> SUBSET Node]
    BY <1>2 DEF NoGroups
  <2>3. holds \in [Node -> SUBSET RecordedNodes]
    BY <1>2, <1>4
  <2>4. QED
    BY <1>2, <1>3, <1>10, <1>12, <2>1, <2>2, <2>3 DEF TypeOK
<1>17. Labels
  BY <1>3, <1>12 DEF Labels
<1>18. AtRest
  <2>1. \A u \in g.members, v \in Node : g.successors[u][v] <= 1
    BY <1>10 DEF SimpleEdges
  <2>2. QED
    BY <1>2, <1>3, <1>10, <1>11, <2>1 DEF AtRest
<1>19. Holding
  <2>1. \A B \in Node : sub[B].nodes # {} <=> B \in Batch /\ holds[B] # {}
    BY <1>13, <1>15 DEF RecordedNodes
  <2>2. \A u \in Present \union Nested : holds[u] # {}
    BY <1>2, <1>4, <1>7, <1>10, <1>14, <1>15 DEF Present
  <2>3. QED
    BY <1>12, <1>14, <2>1, <2>2 DEF Holding
<1>20. Running /\ Subs /\ Groups /\ Rows /\ EdgesReduced
  BY <1>2, <1>14 DEF Running, Subs, Groups, Rows, EdgesReduced
<1>21. QED
  BY <1>16, <1>17, <1>18, <1>19, <1>20 DEF IInv

(* Every predecessor is found by the walk: the operands are the predecessors. *)
LEMMA ImportedOps ==
  ASSUME NEW G \in Graphs, EdgesMirrored(G), Acyclic(G), Framed(G), NEW comm,
         NEW named \in [Unlisted(G, After(G, entry)) -> After(G, entry)],
         NEW block, block = Imported(G, comm, After(G, entry), named)
  PROVE  /\ block.ops = G.members /\ block.nested = {} /\ block.attr = comm
         /\ block.operands \in Lists
         /\ \A v, u \in Node : block.operands[v][u] = IF v \in G.members THEN G.predecessors[v][u] ELSE 0
         /\ block = [ops |-> block.ops, nested |-> block.nested,
                     operands |-> block.operands, attr |-> block.attr]
<1>1. After(G, entry) = G.members /\ G.members \subseteq Node
  BY ListsOfGraph DEF Graphs
<1>2. \A v, u \in Node : G.predecessors[v][u] \in Nat
  BY DEF Graphs, Lists
<1>3. \A v \in G.members : Preds(G, v) \subseteq G.members
  BY <1>1 DEF EdgesMirrored, Preds
<1> DEFINE found(p) == IF p \in G.members THEN p ELSE named[p]
           listing(v, u) == SumFunction([p \in {q \in Preds(G, v) : found(q) = u} |-> G.predecessors[v][p]])
<1>4. block = [ops |-> G.members, nested |-> {},
               operands |-> [v \in Node |-> [u \in Node |-> IF v \notin G.members THEN 0 ELSE listing(v, u)]],
               attr |-> comm]
  BY <1>1 DEF Imported
<1>5. ASSUME NEW v \in G.members, NEW u \in Node PROVE listing(v, u) = G.predecessors[v][u]
  <2> DEFINE X == {q \in Preds(G, v) : found(q) = u}
             f == [p \in X |-> G.predecessors[v][p]]
  <2>1. X = {q \in Preds(G, v) : q = u}
    BY <1>3
  <2>2. X \subseteq {u} /\ (u \in Preds(G, v) <=> u \in X)
    BY <2>1
  <2>3. IsFiniteSet(X) /\ f \in [X -> Nat] /\ \A p \in X : f[p] = G.predecessors[v][p]
    <3>1. IsFiniteSet(X)
      BY <2>2, FS_Singleton, FS_Subset
    <3>2. X \subseteq Node /\ v \in Node
      BY <1>1, <2>2
    <3>3. QED
      BY <1>2, <3>1, <3>2
  <2>4. PICK n : n = SumFunction(f)
    OBVIOUS
  <2>5. n = listing(v, u)
    BY <2>4
  <2> HIDE DEF X, f
  <2>6. IsSum(f, X, n)
    BY <2>3, <2>4, SumOf
  <2>7. CASE u \in Preds(G, v)
    <3>1. X = {u} /\ u \in X
      BY <2>2, <2>7
    <3>2. n = f[u]
      BY <2>6, <3>1 DEF IsSum
    <3>3. QED
      BY <2>3, <2>5, <3>1, <3>2
  <2>8. CASE u \notin Preds(G, v)
    <3>1. X = {}
      BY <2>2, <2>8
    <3>2. n = 0
      BY <2>6, <3>1 DEF IsSum
    <3>3. G.predecessors[v][u] = 0
      BY <1>1, <1>2, <2>8 DEF Preds
    <3>4. QED
      BY <2>5, <3>2, <3>3
  <2>9. QED
    BY <2>7, <2>8
<1> HIDE DEF listing
<1>6. \A v, u \in Node : block.operands[v][u] = IF v \notin G.members THEN 0 ELSE listing(v, u)
  BY <1>4
<1>7. \A v, u \in Node : block.operands[v][u] = IF v \in G.members THEN G.predecessors[v][u] ELSE 0
  BY <1>5, <1>6
<1>8. block.operands \in Lists
  <2>1. \A v, u \in Node : (IF v \notin G.members THEN 0 ELSE listing(v, u)) \in Nat
    BY <1>2, <1>5
  <2>2. QED
    BY <1>4, <2>1 DEF Lists
<1>9. QED
  BY <1>4, <1>7, <1>8

LEMMA ImportIInv ==
  ASSUME IInv, Import
  PROVE  IInv'
<1>1. /\ stage = "idle" /\ plan # <<>> /\ UNCHANGED <<pod, cur, dead, holds>>
  BY DEF Import
<1>2. /\ g \in Graphs /\ EdgesMirrored(g) /\ Acyclic(g) /\ Framed(g) /\ ir = NoOps(cmd) /\ dead = {}
      /\ \A u \in g.members \ Batch, v \in Node : g.successors[u][v] <= 1
      /\ cmd \in [Node -> CommandType] /\ plan \in Seq(Passes)
  BY <1>1 DEF IInv, AtRest, TypeOK
<1>3. After(g, entry) = g.members /\ g.members \subseteq Node /\ entry \in g.members /\ exit \in g.members
  BY <1>2, ListsOfGraph DEF Graphs, Framed
<1>4. PICK named \in [Unlisted(g, After(g, entry)) -> After(g, entry)] :
        LET block == Imported(g, cmd, After(g, entry), named)
            pass  == Head(plan)
        IN  /\ ir' = block
            /\ stage' = pass
            /\ todo' = Candidates(pass, block)
            /\ matrix' = NoBits(IF pass = "reduce-edge" THEN Cardinality(After(g, entry)) ELSE 0)
            /\ group' = [u \in Node |-> IF pass = "batch" /\ u \in After(g, entry) THEN {u} ELSE {}]
  BY DEF Import
<1>5. /\ g' = g /\ cmd' = cmd /\ sub' = sub /\ plan' = plan /\ cur' = cur /\ dead' = {} /\ holds' = holds
      /\ stage' = Head(plan) /\ Head(plan) \in Passes
      /\ todo' = Candidates(Head(plan), ir')
      /\ matrix' = NoBits(IF Head(plan) = "reduce-edge" THEN Cardinality(g.members) ELSE 0)
      /\ group' = [u \in Node |-> IF Head(plan) = "batch" /\ u \in g.members THEN {u} ELSE {}]
  <2>1. Head(plan) \in Passes
    BY <1>1, <1>2
  <2>2. QED
    BY <1>1, <1>2, <1>3, <1>4, <2>1 DEF pod
<1>6. stage' \notin {"idle", "done"}
  BY <1>5 DEF Passes
<1>7. /\ ir'.ops = g.members /\ ir'.nested = {} /\ ir'.attr = cmd
      /\ ir'.operands \in Lists
      /\ \A v, u \in Node : ir'.operands[v][u] = IF v \in g.members THEN g.predecessors[v][u] ELSE 0
      /\ ir' = [ops |-> ir'.ops, nested |-> ir'.nested, operands |-> ir'.operands, attr |-> ir'.attr]
  <2>1. PICK block : block = Imported(g, cmd, After(g, entry), named)
    OBVIOUS
  <2>2. ir' = block
    BY <1>4, <2>1
  <2>3. /\ block.ops = g.members /\ block.nested = {} /\ block.attr = cmd
        /\ block.operands \in Lists
        /\ \A v, u \in Node : block.operands[v][u] = IF v \in g.members THEN g.predecessors[v][u] ELSE 0
        /\ block = [ops |-> block.ops, nested |-> block.nested,
                    operands |-> block.operands, attr |-> block.attr]
    BY <1>2, <2>1, ImportedOps
  <2>4. QED
    BY <2>2, <2>3
<1>8. /\ Batches' = Batches /\ Nested' = Nested /\ NewBatches' = {} /\ NewBatches = {}
      /\ ir.ops = {} /\ ir.nested = {} /\ ir.attr = cmd
  BY <1>2, <1>5, <1>7 DEF Batches, Nested, NewBatches, NoOps
<1>9. Top' = g.members /\ Present' = g.members /\ Present = g.members
  BY <1>1, <1>5, <1>6, <1>7 DEF Top, Present
<1>10. PICK H : H = Edges(g.predecessors, g.members)
  OBVIOUS
<1>11. /\ H \in Graphs /\ EdgesMirrored(H) /\ SimpleEdges(H) /\ Acyclic(H) /\ Framed(H) /\ H.members = g.members
       /\ \A x \in g.members : Succs(H, x) = Succs(g, x)
  BY <1>2, <1>10, ListsOfGraph
<1>12. Block' = H
  <2>1. Linking(ir'.operands, g.members) = Linking(g.predecessors, g.members)
    BY <1>3, <1>7 DEF Linking
  <2>2. Block' = Edges(ir'.operands, g.members)
    BY <1>9 DEF Block
  <2>3. QED
    BY <1>10, <2>1, <2>2 DEF Edges
<1>13. \A u \in Node : /\ cmd[u].type = "none" <=> u \in Control \union {entry, exit}
                       /\ cmd[u].type = "copy" <=> cmd[u].copy.dim # 0
  BY DEF IInv, Labels
<1>14. cmd[entry].type = "none" /\ cmd[exit].type = "none" /\ cmd[entry].copy.dim = 0 /\ cmd[exit].copy.dim = 0
  BY <1>13, NodeFacts
<1>15. /\ todo' \subseteq g.members
       /\ Head(plan) \in {"reduce-node", "copy-fuse", "prog-fuse", "batch"} => todo' \subseteq g.members \ {entry, exit}
       /\ Head(plan) = "copy-fuse" => \A u \in todo' : cmd[u].copy.dim = 1
       /\ Head(plan) = "reduce-edge" => todo' = g.members
  BY <1>5, <1>7, <1>14 DEF Candidates
<1>16. \A u \in Node : group'[u] = IF Head(plan) = "batch" /\ u \in g.members THEN {u} ELSE {}
  BY <1>5
<1>17. TypeOK'
  <2>1. ir' \in Blocks
    BY <1>2, <1>3, <1>7 DEF Blocks
  <2>2. group' \in [Node -> SUBSET Node]
    BY <1>5
  <2>3. QED
    BY <1>2, <1>3, <1>5, <1>15, <2>1, <2>2 DEF IInv, TypeOK
<1>18. Labels'
  BY <1>5, <1>7, <1>8 DEF IInv, Labels
<1>19. AtRest'
  BY <1>6 DEF AtRest
<1>20. Running'
  <2>1. ASSUME NEW v \in g.members, NEW u \in Node PROVE /\ u \notin g.members => ir'.operands[v][u] = 0
                                                         /\ u \in g.members \ Batch => ir'.operands[v][u] <= 1
    <3>1. v \in Node /\ ir'.operands[v][u] = g.predecessors[v][u]
      BY <1>3, <1>7
    <3>2. u \notin g.members => g.predecessors[v][u] = 0
      BY <1>2 DEF EdgesMirrored
    <3>3. u \in g.members => g.predecessors[v][u] = g.successors[u][v]
      BY <1>2, <3>1 DEF EdgesMirrored
    <3>4. QED
      BY <1>2, <3>1, <3>2, <3>3
  <2>2. \A v \in Node \ g.members, u \in Node : ir'.operands[v][u] = 0
    BY <1>7
  <2>3. Acyclic(Block') /\ Framed(Block')
    BY <1>11, <1>12
  <2>4. \A v \in ir'.ops, u \in Node \ Top' : ir'.operands[v][u] = 0
    BY <1>7, <1>9, <2>1
  <2>5. \A v \in Node \ (ir'.ops \union ir'.nested), u \in Node : ir'.operands[v][u] = 0
    BY <1>7, <2>2
  <2>6. \A u \in ir'.ops \ Batch, v \in ir'.ops : ir'.operands[v][u] <= 1
    BY <1>3, <1>7, <2>1
  <2>7. plan' # <<>> /\ stage' = Head(plan')
    BY <1>1, <1>5
  <2>8. dead' = {} /\ ir'.nested = {} /\ ir'.ops \intersect ir'.nested = {}
    BY <1>5, <1>7
  <2>9. /\ stage' = "reduce-node" => todo' \subseteq ir'.ops \ {entry, exit}
        /\ stage' \in {"copy-fuse", "prog-fuse"} => todo' \subseteq Top' \ {entry, exit}
        /\ stage' = "reduce-edge" => todo' \subseteq ir'.ops
        /\ stage' = "copy-fuse" => \A u \in todo' : ir'.attr[u].copy.dim = 1
    BY <1>5, <1>7, <1>9, <1>15
  <2>10. QED
    BY <2>3, <2>4, <2>5, <2>6, <2>7, <2>8, <2>9 DEF Running
<1>21. Holding'
  BY <1>5, <1>7, <1>8, <1>9 DEF IInv, Holding
<1>22. Subs'
  <2>1. SUFFICES ASSUME NEW B \in Batches PROVE OneDevice(B)' /\ OldSound(B)'
    BY <1>8 DEF Subs
  <2>2. OneDevice(B) /\ OldSound(B)
    BY <1>8 DEF IInv, Subs
  <2>3. OneDevice(B)'
    BY <1>5, <1>7, <1>8, <2>2 DEF OneDevice
  <2>4. OldSound(B)'
    BY <1>5, <2>2 DEF OldSound
  <2>5. QED
    BY <2>3, <2>4
<1>23. Groups'
  <2>1. SUFFICES ASSUME Head(plan) = "batch" PROVE Groups'
    BY <1>5 DEF Groups
  <2>2. \A u \in Node : group'[u] = IF u \in g.members THEN {u} ELSE {}
    BY <1>16, <2>1
  <2>3. Grown' = g.members
    <3>1. \A x : x \in Grown' <=> \E a \in Node : x \in group'[a]
      BY DEF Grown
    <3>2. \A a \in Node : group'[a] \subseteq g.members
      BY <2>2
    <3>3. \A x \in g.members : x \in Node /\ x \in group'[x]
      BY <1>3, <2>2
    <3>4. Grown' \subseteq g.members
      BY <3>1, <3>2
    <3>5. g.members \subseteq Grown'
      BY <3>1, <3>3
    <3>6. QED
      BY <3>4, <3>5
  <2>4. \A a \in Node : Part'[a] = IF a \in g.members THEN {a} ELSE {}
    BY <1>7, <2>2, <2>3 DEF Part
  <2>5. \A a : a \in Alive' <=> a \in g.members
    BY <1>3, <2>2 DEF Alive
  <2>6. PICK p, o : p = Part' /\ o = ir'.operands
    OBVIOUS
  <2>7. PICK K : K = Grouped(o, p)
    OBVIOUS
  <2>8. /\ K \in Graphs /\ K.members = Parts(p)
        /\ \A a \in Parts(p) : \A b :
             b \in Succs(K, a) <=> b \in Parts(p) /\ a # b /\ \E x \in p[a], y \in p[b] : o[y][x] > 0
    BY <2>7, GroupedGraph
  <2>9. \A a : a \in Parts(p) <=> a \in g.members
    BY <1>3, <2>4, <2>6 DEF Parts
  <2>10. Coarser(K, H)
    <3>1. ASSUME NEW a \in g.members, NEW b \in Succs(K, a)
          PROVE  b \in g.members /\ a # b /\ <<a, b>> \in Paths(H)
      <4>1. b \in g.members /\ a # b /\ o[b][a] > 0
        <5>1. a \in Parts(p) /\ a \in Node
          BY <1>3, <2>9
        <5>2. b \in Parts(p) /\ a # b
          BY <2>8, <3>1, <5>1
        <5>3. PICK x \in p[a], y \in p[b] : o[y][x] > 0
          BY <2>8, <3>1, <5>1
        <5>4. b \in g.members /\ b \in Node
          BY <1>3, <2>9, <5>2
        <5>5. p[a] = {a} /\ p[b] = {b}
          BY <2>4, <2>6, <5>1, <5>4
        <5>6. QED
          BY <5>2, <5>3, <5>4, <5>5
      <4>2. g.predecessors[b][a] > 0 /\ a \in Node /\ b \in Node
        BY <1>3, <1>7, <2>6, <4>1
      <4>3. b \in Succs(H, a)
        <5>1. g.successors[a][b] = g.predecessors[b][a]
          BY <1>2, <4>1, <4>2 DEF EdgesMirrored
        <5>2. b \in Succs(g, a)
          BY <4>2, <5>1 DEF Succs
        <5>3. QED
          BY <1>11, <5>2
      <4>4. QED
        BY <1>11, <4>1, <4>3, EdgesArePaths
    <3>2. QED
      BY <1>11, <2>8, <2>9, <3>1 DEF Coarser
  <2>11. Acyclic(K)
    BY <1>11, <2>8, <2>10, CoarserAcyclic
  <2>12. Acyclic(Grouped(ir'.operands, Part'))
    BY <2>6, <2>7, <2>11
  <2>13. Grown' \subseteq ir'.ops /\ todo' \subseteq Alive' /\ ir'.ops \subseteq Grown' /\ ir'.ops \ Grown' = {}
    BY <1>7, <1>15, <2>3, <2>5
  <2>14. \A a \in Alive' : group'[a] = {a}
    BY <1>3, <2>2, <2>5
  <2>15. \A a \in Alive' : /\ a \in group'[a] /\ \A u \in group'[a] : ir'.attr[u].dev = ir'.attr[a].dev
                           /\ entry \in group'[a] \/ exit \in group'[a] => group'[a] = {a}
    BY <2>14
  <2>16. \A a, b \in Node : a # b => group'[a] \intersect group'[b] = {}
    BY ZenonT(60), <2>2
  <2>17. QED
    BY <1>8, <2>12, <2>13, <2>15, <2>16 DEF Groups
<1>24. Rows'
  <2>1. SUFFICES ASSUME Head(plan) = "reduce-edge" PROVE Rows'
    BY <1>5 DEF Rows
  <2>2. PICK n : n = Cardinality(g.members)
    OBVIOUS
  <2>3. n \in Nat /\ \A u \in g.members : Cardinality({x \in g.members : Rank[x] < Rank[u]}) \in 0 .. n - 1
    BY <1>3, <2>2, Places
  <2>4. Size' = n /\ matrix' = NoBits(n)
    BY <1>5, <1>7, <2>1, <2>2 DEF Size
  <2>5. \A u \in g.members : Index(u)' \in 0 .. n - 1
    BY <1>7, <2>3 DEF Index
  <2>6. NoBits(n) \in Matrices(n) /\ \A k, l \in 0 .. n - 1 : ~TestBit(NoBits(n), n, k, l)
    BY <2>3, BitOfNone
  <2>7. ASSUME NEW u \in g.members PROVE Reached(u)' = {}
    BY <1>7, <2>4, <2>5, <2>6 DEF Reached
  <2>8. QED
    BY <1>7, <1>15, <2>1, <2>4, <2>6, <2>7 DEF Rows
<1>25. EdgesReduced'
  BY <1>6 DEF EdgesReduced
<1>26. QED
  BY <1>17, <1>18, <1>19, <1>20, <1>21, <1>22, <1>23, <1>24, <1>25 DEF IInv

(***************************************************************************)
(* An export writes the lists of the operations and of those in a batch    *)
(* made by this call; the lists of the others stay.                        *)
(***************************************************************************)
LEMMA ExportedLists ==
  ASSUME IInv, Export
  PROVE  /\ stage = "done" /\ stage' = "idle" /\ todo' = todo /\ cur' = cur /\ dead' = dead
         /\ group' = group /\ holds' = holds /\ dead = {} /\ Top = ir.ops
         /\ plan' = Tail(plan) /\ plan # <<>>
         /\ ir.ops \subseteq Node /\ ir.nested \subseteq Node
         /\ g' \in Graphs /\ g'.members = ir.ops
         /\ \A u, v \in Node :
              /\ g'.successors[u][v] = IF u \in ir.ops \union ir.nested THEN ir.operands[v][u]
                                                                        ELSE g.successors[u][v]
              /\ g'.predecessors[u][v] = IF u \in ir.ops \union ir.nested THEN ir.operands[u][v]
                                                                          ELSE g.predecessors[u][v]
         /\ ir' = NoOps(cmd') /\ cmd' \in [Node -> CommandType]
         /\ \A u \in Node : /\ cmd'[u].type = cmd[u].type /\ cmd'[u].dev = ir.attr[u].dev
                            /\ cmd[u].type = "copy" => cmd'[u].copy.dim # 0
                            /\ cmd[u].type # "copy" => cmd'[u].copy.dim = 0
         /\ sub' \in [Node -> [nodes : SUBSET Node, sources : SUBSET Node, sinks : SUBSET Node]]
         /\ \A u \in Node : /\ sub'[u].nodes = sub[u].nodes
                            /\ u \notin NewBatches => sub'[u] = sub[u]
                            /\ u \in NewBatches => sub'[u] = Linked(u)
<1> DEFINE written == ir.ops \union ir.nested
<1>1. /\ stage = "done" /\ stage' = "idle" /\ todo' = todo /\ cur' = cur /\ dead' = dead
      /\ group' = group /\ holds' = holds /\ plan' = Tail(plan)
      /\ g' = Exported(ir, g) /\ cmd' = WrittenBack(ir, cmd)
      /\ sub' = [u \in Node |-> IF u \in NewBatches THEN Linked(u) ELSE sub[u]]
      /\ ir' = NoOps(cmd')
  BY DEF Export, work
<1>2. dead = {} /\ Top = ir.ops /\ plan # <<>>
  BY <1>1 DEF IInv, Running, Top
<1>3. /\ g \in Graphs /\ ir \in Blocks /\ cmd \in [Node -> CommandType]
      /\ sub \in [Node -> [nodes : SUBSET Node, sources : SUBSET Node, sinks : SUBSET Node]]
  BY DEF IInv, TypeOK
<1>4. ir.ops \subseteq Node /\ ir.nested \subseteq Node /\ ir.operands \in Lists /\ ir.attr \in [Node -> CommandType]
  BY <1>3 DEF Blocks
<1>5. g' = [successors   |-> [u \in Node |-> IF u \in written THEN [v \in Node |-> ir.operands[v][u]]
                                                              ELSE g.successors[u]],
            predecessors |-> [v \in Node |-> IF v \in written THEN ir.operands[v] ELSE g.predecessors[v]],
            type         |-> g.type,
            members      |-> ir.ops]
  BY <1>1, <1>3 DEF Exported, Graphs
<1>6. g.successors \in Lists /\ g.predecessors \in Lists /\ g.type \in [Node -> NodeType]
  BY <1>3 DEF Graphs
<1>7. g'.successors \in Lists /\ g'.predecessors \in Lists
  <2>1. ASSUME NEW u \in Node
        PROVE  [v \in Node |-> ir.operands[v][u]] \in [Node -> Nat] /\ g.successors[u] \in [Node -> Nat]
    BY <1>4, <1>6 DEF Lists
  <2>2. ASSUME NEW v \in Node
        PROVE  ir.operands[v] \in [Node -> Nat] /\ g.predecessors[v] \in [Node -> Nat]
    BY <1>4, <1>6 DEF Lists
  <2>3. QED
    BY <1>5, <2>1, <2>2 DEF Lists
<1>8. g' \in Graphs /\ g'.members = ir.ops
  BY <1>4, <1>5, <1>6, <1>7 DEF Graphs
<1>9. \A u, v \in Node :
        /\ g'.successors[u][v] = IF u \in written THEN ir.operands[v][u] ELSE g.successors[u][v]
        /\ g'.predecessors[u][v] = IF u \in written THEN ir.operands[u][v] ELSE g.predecessors[u][v]
  BY <1>5
<1>10. ASSUME NEW u \in Node
       PROVE  /\ cmd'[u] = IF u \notin written THEN cmd[u]
                           ELSE [type |-> cmd[u].type, dev |-> ir.attr[u].dev, launch |-> cmd[u].launch,
                                 copy |-> IF cmd[u].type = "copy" THEN ir.attr[u].copy ELSE cmd[u].copy]
              /\ cmd'[u] \in CommandType
  <2>1. cmd[u] \in CommandType /\ ir.attr[u] \in CommandType
    BY <1>3, <1>4
  <2>2. cmd'[u] = IF u \notin written THEN cmd[u]
                  ELSE [type |-> cmd[u].type, dev |-> ir.attr[u].dev, launch |-> cmd[u].launch,
                        copy |-> IF cmd[u].type = "copy" THEN ir.attr[u].copy ELSE cmd[u].copy]
    <3>1. PICK c, d, k : /\ c = cmd[u] /\ d = ir.attr[u].dev
                         /\ k = IF cmd[u].type = "copy" THEN ir.attr[u].copy ELSE cmd[u].copy
      OBVIOUS
    <3>2. c = [type |-> c.type, dev |-> c.dev, launch |-> c.launch, copy |-> c.copy]
      BY <2>1, <3>1 DEF CommandType
    <3>3. [c EXCEPT !.dev = d, !.copy = k] = [type |-> c.type, dev |-> d, launch |-> c.launch, copy |-> k]
      <4>1. PICK e : e = [c EXCEPT !.dev = d]
        OBVIOUS
      <4>2. c \in CommandType
        BY <2>1, <3>1
      <4>3. e = [type |-> c.type, dev |-> d, launch |-> c.launch, copy |-> c.copy]
        BY <4>1, <4>2 DEF CommandType
      <4>4. [e EXCEPT !.copy = k] = [type |-> c.type, dev |-> d, launch |-> c.launch, copy |-> k]
        BY <4>3
      <4>5. QED
        BY <4>1, <4>4
    <3>4. cmd'[u] = IF u \notin written THEN c ELSE [c EXCEPT !.dev = d, !.copy = k]
      BY <1>1, <3>1 DEF WrittenBack
    <3>5. QED
      BY <3>1, <3>3, <3>4
  <2>3. QED
    BY <2>1, <2>2 DEF CommandType
<1>11. cmd' \in [Node -> CommandType]
  BY <1>1, <1>10 DEF WrittenBack
<1>12. ASSUME NEW u \in Node
       PROVE  /\ cmd'[u].type = cmd[u].type /\ cmd'[u].dev = ir.attr[u].dev
              /\ cmd[u].type = "copy" => cmd'[u].copy.dim # 0
              /\ cmd[u].type # "copy" => cmd'[u].copy.dim = 0
  <2>1. /\ cmd[u].type = "copy" <=> cmd[u].copy.dim # 0
        /\ cmd[u].type = "copy" <=> ir.attr[u].copy.dim # 0
        /\ u \notin NewBatches => ir.attr[u].dev = cmd[u].dev
    BY DEF IInv, Labels
  <2>2. NewBatches \subseteq written
    BY DEF NewBatches
  <2>3. CASE u \in written
    <3>1. cmd'[u] = [type |-> cmd[u].type, dev |-> ir.attr[u].dev, launch |-> cmd[u].launch,
                     copy |-> IF cmd[u].type = "copy" THEN ir.attr[u].copy ELSE cmd[u].copy]
      BY <1>10, <2>3
    <3>2. /\ cmd'[u].type = cmd[u].type /\ cmd'[u].dev = ir.attr[u].dev
          /\ cmd'[u].copy = IF cmd[u].type = "copy" THEN ir.attr[u].copy ELSE cmd[u].copy
      BY <3>1
    <3>3. QED
      BY <2>1, <3>2
  <2>4. CASE u \notin written
    <3>1. cmd'[u] = cmd[u] /\ ir.attr[u].dev = cmd[u].dev
      BY <1>10, <2>1, <2>2, <2>4
    <3>2. QED
      BY <2>1, <3>1
  <2>5. QED
    BY <2>3, <2>4
<1>13. ASSUME NEW u \in Node
       PROVE  /\ Linked(u) = [nodes |-> sub[u].nodes,
                              sources |-> {m \in sub[u].nodes : Operands(ir, m) = {}},
                              sinks |-> {m \in sub[u].nodes : \A x \in sub[u].nodes : ir.operands[x][m] = 0}]
              /\ sub[u].nodes \subseteq Node
  <2>1. PICK r, A, Z : /\ r = sub[u]
                       /\ A = {m \in sub[u].nodes : Operands(ir, m) = {}}
                       /\ Z = {m \in sub[u].nodes : \A x \in sub[u].nodes : ir.operands[x][m] = 0}
    OBVIOUS
  <2>2. r = [nodes |-> r.nodes, sources |-> r.sources, sinks |-> r.sinks] /\ r.nodes \subseteq Node
    BY <1>3, <2>1
  <2>3. [r EXCEPT !.sources = A, !.sinks = Z] = [nodes |-> r.nodes, sources |-> A, sinks |-> Z]
    <3>1. PICK e : e = [r EXCEPT !.sources = A]
      OBVIOUS
    <3>2. e = [nodes |-> r.nodes, sources |-> A, sinks |-> r.sinks]
      BY <2>2, <3>1
    <3>3. [e EXCEPT !.sinks = Z] = [nodes |-> r.nodes, sources |-> A, sinks |-> Z]
      BY <3>2
    <3>4. QED
      BY <3>1, <3>3
  <2>4. Linked(u) = [r EXCEPT !.sources = A, !.sinks = Z]
    BY <2>1 DEF Linked
  <2>5. QED
    BY <2>1, <2>2, <2>3, <2>4
<1>14. \A u \in Node : sub'[u] = IF u \in NewBatches THEN Linked(u) ELSE sub[u]
  BY <1>1
<1>15. \A u \in Node : sub'[u].nodes = sub[u].nodes
  BY <1>13, <1>14
<1>16. sub' \in [Node -> [nodes : SUBSET Node, sources : SUBSET Node, sinks : SUBSET Node]]
  <2>1. ASSUME NEW u \in Node
        PROVE  Linked(u) \in [nodes : SUBSET Node, sources : SUBSET Node, sinks : SUBSET Node]
    BY <1>13
  <2>2. QED
    BY <1>1, <1>3, <2>1
<1>17. QED
  BY <1>1, <1>2, <1>4, <1>8, <1>9, <1>11, <1>12, <1>14, <1>15, <1>16

(* Edges of the graph between the nodes of a set, once they are exported. *)
LEMMA ExportedGraph ==
  ASSUME IInv, Export
  PROVE  /\ EdgesMirrored(g') /\ Acyclic(g') /\ Framed(g')
         /\ \A u \in g'.members \ Batch, v \in Node : g'.successors[u][v] <= 1
<1>1. /\ stage = "done" /\ Top = ir.ops
      /\ ir.ops \subseteq Node /\ ir.nested \subseteq Node
      /\ g' \in Graphs /\ g'.members = ir.ops
      /\ \A u, v \in Node :
           /\ g'.successors[u][v] = IF u \in ir.ops \union ir.nested THEN ir.operands[v][u]
                                                                     ELSE g.successors[u][v]
           /\ g'.predecessors[u][v] = IF u \in ir.ops \union ir.nested THEN ir.operands[u][v]
                                                                       ELSE g.predecessors[u][v]
  BY ExportedLists
<1>2. /\ \A v \in ir.ops, u \in Node \ ir.ops : ir.operands[v][u] = 0
      /\ \A v \in Node \ (ir.ops \union ir.nested), u \in Node : ir.operands[v][u] = 0
      /\ \A u \in ir.ops \ Batch, v \in ir.ops : ir.operands[v][u] <= 1
      /\ ir.ops \intersect ir.nested = {}
  BY <1>1 DEF IInv, Running
<1>3. ASSUME NEW v \in ir.nested, NEW u \in Node \ ir.nested PROVE ir.operands[v][u] = 0
  <2>1. PICK B \in NewBatches : v \in sub[B].nodes
    BY DEF IInv, Holding
  <2>2. sub[B].nodes \subseteq ir.nested
    BY <2>1 DEF IInv, Holding
  <2>3. B \in Batches
    BY <1>1, <2>1 DEF Batches, NewBatches
  <2>4. NewSound(B)
    BY <2>1, <2>3 DEF IInv, Subs
  <2>5. QED
    BY <2>1, <2>2, <2>4 DEF NewSound
<1>4. PICK E : E = Block
  OBVIOUS
<1>5. /\ E \in Graphs /\ Acyclic(E) /\ Framed(E) /\ E.members = ir.ops
      /\ \A x \in ir.ops : \A y :
           /\ y \in Succs(E, x) <=> y \in ir.ops /\ ir.operands[y][x] > 0
           /\ y \in Preds(E, x) <=> y \in ir.ops /\ ir.operands[x][y] > 0
  BY <1>1, <1>4, BlockFacts
<1>6. ASSUME NEW u \in ir.ops, NEW v \in Node
      PROVE  /\ g'.successors[u][v] = ir.operands[v][u] /\ g'.predecessors[u][v] = ir.operands[u][v]
             /\ v \notin ir.ops => ir.operands[v][u] = 0 /\ ir.operands[u][v] = 0
             /\ v \in ir.ops => g'.predecessors[v][u] = ir.operands[v][u]
  <2>1. u \in Node /\ g'.successors[u][v] = ir.operands[v][u] /\ g'.predecessors[u][v] = ir.operands[u][v]
    BY <1>1
  <2>2. v \in ir.ops => g'.predecessors[v][u] = ir.operands[v][u]
    BY <1>1, <2>1
  <2>3. ASSUME v \notin ir.ops PROVE ir.operands[v][u] = 0 /\ ir.operands[u][v] = 0
    <3>1. ir.operands[u][v] = 0
      BY <1>2, <2>3
    <3>2. CASE v \in ir.nested
      BY <1>2, <1>3, <2>1, <3>1, <3>2
    <3>3. CASE v \notin ir.nested
      BY <1>2, <2>1, <2>3, <3>1, <3>3
    <3>4. QED
      BY <3>2, <3>3
  <2>4. QED
    BY <2>1, <2>2, <2>3
<1>7. EdgesMirrored(g')
  BY <1>1, <1>6 DEF EdgesMirrored
<1>8. ASSUME NEW x \in ir.ops PROVE Succs(g', x) = Succs(E, x) /\ Preds(g', x) = Preds(E, x)
  <2>1. \A y : y \in Succs(g', x) <=> y \in Node /\ ir.operands[y][x] > 0
    BY <1>6 DEF Succs
  <2>2. \A y : y \in Preds(g', x) <=> y \in Node /\ ir.operands[x][y] > 0
    BY <1>6 DEF Preds
  <2>3. \A y \in Node : y \notin ir.ops => ~(ir.operands[y][x] > 0) /\ ~(ir.operands[x][y] > 0)
    BY <1>6
  <2>4. \A y : /\ y \in Succs(g', x) <=> y \in Succs(E, x)
               /\ y \in Preds(g', x) <=> y \in Preds(E, x)
    BY <1>1, <1>5, <2>1, <2>2, <2>3
  <2>5. Succs(g', x) \subseteq Succs(E, x) /\ Succs(E, x) \subseteq Succs(g', x)
    BY <2>4
  <2>6. Preds(g', x) \subseteq Preds(E, x) /\ Preds(E, x) \subseteq Preds(g', x)
    BY <2>4
  <2>7. QED
    BY <2>5, <2>6
<1>9. PICK h : h = g'
  OBVIOUS
<1>10. h.members = E.members /\ \A x \in h.members : Succs(h, x) = Succs(E, x) /\ Preds(h, x) = Preds(E, x)
  BY <1>1, <1>5, <1>8, <1>9
<1>11. Paths(h) = Paths(E)
  BY <1>10, SamePaths
<1>12. Acyclic(h) /\ Framed(h)
  BY <1>5, <1>10, <1>11 DEF Acyclic, Framed
<1>13. ASSUME NEW u \in g'.members \ Batch, NEW v \in Node PROVE g'.successors[u][v] <= 1
  <2>1. u \in ir.ops /\ g'.successors[u][v] = ir.operands[v][u]
    BY <1>1, <1>6
  <2>2. CASE v \in ir.ops
    BY <1>2, <1>13, <2>1, <2>2
  <2>3. CASE v \notin ir.ops
    <3>1. g'.successors[u][v] = 0
      BY <1>6, <2>1, <2>3
    <3>2. QED
      BY <3>1
  <2>4. QED
    BY <2>2, <2>3
<1>14. QED
  BY <1>7, <1>9, <1>12, <1>13

(* A batch made by the call: entry and exit of its sub-graph reach all of it. *)
LEMMA ExportedNew ==
  ASSUME IInv, Export, NEW B \in NewBatches
  PROVE  OldSound(B)'
<1>1. /\ stage = "done" /\ Top = ir.ops
      /\ ir.ops \subseteq Node /\ ir.nested \subseteq Node
      /\ \A u, v \in Node :
           /\ g'.successors[u][v] = IF u \in ir.ops \union ir.nested THEN ir.operands[v][u]
                                                                     ELSE g.successors[u][v]
           /\ g'.predecessors[u][v] = IF u \in ir.ops \union ir.nested THEN ir.operands[u][v]
                                                                       ELSE g.predecessors[u][v]
      /\ \A u \in Node : u \in NewBatches => sub'[u] = Linked(u)
  BY ExportedLists
<1>2. B \in Node /\ B \in Batches
  BY <1>1 DEF NewBatches, Batches
<1>3. PICK S : S = sub[B].nodes
  OBVIOUS
<1>4. S \subseteq ir.nested /\ S \subseteq Node
  BY <1>1, <1>3 DEF IInv, Holding
<1>5. sub'[B] = Linked(B)
  BY <1>1, <1>2
<1>6. /\ sub'[B].nodes = S
      /\ sub'[B].sources = {m \in S : Operands(ir, m) = {}}
      /\ sub'[B].sinks = {m \in S : \A x \in S : ir.operands[x][m] = 0}
  BY <1>2, <1>3, <1>5 DEF Linked, IInv, TypeOK
<1>7. /\ \A v \in ir.ops, u \in Node \ ir.ops : ir.operands[v][u] = 0
      /\ \A v \in Node \ (ir.ops \union ir.nested), u \in Node : ir.operands[v][u] = 0
      /\ ir.ops \intersect ir.nested = {}
      /\ \A u, v \in Node : ir.operands[v][u] \in Nat
  BY <1>1 DEF IInv, Running, TypeOK, Blocks, Lists
<1>8. NewSound(B)
  BY <1>2 DEF IInv, Subs
<1>9. ASSUME NEW v \in Node \ S, NEW u \in S PROVE ir.operands[v][u] = 0
  <2>1. u \in Node /\ u \notin ir.ops
    BY <1>4, <1>7
  <2>2. CASE v \in ir.ops
    BY <1>7, <2>1, <2>2
  <2>3. CASE v \in ir.nested
    <3>1. PICK C \in NewBatches : v \in sub[C].nodes
      BY <2>3 DEF IInv, Holding
    <3>2. C \in Batches /\ C # B
      BY <1>1, <1>3, <1>9, <3>1 DEF Batches, NewBatches
    <3>3. NewSound(C) /\ u \notin sub[C].nodes
      BY <1>2, <1>3, <3>1, <3>2 DEF IInv, Subs, Holding
    <3>4. QED
      BY <2>1, <3>1, <3>3 DEF NewSound
  <2>4. CASE v \notin ir.ops \union ir.nested
    BY <1>7, <2>1, <2>4
  <2>5. QED
    BY <2>2, <2>3, <2>4
<1>10. \A v \in S, u \in Node \ S : ir.operands[v][u] = 0
  BY <1>3, <1>8 DEF NewSound
<1>11. PICK F : F = Edges(ir.operands, S)
  OBVIOUS
<1>12. /\ F \in Graphs /\ EdgesMirrored(F) /\ SimpleEdges(F) /\ F.members = S /\ Acyclic(F)
       /\ \A x \in S : \A y : /\ y \in Succs(F, x) <=> y \in S /\ ir.operands[y][x] > 0
                              /\ y \in Preds(F, x) <=> y \in S /\ ir.operands[x][y] > 0
  BY <1>3, <1>4, <1>8, <1>11, EdgesGraph DEF NewSound
<1>13. PICK h : h = [g' EXCEPT !.members = S]
  OBVIOUS
<1>14. h.members = S /\ h.successors = g'.successors /\ h.predecessors = g'.predecessors
  <2>1. g' \in Graphs
    BY ExportedLists
  <2>2. QED
    BY <1>13, <2>1 DEF Graphs
<1>15. \A u \in S, v \in Node : /\ h.successors[u][v] = ir.operands[v][u]
                                /\ h.predecessors[u][v] = ir.operands[u][v]
  BY <1>1, <1>4, <1>14
<1>16. EdgesMirrored(h)
  BY <1>4, <1>9, <1>10, <1>14, <1>15 DEF EdgesMirrored
<1>17. ASSUME NEW x \in S PROVE Succs(h, x) = Succs(F, x)
  <2>1. \A y : y \in Succs(h, x) <=> y \in Node /\ ir.operands[y][x] > 0
    BY <1>15 DEF Succs
  <2>2. \A y \in Node \ S : ~(ir.operands[y][x] > 0)
    BY <1>9
  <2>3. \A y : y \in Succs(h, x) <=> y \in Succs(F, x)
    BY <1>4, <1>12, <2>1, <2>2
  <2>4. Succs(h, x) \subseteq Succs(F, x) /\ Succs(F, x) \subseteq Succs(h, x)
    BY <2>3
  <2>5. QED
    BY <2>4
<1>18. Paths(h) = Paths(F)
  BY <1>12, <1>14, <1>17, SamePaths
<1>19. ASSUME NEW u \in S PROVE \E s \in sub'[B].sources : <<s, u>> \in Paths(h)
  <2> DEFINE X == {p \in S : <<p, u>> \in Paths(F)}
  <2>1. X \subseteq F.members /\ u \in X /\ X # {}
    BY <1>12, PathsReflexive
  <2>2. PICK x \in X : \A p \in X : <<p, x>> \in Paths(F) => p = x
    <3> HIDE DEF X
    <3>1. F \in Graphs /\ EdgesMirrored(F) /\ SimpleEdges(F) /\ Acyclic(F)
      BY <1>12
    <3>2. QED
      BY <2>1, <3>1, FirstAndLast
  <2>3. ASSUME NEW p \in Operands(ir, x) PROVE FALSE
    <3>1. p \in Node /\ ir.operands[x][p] > 0 /\ x \in S
      BY <2>2, <2>3 DEF Operands
    <3>2. p \in S
      BY <1>10, <3>1
    <3>3. x \in Succs(F, p)
      BY <1>12, <3>1, <3>2
    <3>4. <<p, x>> \in Paths(F) /\ p # x
      BY <1>12, <3>2, <3>3, EdgesArePaths, NoWayBack
    <3>5. <<p, u>> \in Paths(F)
      BY <1>12, <2>2, <3>4, PathsTransitive
    <3>6. QED
      BY <2>2, <3>2, <3>4, <3>5
  <2>4. x \in sub'[B].sources
    BY <1>6, <2>2, <2>3
  <2>5. QED
    BY <1>18, <2>2, <2>4
<1>20. ASSUME NEW u \in S PROVE \E t \in sub'[B].sinks : <<u, t>> \in Paths(h)
  <2> DEFINE X == {t \in S : <<u, t>> \in Paths(F)}
  <2>1. X \subseteq F.members /\ u \in X /\ X # {}
    BY <1>12, PathsReflexive
  <2>2. PICK x \in X : \A t \in X : <<x, t>> \in Paths(F) => t = x
    <3> HIDE DEF X
    <3>1. F \in Graphs /\ EdgesMirrored(F) /\ SimpleEdges(F) /\ Acyclic(F)
      BY <1>12
    <3>2. QED
      BY <2>1, <3>1, FirstAndLast
  <2>3. ASSUME NEW t \in S, ir.operands[t][x] # 0 PROVE FALSE
    <3>1. x \in S /\ ir.operands[t][x] > 0
      BY <1>4, <1>7, <2>2, <2>3
    <3>2. t \in Succs(F, x)
      BY <1>12, <3>1
    <3>3. <<x, t>> \in Paths(F) /\ x # t
      BY <1>12, <3>1, <3>2, EdgesArePaths, NoWayBack
    <3>4. <<u, t>> \in Paths(F)
      BY <1>12, <2>2, <3>3, PathsTransitive
    <3>5. QED
      BY <2>2, <3>3, <3>4
  <2>4. x \in sub'[B].sinks
    BY <1>6, <2>2, <2>3
  <2>5. QED
    BY <1>18, <2>2, <2>4
<1>21. ASSUME NEW s \in sub'[B].sources PROVE Preds(g', s) = {}
  <2>1. s \in S /\ Operands(ir, s) = {}
    BY <1>6
  <2>2. \A p \in Node : ~(ir.operands[s][p] > 0)
    BY <2>1 DEF Operands
  <2>3. QED
    BY <1>14, <1>15, <2>1, <2>2 DEF Preds
<1>22. QED
  BY <1>6, <1>13, <1>16, <1>19, <1>20, <1>21 DEF OldSound

(* The others keep the lists they had. *)
LEMMA ExportedOld ==
  ASSUME IInv, Export, NEW B \in Batches \ NewBatches
  PROVE  OldSound(B)'
<1>1. /\ stage = "done"
      /\ ir.ops \subseteq Node /\ ir.nested \subseteq Node
      /\ g' \in Graphs
      /\ \A u, v \in Node :
           /\ g'.successors[u][v] = IF u \in ir.ops \union ir.nested THEN ir.operands[v][u]
                                                                     ELSE g.successors[u][v]
           /\ g'.predecessors[u][v] = IF u \in ir.ops \union ir.nested THEN ir.operands[u][v]
                                                                       ELSE g.predecessors[u][v]
      /\ \A u \in Node : u \notin NewBatches => sub'[u] = sub[u]
  BY ExportedLists
<1>2. B \in Node /\ B \notin NewBatches /\ sub'[B] = sub[B]
  BY <1>1 DEF Batches
<1>3. PICK S : S = sub[B].nodes
  OBVIOUS
<1>4. /\ g \in Graphs /\ S \subseteq Node /\ sub[B].sources \subseteq Node
  BY <1>2, <1>3 DEF IInv, TypeOK
<1>5. S \intersect ir.ops = {}
  BY <1>1, <1>3 DEF IInv, Holding, Present
<1>6. S \intersect ir.nested = {}
  <2>1. \A C \in NewBatches : C \in Batches /\ C # B
    BY <1>1, <1>2 DEF Batches, NewBatches
  <2>2. \A C \in NewBatches : S \intersect sub[C].nodes = {}
    BY <1>3, <2>1 DEF IInv, Holding
  <2>3. QED
    BY <2>2 DEF IInv, Holding
<1>7. OldSound(B)
  BY DEF IInv, Subs
<1>8. PICK G, H : G = [g EXCEPT !.members = S] /\ H = [g' EXCEPT !.members = S]
  OBVIOUS
<1>9. /\ G.members = S /\ G.successors = g.successors /\ G.predecessors = g.predecessors
      /\ H.members = S /\ H.successors = g'.successors /\ H.predecessors = g'.predecessors
  BY <1>1, <1>4, <1>8 DEF Graphs
<1>10. /\ EdgesMirrored(G)
       /\ \A u \in S : /\ \E s \in sub[B].sources : <<s, u>> \in Paths(G)
                       /\ \E t \in sub[B].sinks : <<u, t>> \in Paths(G)
       /\ sub[B].sources \subseteq S
       /\ \A s \in sub[B].sources : Preds(g, s) = {}
  BY <1>3, <1>7, <1>8 DEF OldSound
<1>11. \A u \in S, v \in Node : /\ H.successors[u][v] = G.successors[u][v]
                                /\ H.predecessors[u][v] = G.predecessors[u][v]
  BY <1>1, <1>4, <1>5, <1>6, <1>9
<1>12. EdgesMirrored(H)
  BY <1>4, <1>9, <1>10, <1>11 DEF EdgesMirrored
<1>13. \A u \in S : Succs(H, u) = Succs(G, u)
  BY <1>11 DEF Succs
<1>14. Paths(H) = Paths(G)
  BY <1>9, <1>13, SamePaths
<1>15. ASSUME NEW s \in sub[B].sources PROVE Preds(g', s) = {}
  <2>1. s \in Node /\ \A p \in Node : ~(g.predecessors[s][p] > 0)
    BY <1>4, <1>10 DEF Preds
  <2>2. s \in S
    BY <1>10
  <2>3. QED
    BY <1>9, <1>11, <2>1, <2>2 DEF Preds
<1>16. QED
  BY <1>2, <1>3, <1>8, <1>10, <1>12, <1>14, <1>15 DEF OldSound

LEMMA ExportIInv ==
  ASSUME IInv, Export
  PROVE  IInv'
<1>1. /\ stage = "done" /\ stage' = "idle" /\ todo' = todo /\ cur' = cur /\ dead' = dead
      /\ group' = group /\ holds' = holds /\ dead = {}
      /\ plan' = Tail(plan) /\ plan # <<>>
      /\ ir.ops \subseteq Node /\ ir.nested \subseteq Node
      /\ g' \in Graphs /\ g'.members = ir.ops
      /\ ir' = NoOps(cmd') /\ cmd' \in [Node -> CommandType]
      /\ \A u \in Node : /\ cmd'[u].type = cmd[u].type /\ cmd'[u].dev = ir.attr[u].dev
                         /\ cmd[u].type = "copy" => cmd'[u].copy.dim # 0
                         /\ cmd[u].type # "copy" => cmd'[u].copy.dim = 0
      /\ sub' \in [Node -> [nodes : SUBSET Node, sources : SUBSET Node, sinks : SUBSET Node]]
      /\ \A u \in Node : sub'[u].nodes = sub[u].nodes
  BY ExportedLists
<1>2. ir'.ops = {} /\ ir'.nested = {} /\ ir'.attr = cmd' /\ ir' \in Blocks
  BY <1>1 DEF NoOps, NoEdge, Blocks, Lists
<1>3. NewBatches' = {} /\ Batches' = Batches /\ Batches \subseteq Node
  BY <1>1, <1>2 DEF NewBatches, Batches
<1>4. Nested' = Nested
  <2>1. \A B \in Batches : sub'[B].nodes = sub[B].nodes
    BY <1>1, <1>3
  <2>2. QED
    BY <1>3, <2>1 DEF Nested
<1>5. Present = ir.ops /\ Present' = ir.ops
  BY <1>1 DEF Present
<1>6. TypeOK'
  <2>1. plan' \in Seq(Passes)
    BY <1>1 DEF IInv, TypeOK
  <2>2. QED
    BY <1>1, <1>2, <2>1 DEF IInv, TypeOK
<1>7. Labels'
  BY <1>1, <1>2 DEF IInv, Labels
<1>8. AtRest'
  BY <1>1, ExportedGraph DEF AtRest
<1>9. Holding'
  <2>1. \A B \in Node : sub'[B].nodes # {} <=> B \in Batch /\ holds'[B] # {}
    BY <1>1 DEF IInv, Holding
  <2>2. \A u \in Present' \union Nested' : holds'[u] # {}
    BY <1>1, <1>4, <1>5 DEF IInv, Holding
  <2>3. \A B \in Batches' : sub'[B].nodes \intersect Present' = {}
    BY <1>1, <1>3, <1>5 DEF IInv, Holding
  <2>4. \A B, C \in Batches' : B # C => sub'[B].nodes \intersect sub'[C].nodes = {}
    BY <1>1, <1>3 DEF IInv, Holding
  <2>5. ir'.nested = UNION {sub'[B].nodes : B \in NewBatches'}
    BY <1>2, <1>3
  <2>6. QED
    BY <2>1, <2>2, <2>3, <2>4, <2>5 DEF Holding
<1>10. Subs'
  <2>1. SUFFICES ASSUME NEW B \in Batches PROVE OneDevice(B)' /\ OldSound(B)'
    BY <1>3 DEF Subs
  <2>2. OneDevice(B)'
    <3>1. PICK S : S = sub[B].nodes
      OBVIOUS
    <3>2. B \in Node /\ S \subseteq Node /\ sub'[B].nodes = S
      BY <1>1, <1>3, <3>1 DEF IInv, TypeOK
    <3>3. Cardinality({u \in S : cmd[u].type # "none"}) >= 2 /\ \A u \in S : ir.attr[u].dev = ir.attr[B].dev
      BY <3>1 DEF IInv, Subs, OneDevice
    <3>4. {u \in S : cmd'[u].type # "none"} = {u \in S : cmd[u].type # "none"}
      BY <1>1, <3>2
    <3>5. \A u \in S : ir'.attr[u].dev = ir'.attr[B].dev
      BY <1>1, <1>2, <3>2, <3>3
    <3>6. Cardinality({u \in sub'[B].nodes : cmd'[u].type # "none"}) >= 2
      BY <3>2, <3>3, <3>4
    <3>7. QED
      BY <3>2, <3>5, <3>6 DEF OneDevice
  <2>3. OldSound(B)'
    BY ExportedNew, ExportedOld
  <2>4. QED
    BY <2>2, <2>3
<1>11. Running' /\ Groups' /\ Rows' /\ EdgesReduced'
  BY <1>1 DEF Running, Groups, Rows, EdgesReduced
<1>12. QED
  BY <1>6, <1>7, <1>8, <1>9, <1>10, <1>11 DEF IInv

(* A step of nobody. *)
LEMMA StutterIInv == IInv /\ UNCHANGED vars => IInv'
<1> SUFFICES ASSUME IInv, UNCHANGED vars PROVE IInv'
  OBVIOUS
<1>1. /\ g' = g /\ cmd' = cmd /\ sub' = sub /\ ir' = ir /\ stage' = stage /\ todo' = todo /\ cur' = cur
      /\ dead' = dead /\ matrix' = matrix /\ group' = group /\ plan' = plan /\ holds' = holds
  BY DEF vars, pod, work
<1>2. /\ Batches' = Batches /\ Nested' = Nested /\ NewBatches' = NewBatches /\ Present' = Present
      /\ Top' = Top /\ Grown' = Grown /\ Alive' = Alive /\ Size' = Size
  BY <1>1 DEF Batches, Nested, NewBatches, Present, Top, Grown, Alive, Size
<1>3. Block' = Block /\ Part' = Part
  BY <1>1, <1>2 DEF Block, Part
<1>4. TypeOK' /\ Labels' /\ AtRest' /\ Running' /\ Holding'
  <2>1. TypeOK'
    BY <1>1 DEF IInv, TypeOK
  <2>2. Labels'
    BY <1>1, <1>2 DEF IInv, Labels
  <2>3. AtRest'
    BY <1>1 DEF IInv, AtRest
  <2>4. Running'
    BY <1>1, <1>2, <1>3 DEF IInv, Running
  <2>5. Holding'
    BY <1>1, <1>2 DEF IInv, Holding
  <2>6. QED
    BY <2>1, <2>2, <2>3, <2>4, <2>5
<1>5. Subs'
  <2>1. SUFFICES ASSUME NEW B \in Batches
                 PROVE  OneDevice(B)' /\ IF B \in NewBatches THEN NewSound(B)' ELSE OldSound(B)'
    BY <1>2 DEF Subs
  <2>2. OneDevice(B) /\ IF B \in NewBatches THEN NewSound(B) ELSE OldSound(B)
    BY DEF IInv, Subs
  <2>3. OneDevice(B)'
    BY <1>1, <2>2 DEF OneDevice
  <2>4. NewSound(B) => NewSound(B)'
    BY <1>1 DEF NewSound
  <2>5. OldSound(B) => OldSound(B)'
    BY <1>1 DEF OldSound
  <2>6. QED
    BY <2>2, <2>3, <2>4, <2>5
<1>6. Groups'
  BY <1>1, <1>2, <1>3 DEF IInv, Groups
<1>7. Rows'
  BY <1>1, <1>2, <1>3 DEF IInv, Rows, Reached, Index
<1>8. EdgesReduced'
  BY ZenonT(60), <1>1, <1>2 DEF IInv, EdgesReduced, Implied, Users
<1>9. QED
  BY <1>4, <1>5, <1>6, <1>7, <1>8 DEF IInv

LEMMA NextIInv == IInv /\ [Next]_vars => IInv'
<1> SUFFICES ASSUME IInv, [Next]_vars PROVE IInv'
  OBVIOUS
<1>1. CASE Import \/ Export \/ PassReturns
  BY <1>1, ImportIInv, ExportIInv, PassReturnsIInv
<1>2. CASE EraseEdges \/ NormalizeCopies \/ EraseDead \/ BatchReturns
  BY <1>2, EraseEdgesIInv, NormalizeCopiesIInv, EraseDeadIInv, BatchReturnsIInv
<1>3. CASE \E u \in Node : KeepNode(u) \/ LeaveCopy(u) \/ LeaveProg(u) \/ LeaveGroup(u)
  BY <1>3, LeaveIInv
<1>4. CASE \E u \in Node : DropNode(u) \/ Accumulate(u)
  BY <1>4, DropNodeIInv, AccumulateIInv
<1>5. CASE \E u \in Node, v \in Node : \/ FuseCopies(u, v) \/ FuseProgs(u, v)
                                       \/ MergeGroups(u, v) \/ Materialize(u, v)
  BY <1>5, FuseCopiesIInv, FuseProgsIInv, MergeGroupsIInv, MaterializeIInv
<1>6. CASE UNCHANGED vars
  BY <1>6, StutterIInv
<1>7. QED
  BY <1>1, <1>2, <1>3, <1>4, <1>5, <1>6 DEF Next, Finished
-----------------------------------------------------------------------------
(* The invariant of the MLIR passes: all the parts above hold at every step of optimize(). *)
THEOREM MlirInvariant == Spec => []IInv
<1>1. Init => IInv
  BY InitIInv
<1>2. IInv /\ [Next]_vars => IInv'
  BY NextIInv
<1>3. QED
  BY <1>1, <1>2, PTL DEF Spec

(***************************************************************************)
(* After reduce-edge, no edge is implied by the others: the rows of the    *)
(* bit matrix are all that each operation leads to.                        *)
(***************************************************************************)
THEOREM EdgesStayReduced == Spec => []EdgesReduced
<1>1. IInv => EdgesReduced
  BY DEF IInv
<1>2. QED
  BY <1>1, MlirInvariant, PTL

(***************************************************************************)
(* The batches, between the calls: no node is in two places, each batch    *)
(* runs at least two commands on one device, and the lists inside it link  *)
(* its nodes to each other only, between its entry and its exit.           *)
(***************************************************************************)
THEOREM BatchesStaySound == Spec => []BatchesSound
<1>1. IInv => BatchesSound
  <2>1. SUFFICES ASSUME IInv, stage = "idle", NEW B \in Batches PROVE BatchSound(B)
    BY DEF BatchesSound
  <2>2. NewBatches = {} /\ ir.attr = cmd /\ Present = g.members
    BY <2>1 DEF IInv, AtRest, NewBatches, NoOps, Present
  <2>3. OneDevice(B) /\ OldSound(B)
    BY <2>1, <2>2 DEF IInv, Subs
  <2>4. sub[B].nodes \intersect (g.members \union UNION {sub[C].nodes : C \in Batches \ {B}}) = {}
    BY <2>1, <2>2 DEF IInv, Holding
  <2>5. /\ Cardinality({u \in sub[B].nodes : cmd[u].type # "none"}) >= 2
        /\ \A u \in sub[B].nodes : cmd[u].dev = cmd[B].dev
    BY <2>2, <2>3 DEF OneDevice
  <2>6. QED
    BY <2>3, <2>4, <2>5 DEF BatchSound, OldSound
<1>2. QED
  BY <1>1, MlirInvariant, PTL

(* Between two calls. *)
LEMMA RestWellFormed == IInv /\ stage = "idle" => WellFormed
<1> SUFFICES ASSUME IInv, stage = "idle" PROVE WellFormed
  OBVIOUS
<1>1. /\ g \in Graphs /\ EdgesMirrored(g) /\ Acyclic(g) /\ Framed(g)
      /\ \A u \in g.members \ Batch, v \in Node : g.successors[u][v] <= 1
  BY DEF IInv, TypeOK, AtRest
<1>2. Coherent(g) /\ After(g, entry) = g.members /\ g.members \subseteq Node
  BY <1>1, ListsOfGraph DEF Graphs
<1>3. Unlisted(g, g.members) = {}
  <2>1. \A v \in g.members : Preds(g, v) \subseteq g.members
    BY <1>1, <1>2 DEF EdgesMirrored, Preds
  <2>2. QED
    BY <2>1 DEF Unlisted
<1>4. \A u \in g.members : u \in Batch => u \in Batches
  BY <1>2 DEF IInv, Holding, Present, Batches
<1>5. \A u \in g.members \ Batches, v \in Node : g.successors[u][v] <= 1
  BY <1>1, <1>4
<1>6. QED
  BY <1>1, <1>2, <1>3, <1>5 DEF WellFormed, IInv

(* While a pass runs, the graph is left alone. *)
LEMMA GraphLeftAlone ==
  ASSUME IInv, [Next]_vars
  PROVE  \/ stage' = "idle"
         \/ g' = g /\ Batches \subseteq Batches'
<1>1. CASE Export
  BY <1>1 DEF Export
<1>2. CASE \E i, B \in Node : Materialize(i, B)
  <2>1. PICK i \in Node, B \in Node : Materialize(i, B)
    BY <1>2
  <2>2. Making(i, B, group[i])
    BY <2>1, Contracting
  <2>3. \A C : C \in Batches' <=> C \in Batches \/ C = B
    BY <2>2, MadeNames
  <2>4. QED
    BY <2>2, <2>3 DEF Making
<1>3. CASE UNCHANGED pod
  BY <1>3 DEF pod, Batches
<1>4. Export \/ (\E i, B \in Node : Materialize(i, B)) \/ UNCHANGED pod
  BY DEF Next, Finished, vars, Import, PassReturns, EraseEdges, NormalizeCopies, EraseDead, BatchReturns,
         KeepNode, DropNode, Accumulate, LeaveCopy, LeaveProg, LeaveGroup, FuseCopies, FuseProgs, MergeGroups
<1>5. QED
  BY <1>1, <1>2, <1>3, <1>4

SoundAtRest == stage = "idle" => WellFormed

(***************************************************************************)
(* An export leaves what the next import reads as it was meant: lists that *)
(* match, of a DAG all of which a walk from the entry finds.               *)
(***************************************************************************)
THEOREM GraphStaysWellFormed == Spec => []WellFormed
<1>1. Init /\ SoundAtRest => WellFormed
  BY DEF Init, SoundAtRest
<1>2. IInv => SoundAtRest
  BY RestWellFormed DEF SoundAtRest
<1>3. WellFormed /\ IInv /\ IInv' /\ [Next]_vars /\ SoundAtRest' => WellFormed'
  <2> SUFFICES ASSUME WellFormed, IInv, IInv', [Next]_vars, SoundAtRest' PROVE WellFormed'
    OBVIOUS
  <2>1. CASE stage' = "idle"
    BY <2>1 DEF SoundAtRest
  <2>2. CASE g' = g /\ Batches \subseteq Batches'
    <3>1. TypeOK'
      BY DEF IInv
    <3>2. QED
      BY <2>2, <3>1 DEF WellFormed
  <2>3. QED
    BY <2>1, <2>2, GraphLeftAlone
<1>4. QED
  BY <1>1, <1>2, <1>3, MlirInvariant, PTL DEF Spec
-----------------------------------------------------------------------------
(* Termination: what the passes have left to do. *)
Calls == 2 * Len(plan) + IF stage = "idle" THEN 1 ELSE 0
Steps == Cardinality(todo) + Cardinality(Alive) + Cardinality(Top)
           + IF stage \in Passes THEN 1 ELSE 0

LEMMA Fewer ==
  ASSUME NEW A \in SUBSET Node, NEW B, B \subseteq A
  PROVE  /\ Cardinality(A) \in Nat /\ Cardinality(B) \in Nat /\ Cardinality(B) <= Cardinality(A)
         /\ A # B => Cardinality(B) < Cardinality(A)
<1>1. IsFiniteSet(A)
  BY NodeFacts, FS_Subset
<1>2. QED
  BY <1>1, FS_Subset, FS_CardinalityType

LEMMA LeftIs ==
  ASSUME TypeOK, TypeOK'
  PROVE  /\ Calls \in Nat /\ Steps \in 0 .. 3 * Cardinality(Node) + 1
         /\ Left = Calls * (3 * Cardinality(Node) + 2) + Steps
         /\ Calls' \in Nat /\ Steps' \in 0 .. 3 * Cardinality(Node) + 1
         /\ Left' = Calls' * (3 * Cardinality(Node) + 2) + Steps'
<1>1. \A A \in SUBSET Node : Cardinality(A) \in 0 .. Cardinality(Node)
  BY Fewer
<1>2. Cardinality(Node) \in Nat
  BY Fewer
<1>3. /\ todo \subseteq Node /\ Alive \subseteq Node /\ Top \subseteq Node /\ Len(plan) \in Nat
      /\ todo' \subseteq Node /\ Alive' \subseteq Node /\ Top' \subseteq Node /\ Len(plan') \in Nat
  BY DEF TypeOK, Alive, Top, Blocks
<1>4. /\ Cardinality(todo) \in 0 .. Cardinality(Node) /\ Cardinality(todo') \in 0 .. Cardinality(Node)
      /\ Cardinality(Alive) \in 0 .. Cardinality(Node) /\ Cardinality(Alive') \in 0 .. Cardinality(Node)
      /\ Cardinality(Top) \in 0 .. Cardinality(Node) /\ Cardinality(Top') \in 0 .. Cardinality(Node)
  BY <1>1, <1>3
<1>5. Calls \in Nat /\ Calls' \in Nat
  BY <1>3 DEF Calls
<1>6. /\ Steps \in 0 .. 3 * Cardinality(Node) + 1
      /\ Steps' \in 0 .. 3 * Cardinality(Node) + 1
  BY <1>2, <1>4 DEF Steps
<1>7. QED
  BY <1>5, <1>6 DEF Left, Calls, Steps, Top

(* A call that starts or returns outweighs whatever a pass has to do. *)
LEMMA CallFalls ==
  ASSUME TypeOK, TypeOK', Calls' = Calls - 1
  PROVE  Left' < Left
<1>1. PICK n \in Nat : n = Cardinality(Node)
  BY Fewer
<1>2. PICK c \in Nat, s \in Nat, t \in Nat : c = Calls' /\ s = Steps /\ t = Steps'
  BY LeftIs, <1>1
<1>3. Calls = c + 1
  BY <1>2, LeftIs
<1>4. Left = (c + 1) * (3 * n + 2) + s /\ Left' = c * (3 * n + 2) + t /\ t <= 3 * n + 1
  BY <1>1, <1>2, <1>3, LeftIs
<1>5. (c + 1) * (3 * n + 2) = c * (3 * n + 2) + (3 * n + 2) /\ c * (3 * n + 2) \in Nat
  OBVIOUS
<1>6. QED
  BY <1>4, <1>5

(* A step of a pass visits a candidate, joins two groups, gives an operation up, or is its last. *)
LEMMA StepFalls ==
  ASSUME TypeOK, TypeOK', plan' = plan, stage \in Passes, stage' \in {stage, "done"},
         todo' \subseteq todo, Alive' \subseteq Alive, Cardinality(Top') <= Cardinality(Top),
         \/ stage' # stage \/ todo' # todo \/ Alive' # Alive
         \/ Cardinality(Top') < Cardinality(Top)
  PROVE  Left' < Left
<1>1. todo \in SUBSET Node /\ Alive \in SUBSET Node /\ Top \in SUBSET Node /\ Top' \in SUBSET Node
  BY DEF TypeOK, Alive, Top, Blocks
<1>2. /\ Cardinality(todo) \in Nat /\ Cardinality(todo') \in Nat
      /\ Cardinality(todo') <= Cardinality(todo)
      /\ todo' # todo => Cardinality(todo') < Cardinality(todo)
  BY <1>1, Fewer
<1>3. /\ Cardinality(Alive) \in Nat /\ Cardinality(Alive') \in Nat
      /\ Cardinality(Alive') <= Cardinality(Alive)
      /\ Alive' # Alive => Cardinality(Alive') < Cardinality(Alive)
  BY <1>1, Fewer
<1>4. Cardinality(Top) \in Nat /\ Cardinality(Top') \in Nat
  BY <1>1, Fewer
<1>5. Calls' = Calls
  BY DEF Calls, Passes
<1>6. Steps' < Steps
  <2>1. CASE stage' = stage
    BY <2>1, <1>2, <1>3, <1>4 DEF Steps
  <2>2. CASE stage' = "done" /\ stage' # stage
    <3>1. stage' \notin Passes
      BY <2>2 DEF Passes
    <3>2. QED
      BY <3>1, <1>2, <1>3, <1>4 DEF Steps
  <2>3. QED
    BY <2>1, <2>2
<1>7. QED
  <2>1. PICK k \in Int : k = Calls * (3 * Cardinality(Node) + 2)
    BY LeftIs, Fewer
  <2>2. Left = k + Steps /\ Left' = k + Steps'
    BY <2>1, <1>5, LeftIs
  <2>3. QED
    BY <2>2, <1>6, LeftIs, Fewer

LEMMA TopFalls ==
  ASSUME TypeOK, TypeOK', Top' \subseteq Top
  PROVE  /\ Cardinality(Top') <= Cardinality(Top)
         /\ Top' # Top => Cardinality(Top') < Cardinality(Top)
<1>1. Top \in SUBSET Node
  BY DEF TypeOK, Top, Blocks
<1>2. QED
  BY <1>1, Fewer
LEMMA CallsEnd ==
  ASSUME IInv, IInv', Import \/ Export
  PROVE  Left' < Left
<1>1. TypeOK /\ TypeOK' /\ plan \in Seq(Passes) /\ Len(plan) \in Nat
  BY DEF IInv, TypeOK
<1>2. Calls' = Calls - 1
  <2>1. CASE Import
    <3>1. stage = "idle" /\ plan' = plan /\ plan # <<>> /\ stage' = Head(plan)
      BY <2>1 DEF Import, pod
    <3>2. stage' # "idle"
      BY <1>1, <3>1 DEF Passes
    <3>3. QED
      BY <1>1, <3>1, <3>2 DEF Calls
  <2>2. CASE Export
    <3>1. stage = "done" /\ stage' = "idle" /\ plan' = Tail(plan) /\ plan # <<>>
      BY <2>2 DEF Export, IInv, Running
    <3>2. Len(plan') = Len(plan) - 1
      BY <1>1, <3>1
    <3>3. QED
      BY <1>1, <3>1, <3>2 DEF Calls
  <2>3. QED
    BY <2>1, <2>2
<1>3. QED
  BY <1>1, <1>2, CallFalls

(* The last step of a pass. *)
LEMMA ReturnsFall ==
  ASSUME IInv, IInv', PassReturns \/ EraseEdges \/ NormalizeCopies \/ EraseDead \/ BatchReturns
  PROVE  Left' < Left
<1>1. TypeOK /\ TypeOK'
  BY DEF IInv
<1>2. plan' = plan /\ stage \in Passes /\ stage' = "done" /\ stage' # stage
  BY DEF PassReturns, EraseEdges, NormalizeCopies, EraseDead, BatchReturns, pod, Passes
<1>3. todo' \subseteq todo
  BY DEF PassReturns, EraseEdges, NormalizeCopies, EraseDead, BatchReturns, work
<1>4. Alive' \subseteq Alive
  <2>1. group' = group \/ group' = NoGroups
    BY DEF PassReturns, EraseEdges, NormalizeCopies, EraseDead, BatchReturns, work
  <2>2. QED
    BY <2>1 DEF Alive, NoGroups
<1>5. Top' \subseteq Top
  <2>1. CASE EraseDead
    BY <2>1 DEF EraseDead, EraseOps, Top
  <2>2. CASE PassReturns \/ EraseEdges \/ NormalizeCopies \/ BatchReturns
    <3>1. dead' = dead
      BY <2>2 DEF PassReturns, EraseEdges, NormalizeCopies, BatchReturns, work
    <3>2. ir'.ops = ir.ops
      <4>1. ir' = ir \/ (\E o : ir' = [ir EXCEPT !.operands = o]) \/ (\E o : ir' = [ir EXCEPT !.attr = o])
        BY <2>2 DEF PassReturns, EraseEdges, NormalizeCopies, BatchReturns
      <4>2. ir \in Blocks
        BY <1>1 DEF TypeOK
      <4>3. QED
        BY <4>1, <4>2 DEF Blocks
    <3>3. QED
      BY <3>1, <3>2 DEF Top
  <2>3. QED
    BY <2>1, <2>2
<1>6. QED
  BY <1>1, <1>2, <1>3, <1>4, <1>5, TopFalls, StepFalls

(* A candidate is visited. *)
LEMMA VisitFalls ==
  ASSUME IInv, IInv', NEW u \in Node,
         KeepNode(u) \/ DropNode(u) \/ Accumulate(u) \/ LeaveCopy(u) \/ LeaveProg(u) \/ LeaveGroup(u)
  PROVE  Left' < Left
<1>1. TypeOK /\ TypeOK'
  BY DEF IInv
<1>2. plan' = plan /\ stage \in Passes /\ stage' = stage /\ u \in todo /\ todo' = todo \ {u}
  BY DEF KeepNode, DropNode, Accumulate, LeaveCopy, LeaveProg, LeaveGroup, pod, Passes
<1>3. Alive' = Alive /\ dead' = dead
  BY DEF KeepNode, DropNode, Accumulate, LeaveCopy, LeaveProg, LeaveGroup, Alive
<1>4. ir'.ops \subseteq ir.ops
  <2>1. CASE DropNode(u)
    <3>1. PICK o : Splice(u) = EraseOps([ir EXCEPT !.operands = o], {u})
      BY DEF Splice
    <3>2. PICK l : EraseOps([ir EXCEPT !.operands = o], {u})
                     = [[ir EXCEPT !.operands = o] EXCEPT !.ops = [ir EXCEPT !.operands = o].ops \ {u},
                                                          !.operands = l]
      BY DEF EraseOps
    <3>3. ir'.ops = ir.ops \ {u}
      BY <2>1, <3>1, <3>2, <1>1 DEF DropNode, TypeOK, Blocks
    <3>4. QED
      BY <3>3
  <2>2. CASE ~DropNode(u)
    BY <2>2 DEF KeepNode, Accumulate, LeaveCopy, LeaveProg, LeaveGroup
  <2>3. QED
    BY <2>1, <2>2
<1>5. Top' \subseteq Top
  BY <1>3, <1>4 DEF Top
<1>6. QED
  BY <1>1, <1>2, <1>3, <1>5, TopFalls, StepFalls

(* Two operations become one. *)
LEMMA FusionFalls ==
  ASSUME IInv, IInv', NEW u \in Node, NEW v \in Node, FuseCopies(u, v) \/ FuseProgs(u, v)
  PROVE  Left' < Left
<1>1. TypeOK /\ TypeOK' /\ ir \in Blocks
  BY DEF IInv, TypeOK
<1>2. plan' = plan /\ stage \in Passes /\ stage' = stage /\ todo' = todo \ {v}
  BY DEF FuseCopies, FuseProgs, pod, Passes
<1>3. Alive' = Alive
  BY DEF FuseCopies, FuseProgs, Alive
<1>4. Top' = Top \ {v} /\ v \in Top
  <2>1. CASE FuseCopies(u, v)
    <3>1. ir'.ops = ir.ops
      <4>1. PICK o : DropUses(ir, v) = [ir EXCEPT !.operands = o]
        BY DEF DropUses
      <4>2. PICK l : ir' = [DropUses(ir, v) EXCEPT !.attr = l]
        BY <2>1 DEF FuseCopies
      <4>3. QED
        BY <1>1, <4>1, <4>2 DEF Blocks
    <3>2. dead' = dead \union {v} /\ v \in ir.ops \ dead
      BY <2>1 DEF FuseCopies, Fusible
    <3>3. QED
      BY <3>1, <3>2 DEF Top
  <2>2. CASE FuseProgs(u, v)
    <3>1. v \in ir.ops /\ dead' = dead /\ stage = "prog-fuse"
      BY <2>2 DEF FuseProgs, Link, Users
    <3>2. dead = {}
      BY <3>1 DEF IInv, Running
    <3>3. PICK o : EraseOps(ir, {v}) = [ir EXCEPT !.ops = ir.ops \ {v}, !.operands = o]
      BY DEF EraseOps
    <3>4. PICK l : ir' = [EraseOps(ir, {v}) EXCEPT !.operands = l]
      BY <2>2 DEF FuseProgs, ReplaceUses
    <3>5. ir'.ops = ir.ops \ {v}
      BY <1>1, <3>3, <3>4 DEF Blocks
    <3>6. QED
      BY <3>1, <3>2, <3>5 DEF Top
  <2>3. QED
    BY <2>1, <2>2
<1>5. QED
  BY <1>1, <1>2, <1>3, <1>4, TopFalls, StepFalls

(* Two groups become one, and groups become batches: of two operations or more, one. *)
LEMMA GroupsFall ==
  ASSUME IInv, IInv', NEW i \in Node, NEW j \in Node, MergeGroups(i, j) \/ Materialize(i, j)
  PROVE  Left' < Left
<1>1. TypeOK /\ TypeOK' /\ ir \in Blocks /\ group \in [Node -> SUBSET Node]
  BY DEF IInv, TypeOK
<1>2. CASE MergeGroups(i, j)
  <2>1. /\ stage = "batch" /\ stage' = stage /\ plan' = plan /\ todo' \subseteq todo
        /\ Top' = Top /\ stage \in Passes
    BY <1>2 DEF MergeGroups, pod, Top, Passes
  <2>2. i # j /\ i \in Alive /\ j \in Alive
    BY <1>2 DEF MergeGroups, Mates, CanBatch
  <2>3. group' = [group EXCEPT ![i] = group[i] \union group[j], ![j] = {}]
    BY <1>2 DEF MergeGroups
  <2>4. Alive' = Alive \ {j}
    BY <1>1, <2>2, <2>3 DEF Alive
  <2>5. QED
    BY <1>1, <2>1, <2>2, <2>4, TopFalls, StepFalls
<1>3. CASE Materialize(i, j)
  <2>1. Making(i, j, group[i])
    BY <1>3, Contracting
  <2>2. /\ stage = "batch" /\ stage' = stage /\ plan' = plan /\ todo' = todo /\ stage \in Passes
        /\ group' = [group EXCEPT ![i] = {}] /\ i \in Alive
    BY <1>3, <2>1 DEF Making, Materialize, Passes
  <2>3. Alive' = Alive \ {i}
    BY <1>1, <2>2 DEF Alive
  <2>4. /\ dead' = {} /\ dead = {} /\ ir'.ops = (ir.ops \ group[i]) \union {j}
        /\ i \in ir.ops /\ i \in group[i] /\ j \notin ir.ops
    BY <2>1 DEF Making
  <2>5. Cardinality(Top') <= Cardinality(Top)
    <3>1. ir.ops \in SUBSET Node /\ IsFiniteSet(ir.ops) /\ IsFiniteSet(ir.ops \ {i})
      <4>1. ir.ops \in SUBSET Node
        BY <1>1 DEF Blocks
      <4>2. QED
        BY <4>1, NodeFacts, FS_Subset
    <3>2. /\ Cardinality(ir.ops \ {i}) = Cardinality(ir.ops) - 1
          /\ Cardinality((ir.ops \ {i}) \union {j}) = Cardinality(ir.ops \ {i}) + 1
      BY <2>4, <3>1, FS_RemoveElement, FS_AddElement
    <3>3. /\ ir'.ops \subseteq (ir.ops \ {i}) \union {j}
          /\ (ir.ops \ {i}) \union {j} \in SUBSET Node
      BY <2>4, <3>1
    <3>4. Cardinality(ir'.ops) <= Cardinality((ir.ops \ {i}) \union {j})
      BY <3>3, Fewer
    <3>5. Top' = ir'.ops /\ Top = ir.ops /\ Cardinality(ir.ops) \in Nat
      BY <2>4, <3>1, FS_CardinalityType DEF Top
    <3>6. QED
      BY <3>2, <3>4, <3>5
  <2>6. QED
    BY <1>1, <2>2, <2>3, <2>5, StepFalls
<1>4. QED
  BY <1>2, <1>3

(***************************************************************************)
(* Every call returns: the queue of batch that is refilled and the scans   *)
(* that start again leave less to do each time, and an import never asks   *)
(* for more than the call that it begins.                                  *)
(***************************************************************************)
THEOREM PassesReturn == Spec => PassesEnd
<1>1. ASSUME IInv, IInv', [Next]_vars PROVE [Left' < Left]_vars
  <2> SUFFICES ASSUME Next, vars' # vars PROVE Left' < Left
    BY <1>1
  <2> USE <1>1
  <2>1. CASE Import \/ Export
    BY <2>1, CallsEnd
  <2>2. CASE PassReturns \/ EraseEdges \/ NormalizeCopies \/ EraseDead \/ BatchReturns
    BY <2>2, ReturnsFall
  <2>3. CASE \E u \in Node : \/ KeepNode(u) \/ DropNode(u) \/ Accumulate(u)
                             \/ LeaveCopy(u) \/ LeaveProg(u) \/ LeaveGroup(u)
    BY <2>3, VisitFalls
  <2>4. CASE \E u \in Node, v \in Node : FuseCopies(u, v) \/ FuseProgs(u, v)
    BY <2>4, FusionFalls
  <2>5. CASE \E u \in Node, v \in Node : MergeGroups(u, v) \/ Materialize(u, v)
    BY <2>5, GroupsFall
  <2>6. QED
    BY <2>1, <2>2, <2>3, <2>4, <2>5 DEF Next, Finished
<1>2. QED
  BY <1>1, MlirInvariant, PTL DEF Spec, PassesEnd
-----------------------------------------------------------------------------
(* Bytes: where the copies are, and what they are now. *)
CopyNow(u) == IF stage # "idle" /\ u \in ir.ops \union ir.nested THEN ir.attr[u].copy ELSE cmd[u].copy
Carriers == TopNodes \union Nested

CopiesFit == \A u \in Node : Fits(cmd[u].copy) /\ Fits(ir.attr[u].copy)

LEMMA MovesIs ==
  /\ \A x : x \in Moves <=> \E u \in Carriers : x \in Transfers(CopyNow(u))
  /\ \A x : x \in Moves' <=> \E u \in Carriers' : x \in Transfers(CopyNow(u)')
BY DEF Moves, Carriers, CopyNow, TopNodes

(* The nodes that move something are the same, and move the same. *)
LEMMA MovesStay ==
  ASSUME \A u \in Carriers :
           Transfers(CopyNow(u)) = {} \/ (u \in Carriers' /\ Transfers(CopyNow(u)') = Transfers(CopyNow(u))),
         \A u \in Carriers' :
           Transfers(CopyNow(u)') = {} \/ (u \in Carriers /\ Transfers(CopyNow(u)') = Transfers(CopyNow(u)))
  PROVE  Moves' = Moves
<1>1. \A x : x \in Moves' <=> x \in Moves
  BY MovesIs
<1>2. (\A x : x \in Moves' <=> x \in Moves) => Moves' = Moves
  <2> DEFINE M == Moves
             N == Moves'
  <2> HIDE DEF M, N
  <2>1. (\A x : x \in N <=> x \in M) => N = M
    OBVIOUS
  <2>2. QED
    BY <2>1 DEF M, N
<1>3. QED
  BY <1>1, <1>2

LEMMA NothingMoved == \A c : c.dim = 0 => Transfers(c) = {}
BY DEF Transfers

(* A node in a batch is in no other place. *)
LEMMA InBatch ==
  ASSUME IInv, NEW u \in Nested
  PROVE  u \in Node /\ u \notin TopNodes /\ (stage # "idle" => u \notin ir.ops)
<1>1. PICK B \in Batches : u \in sub[B].nodes
  BY DEF Nested
<1>2. u \in Node /\ u \notin Present
  BY <1>1 DEF IInv, Holding, TypeOK, Batches
<1>3. QED
  BY <1>2 DEF Present, TopNodes

LEMMA ImportBytes ==
  ASSUME IInv, IInv', CopiesFit, Import
  PROVE  CopiesFit' /\ Moves' = Moves
<1>1. /\ stage = "idle" /\ ir'.ops = After(g, entry) /\ ir'.attr = cmd /\ cmd' = cmd /\ sub' = sub
      /\ dead' = dead /\ dead = {} /\ stage' # "idle"
  <2>1. stage = "idle" /\ cmd' = cmd /\ sub' = sub /\ dead' = dead /\ plan # <<>> /\ stage' = Head(plan)
    BY DEF Import, pod
  <2>2. PICK named : ir' = Imported(g, cmd, After(g, entry), named)
    BY DEF Import
  <2>3. ir'.ops = After(g, entry) /\ ir'.attr = cmd
    BY <2>2 DEF Imported
  <2>4. stage' # "idle"
    BY <2>1 DEF IInv, TypeOK, Passes
  <2>5. QED
    BY <2>1, <2>3, <2>4 DEF IInv, AtRest
<1>2. After(g, entry) = g.members
  BY <1>1, RestWellFormed DEF WellFormed
<1>3. Carriers' = Carriers
  BY <1>1, <1>2 DEF Carriers, TopNodes, Nested, Batches
<1>4. \A u : CopyNow(u)' = CopyNow(u)
  BY <1>1 DEF CopyNow
<1>5. Moves' = Moves
  BY <1>3, <1>4, MovesStay
<1>6. QED
  BY <1>1, <1>5 DEF CopiesFit

LEMMA ExportBytes ==
  ASSUME IInv, IInv', CopiesFit, Export
  PROVE  CopiesFit' /\ Moves' = Moves
<1>1. /\ stage = "done" /\ stage' = "idle" /\ g'.members = ir.ops /\ dead = {}
      /\ cmd' = WrittenBack(ir, cmd) /\ ir'.attr = WrittenBack(ir, cmd)
      /\ sub' = [u \in Node |-> IF u \in NewBatches THEN Linked(u) ELSE sub[u]]
  <2>1. /\ stage = "done" /\ stage' = "idle" /\ g' = Exported(ir, g) /\ ir' = NoOps(WrittenBack(ir, cmd))
        /\ cmd' = WrittenBack(ir, cmd)
        /\ sub' = [u \in Node |-> IF u \in NewBatches THEN Linked(u) ELSE sub[u]]
    BY SMTT(40) DEF Export
  <2>2. g'.members = ir.ops
    BY <2>1 DEF Exported, IInv, TypeOK, Graphs
  <2>3. dead = {}
    BY SMTT(40), <2>1 DEF IInv, Running
  <2>4. QED
    BY <2>1, <2>2, <2>3 DEF NoOps
<1>2. \A u \in Node : sub'[u].nodes = sub[u].nodes
  BY <1>1 DEF Linked, IInv, TypeOK
<1>3. \A u : u \in Carriers' <=> u \in Carriers
  BY <1>1, <1>2 DEF Carriers, TopNodes, Nested, Batches
<1>4. \A u \in Carriers : u \in Node
  BY InBatch DEF Carriers, TopNodes, IInv, TypeOK, Blocks, Graphs
<1>5. ASSUME NEW u \in Node
      PROVE  /\ Fits(cmd'[u].copy) /\ Fits(ir'.attr[u].copy)
             /\ Transfers(CopyNow(u)') = Transfers(CopyNow(u))
  <2>1. cmd'[u] = WrittenBack(ir, cmd)[u] /\ ir'.attr[u] = WrittenBack(ir, cmd)[u]
    BY <1>1
  <2>2. CopyNow(u)' = cmd'[u].copy
    BY <1>1 DEF CopyNow
  <2>3. CASE u \notin ir.ops \union ir.nested
    <3>1. WrittenBack(ir, cmd)[u] = cmd[u]
      BY <2>3 DEF WrittenBack
    <3>2. QED
      BY <1>1, <2>1, <2>2, <2>3, <3>1 DEF CopiesFit, CopyNow
  <2>4. CASE u \in ir.ops \union ir.nested
    <3>1. cmd[u] \in CommandType
      BY DEF IInv, TypeOK
    <3>2. WrittenBack(ir, cmd)[u].copy = IF cmd[u].type = "copy" THEN ir.attr[u].copy ELSE cmd[u].copy
      BY <2>4, <3>1 DEF WrittenBack, CommandType
    <3>3. CopyNow(u) = ir.attr[u].copy
      BY <1>1, <2>4 DEF CopyNow
    <3>4. CASE cmd[u].type = "copy"
      BY <2>1, <2>2, <3>2, <3>3, <3>4 DEF CopiesFit
    <3>5. CASE cmd[u].type # "copy"
      <4>1. cmd[u].copy.dim = 0 /\ ir.attr[u].copy.dim = 0
        BY <3>5 DEF IInv, Labels
      <4>2. QED
        BY <2>1, <2>2, <3>2, <3>3, <3>5, <4>1, NothingMoved DEF CopiesFit
    <3>6. QED
      BY <3>4, <3>5
  <2>5. QED
    BY <2>3, <2>4
<1>6. Moves' = Moves
  BY <1>3, <1>4, <1>5, MovesStay
<1>7. QED
  BY <1>5, <1>6 DEF CopiesFit
(***************************************************************************)
(* The steps of a pass that make no batch.  What leaves the block moves    *)
(* nothing; what stays in it moves what it moved.                          *)
(***************************************************************************)
LEMMA PassBytes ==
  ASSUME IInv, CopiesFit, stage # "idle", stage' # "idle", cmd' = cmd, sub' = sub,
         ir'.ops \subseteq ir.ops, ir'.nested = ir.nested, TopNodes' \subseteq TopNodes,
         \A u \in TopNodes \ TopNodes' : cmd[u].type # "copy",
         \A u \in TopNodes' : Transfers(ir'.attr[u].copy) = Transfers(ir.attr[u].copy),
         \A u \in Node : /\ Fits(ir'.attr[u].copy)
                         /\ u \notin ir.ops => ir'.attr[u] = ir.attr[u]
  PROVE  CopiesFit' /\ Moves' = Moves
<1>1. Nested' = Nested
  BY DEF Nested, Batches
<1>2. ASSUME NEW u \in Nested
      PROVE  CopyNow(u)' = CopyNow(u)
  <2>1. u \in Node /\ u \notin ir.ops
    BY <1>2, InBatch
  <2>2. QED
    BY <2>1 DEF CopyNow
<1>3. ASSUME NEW u \in TopNodes'
      PROVE  Transfers(CopyNow(u)') = Transfers(CopyNow(u))
  <2>1. u \in ir'.ops /\ u \in ir.ops
    BY <1>3 DEF TopNodes
  <2>2. QED
    BY <1>3, <2>1 DEF CopyNow
<1>4. ASSUME NEW u \in TopNodes \ TopNodes'
      PROVE  Transfers(CopyNow(u)) = {}
  <2>1. u \in ir.ops /\ u \in Node
    BY <1>4 DEF TopNodes, IInv, TypeOK, Blocks
  <2>2. ir.attr[u].copy.dim = 0
    BY <1>4, <2>1 DEF IInv, Labels
  <2>3. QED
    BY <2>1, <2>2, NothingMoved DEF CopyNow
<1>5. Moves' = Moves
  BY <1>1, <1>2, <1>3, <1>4, MovesStay DEF Carriers
<1>6. QED
  BY <1>5 DEF CopiesFit

(* reduce-node visits control nodes only. *)
Controls == stage = "reduce-node" => \A u \in todo : cmd[u].type = "none"

LEMMA ControlsStay ==
  ASSUME IInv, Controls, [Next]_vars
  PROVE  Controls'
<1>1. CASE Import
  <2>1. PICK named : /\ ir' = Imported(g, cmd, After(g, entry), named) /\ stage' = Head(plan)
                     /\ todo' = Candidates(Head(plan), Imported(g, cmd, After(g, entry), named))
    BY <1>1 DEF Import
  <2>2. ir'.attr = cmd /\ cmd' = cmd
    BY <1>1, <2>1 DEF Import, pod, Imported
  <2>3. stage' = "reduce-node" => \A u \in todo' : ir'.attr[u].type = "none"
    BY <2>1 DEF Candidates
  <2>4. QED
    BY <2>2, <2>3 DEF Controls
<1>2. CASE ~Import /\ stage' = "reduce-node"
  <2>1. stage = "reduce-node" /\ cmd' = cmd /\ todo' \subseteq todo
    BY ZenonT(60), <1>2 DEF Next, Finished, vars, work, pod, Export, PassReturns, EraseEdges, NormalizeCopies,
                EraseDead, BatchReturns, KeepNode, DropNode, Accumulate, LeaveCopy, LeaveProg, LeaveGroup,
                FuseCopies, FuseProgs, MergeGroups, Materialize
  <2>2. QED
    BY <2>1 DEF Controls
<1>3. QED
  BY <1>1, <1>2 DEF Controls

LEMMA QuietBytes ==
  ASSUME IInv, CopiesFit, Controls,
         \/ PassReturns \/ EraseEdges \/ EraseDead \/ BatchReturns
         \/ \E u \in Node : \/ KeepNode(u) \/ DropNode(u) \/ Accumulate(u)
                            \/ LeaveCopy(u) \/ LeaveProg(u) \/ LeaveGroup(u)
         \/ \E u \in Node, v \in Node : FuseProgs(u, v) \/ MergeGroups(u, v)
  PROVE  CopiesFit' /\ Moves' = Moves
<1>1. /\ stage # "idle" /\ stage' # "idle" /\ cmd' = cmd /\ sub' = sub /\ ir \in Blocks
  BY DEF IInv, TypeOK, PassReturns, EraseEdges, EraseDead, BatchReturns, KeepNode, DropNode, Accumulate,
         LeaveCopy, LeaveProg, LeaveGroup, FuseProgs, MergeGroups, pod
<1>2. \/ ir' = ir
      \/ \E o, l : ir' = [ir EXCEPT !.ops = o, !.operands = l]
      \/ \E o, l, n : ir' = [[ir EXCEPT !.ops = o, !.operands = l] EXCEPT !.operands = n]
      \/ \E l, o, n : ir' = [[ir EXCEPT !.operands = l] EXCEPT !.ops = o, !.operands = n]
      \/ \E l : ir' = [ir EXCEPT !.operands = l]
  BY ZenonT(60) DEF PassReturns, EraseEdges, EraseDead, BatchReturns, KeepNode, DropNode, Accumulate, LeaveCopy,
         LeaveProg, LeaveGroup, FuseProgs, MergeGroups, EraseOps, ReplaceUses, Splice
<1>3. ir'.attr = ir.attr /\ ir'.nested = ir.nested
  BY <1>1, <1>2 DEF Blocks
<1>4. /\ ir'.ops \subseteq ir.ops /\ TopNodes' \subseteq TopNodes
      /\ \A u \in TopNodes \ TopNodes' : cmd[u].type # "copy"
  <2>1. CASE \E e \in Node : DropNode(e)
    <3>1. PICK e \in Node : DropNode(e)
      BY <2>1
    <3>2. PICK o : Splice(e) = EraseOps([ir EXCEPT !.operands = o], {e})
      BY DEF Splice
    <3>3. PICK l : EraseOps([ir EXCEPT !.operands = o], {e})
                     = [[ir EXCEPT !.operands = o] EXCEPT !.ops = [ir EXCEPT !.operands = o].ops \ {e},
                                                          !.operands = l]
      BY DEF EraseOps
    <3>4. ir'.ops = ir.ops \ {e} /\ dead' = dead
      BY <1>1, <3>1, <3>2, <3>3 DEF DropNode, Blocks
    <3>5. ir.operands \in Lists /\ e \in todo
      BY <1>1, <3>1 DEF DropNode, Blocks
    <3>6. cmd[e].type # "copy"
      BY <3>1 DEF Controls, DropNode
    <3>7. QED
      BY <1>1, <3>4, <3>6 DEF TopNodes
  <2>2. CASE \E u \in Node, w \in Node : FuseProgs(u, w)
    <3>1. PICK u \in Node, w \in Node : FuseProgs(u, w)
      BY <2>2
    <3>2. PICK o : EraseOps(ir, {w}) = [ir EXCEPT !.ops = ir.ops \ {w}, !.operands = o]
      BY DEF EraseOps
    <3>3. PICK l : ir' = [EraseOps(ir, {w}) EXCEPT !.operands = l]
      BY <3>1 DEF FuseProgs, ReplaceUses
    <3>4. ir'.ops = ir.ops \ {w} /\ dead' = dead
      BY <1>1, <3>1, <3>2, <3>3 DEF FuseProgs, Blocks
    <3>5. ir.attr[w].type = "prog"
      BY <3>1 DEF FuseProgs, Link
    <3>6. cmd[w].type # "copy"
      BY <3>5 DEF IInv, Labels
    <3>7. QED
      BY <1>1, <3>4, <3>6 DEF TopNodes
  <2>3. CASE EraseDead
    <3>1. ir'.ops = ir.ops \ dead /\ dead' = {}
      BY <1>1, <2>3 DEF EraseDead, EraseOps, Blocks
    <3>2. QED
      BY <1>1, <3>1 DEF TopNodes
  <2>4. CASE ~EraseDead /\ ~(\E e \in Node : DropNode(e)) /\ ~(\E u \in Node, w \in Node : FuseProgs(u, w))
    <3>1. dead' = dead /\ (ir' = ir \/ \E l : ir' = [ir EXCEPT !.operands = l])
      BY <2>4 DEF PassReturns, EraseEdges, BatchReturns, KeepNode, Accumulate, LeaveCopy, LeaveProg,
                  LeaveGroup, MergeGroups, work
    <3>2. ir'.ops = ir.ops
      BY <1>1, <3>1 DEF Blocks
    <3>3. QED
      BY <1>1, <3>1, <3>2 DEF TopNodes
  <2>5. QED
    BY <2>1, <2>2, <2>3, <2>4
<1>5. QED
  BY <1>1, <1>3, <1>4, PassBytes DEF CopiesFit

LEMMA NormalizeBytes ==
  ASSUME IInv, CopiesFit, NormalizeCopies
  PROVE  CopiesFit' /\ Moves' = Moves
<1>1. /\ stage # "idle" /\ stage' # "idle" /\ cmd' = cmd /\ sub' = sub /\ dead' = dead /\ ir \in Blocks
      /\ ir' = [ir EXCEPT !.attr = [u \in Node |->
           IF u \in ir.ops THEN [ir.attr[u] EXCEPT !.copy = Normalized(ir.attr[u].copy)] ELSE ir.attr[u]]]
  BY DEF NormalizeCopies, pod, IInv, TypeOK
<1>2. /\ ir'.ops = ir.ops /\ ir'.nested = ir.nested
      /\ ir'.attr = [u \in Node |->
           IF u \in ir.ops THEN [ir.attr[u] EXCEPT !.copy = Normalized(ir.attr[u].copy)] ELSE ir.attr[u]]
  BY <1>1 DEF Blocks
<1>3. ASSUME NEW u \in Node
      PROVE  /\ Fits(ir'.attr[u].copy) /\ Transfers(ir'.attr[u].copy) = Transfers(ir.attr[u].copy)
             /\ u \notin ir.ops => ir'.attr[u] = ir.attr[u]
  <2>1. ir.attr[u] \in CommandType /\ ir.attr[u].copy \in CopyType /\ Fits(ir.attr[u].copy)
    BY <1>1 DEF Blocks, CommandType, CopiesFit
  <2>2. CASE u \in ir.ops
    <3>1. ir'.attr[u] = [ir.attr[u] EXCEPT !.copy = Normalized(ir.attr[u].copy)]
      BY <1>2, <2>2
    <3>2. ir'.attr[u].copy = Normalized(ir.attr[u].copy)
      BY <2>1, <3>1 DEF CommandType
    <3>3. QED
      BY <2>1, <2>2, <3>2, NormalizedMoves
  <2>3. CASE u \notin ir.ops
    BY <1>2, <2>1, <2>3
  <2>4. QED
    BY <2>2, <2>3
<1>4. TopNodes' = TopNodes /\ TopNodes \subseteq Node
  BY <1>1, <1>2 DEF TopNodes, Blocks
<1>5. QED
  BY <1>1, <1>2, <1>3, <1>4, PassBytes

LEMMA FuseBytes ==
  ASSUME IInv, CopiesFit, NEW u \in Node, NEW v \in Node, FuseCopies(u, v)
  PROVE  CopiesFit' /\ Moves' = Moves
<1>1. /\ stage = "copy-fuse" /\ stage' = stage /\ cmd' = cmd /\ sub' = sub /\ ir \in Blocks
      /\ u \in todo /\ Fusible(u, v) /\ dead' = dead \union {v}
      /\ ir' = [DropUses(ir, v) EXCEPT !.attr[u].copy = Union(@, ir.attr[v].copy)]
  BY DEF FuseCopies, pod, IInv, TypeOK
<1>2. PICK o : DropUses(ir, v) = [ir EXCEPT !.operands = o]
  BY DEF DropUses
<1>3. /\ ir'.ops = ir.ops /\ ir'.nested = ir.nested
      /\ ir'.attr = [ir.attr EXCEPT ![u].copy = Union(ir.attr[u].copy, ir.attr[v].copy)]
  BY <1>1, <1>2 DEF Blocks
<1>4. /\ u # v /\ v \in Top /\ u \in Top /\ ir.attr[u].copy.dim = 1 /\ ir.attr[v].copy.dim = 1
      /\ SameMapping(ir.attr[u].copy, ir.attr[v].copy) /\ Touch(ir.attr[u].copy, ir.attr[v].copy)
  BY <1>1 DEF Fusible, IInv, Running, Top
<1>5. /\ ir.attr \in [Node -> CommandType] /\ \A x \in Node : ir.attr[x].copy \in CopyType
  BY <1>1 DEF Blocks, CommandType
<1>6. /\ Fits(Union(ir.attr[u].copy, ir.attr[v].copy))
      /\ Transfers(Union(ir.attr[u].copy, ir.attr[v].copy))
           = Transfers(ir.attr[u].copy) \union Transfers(ir.attr[v].copy)
  BY <1>4, <1>5, UnionMoves DEF CopiesFit
<1>7. /\ ir'.attr[u].copy = Union(ir.attr[u].copy, ir.attr[v].copy)
      /\ \A x \in Node \ {u} : ir'.attr[x] = ir.attr[x]
  BY <1>3, <1>5 DEF CommandType
<1>8. CopiesFit'
  BY <1>1, <1>6, <1>7 DEF CopiesFit
<1>9. Nested' = Nested /\ TopNodes = Top /\ TopNodes' = Top \ {v} /\ Top \subseteq ir.ops
  BY <1>1, <1>3 DEF Nested, Batches, TopNodes, Top
<1>10. \A x \in Nested : x \in Node /\ x # u /\ x \notin Top
  BY <1>4, <1>9, InBatch
<1>11. /\ Transfers(CopyNow(u)') = Transfers(CopyNow(u)) \union Transfers(CopyNow(v))
       /\ \A x \in Node \ {u} : CopyNow(x)' = CopyNow(x)
  BY <1>1, <1>3, <1>4, <1>6, <1>7, <1>9 DEF CopyNow
<1>12. Top \subseteq Node
  BY <1>1, <1>9 DEF Blocks
<1>13. ASSUME NEW x PROVE x \in Moves' <=> x \in Moves
  <2>1. x \in Moves' <=> \E w \in (Top \ {v}) \union Nested : x \in Transfers(CopyNow(w)')
    BY <1>9, MovesIs DEF Carriers
  <2>2. x \in Moves <=> \E w \in Top \union Nested : x \in Transfers(CopyNow(w))
    BY <1>9, MovesIs DEF Carriers
  <2>3. ASSUME x \in Moves' PROVE x \in Moves
    <3>1. PICK w \in (Top \ {v}) \union Nested : x \in Transfers(CopyNow(w)')
      BY <2>1, <2>3
    <3>2. QED
      BY <1>4, <1>10, <1>11, <1>12, <2>2, <3>1
  <2>4. ASSUME x \in Moves PROVE x \in Moves'
    <3>1. PICK w \in Top \union Nested : x \in Transfers(CopyNow(w))
      BY <2>2, <2>4
    <3>2. QED
      BY <1>4, <1>10, <1>11, <1>12, <2>1, <3>1
  <2>5. QED
    BY <2>3, <2>4
<1>14. Moves' = Moves
  <2> DEFINE M == Moves
             N == Moves'
  <2>1. \A x : x \in N <=> x \in M
    BY <1>13
  <2> HIDE DEF M, N
  <2>2. N = M
    BY <2>1
  <2>3. QED
    BY <2>2 DEF M, N
<1>15. QED
  BY <1>8, <1>14
LEMMA MaterializeBytes ==
  ASSUME IInv, IInv', CopiesFit, NEW i \in Node, NEW B \in Node, Materialize(i, B)
  PROVE  CopiesFit' /\ Moves' = Moves
<1> DEFINE S == group[i]
<1>1. Making(i, B, S)
  BY Contracting
<1>2. /\ stage # "idle" /\ stage' = stage /\ cmd' = cmd /\ dead = {} /\ dead' = {}
      /\ ir'.ops = (ir.ops \ S) \union {B} /\ ir'.nested = ir.nested \union S /\ S \subseteq ir.ops
      /\ B \in Batch /\ B \notin ir.ops /\ B \notin ir.nested
      /\ sub' = [sub EXCEPT ![B].nodes = S]
  BY <1>1 DEF Making
<1>3. PICK m \in S : ir'.attr = [ir.attr EXCEPT ![B].dev = ir.attr[m].dev]
  BY <1>1 DEF Making
<1>4. ir.attr \in [Node -> CommandType] /\ ir.ops \subseteq Node
  BY DEF IInv, TypeOK, Blocks
<1>5. \A x \in Node : ir'.attr[x].copy = ir.attr[x].copy
  BY <1>3, <1>4 DEF CommandType
<1>6. CopiesFit'
  BY <1>2, <1>5 DEF CopiesFit
<1>7. \A x : x \in Nested' <=> x \in Nested \/ x \in S
  <2>1. sub[B].nodes = {}
    BY <1>1 DEF Making, IInv, Holding
  <2>2. \A C \in Node : sub'[C].nodes = IF C = B THEN S ELSE sub[C].nodes
    BY <1>2 DEF IInv, TypeOK
  <2>3. \A x : x \in Nested' <=> \E C \in Node : x \in sub'[C].nodes
    BY DEF Nested, Batches
  <2>4. \A x : x \in Nested <=> \E C \in Node : x \in sub[C].nodes
    BY DEF Nested, Batches
  <2>5. QED
    BY <2>1, <2>2, <2>3, <2>4
<1>8. \A x : x \in Carriers' <=> x \in Carriers \/ x = B
  BY <1>2, <1>7 DEF Carriers, TopNodes
<1>9. \A x \in Carriers : x \in Node
  <2>1. \A x \in Nested : x \in Node
    BY InBatch
  <2>2. TopNodes \subseteq Node
    BY <1>2, <1>4 DEF TopNodes
  <2>3. QED
    BY <2>1, <2>2 DEF Carriers
<1>10. Transfers(CopyNow(B)') = {} /\ Transfers(CopyNow(B)) = {}
  <2>1. cmd[B].type = "batch" /\ cmd[B].copy.dim = 0 /\ ir.attr[B].copy.dim = 0
    BY <1>2 DEF IInv, Labels
  <2>2. QED
    BY <1>2, <1>5, <2>1, NothingMoved DEF CopyNow
<1>11. \A x \in Node \ {B} : CopyNow(x)' = CopyNow(x)
  BY <1>2, <1>5 DEF CopyNow
<1>12. Moves' = Moves
  BY <1>8, <1>9, <1>10, <1>11, MovesStay
<1>13. QED
  BY <1>6, <1>12

(***************************************************************************)
(* The bytes the client's copies move are moved by the graph at every      *)
(* moment, wherever the commands are by then: what copy-normalize rewrites *)
(* and copy-fuse unites modulo the number of addresses, an import reads,   *)
(* an export writes back and batch takes into a region.                    *)
(***************************************************************************)
THEOREM BytesStayKept == Spec => BytesKept
<1>1. Init => CopiesFit /\ Controls
  <2> SUFFICES ASSUME Init PROVE CopiesFit /\ Controls
    OBVIOUS
  <2>1. \A u \in Node : Fits(cmd[u].copy)
    BY MlirAssumption DEF Init
  <2>2. ir.attr = cmd /\ stage = "idle"
    BY DEF Init, NoOps
  <2>3. QED
    BY <2>1, <2>2 DEF CopiesFit, Controls
<1>2. ASSUME IInv, IInv', CopiesFit, Controls, [Next]_vars
      PROVE  CopiesFit' /\ Controls' /\ Moves' = Moves
  <2> USE <1>2
  <2>1. CASE Import
    BY <2>1, ImportBytes, ControlsStay
  <2>2. CASE Export
    BY <2>2, ExportBytes, ControlsStay
  <2>3. CASE NormalizeCopies
    BY <2>3, NormalizeBytes, ControlsStay
  <2>4. CASE \/ PassReturns \/ EraseEdges \/ EraseDead \/ BatchReturns
             \/ \E u \in Node : \/ KeepNode(u) \/ DropNode(u) \/ Accumulate(u)
                                \/ LeaveCopy(u) \/ LeaveProg(u) \/ LeaveGroup(u)
             \/ \E u \in Node, v \in Node : FuseProgs(u, v) \/ MergeGroups(u, v)
    BY <2>4, QuietBytes, ControlsStay
  <2>5. CASE \E u \in Node, v \in Node : FuseCopies(u, v)
    BY <2>5, FuseBytes, ControlsStay
  <2>6. CASE \E u \in Node, v \in Node : Materialize(u, v)
    BY <2>6, MaterializeBytes, ControlsStay
  <2>7. CASE UNCHANGED vars
    <3>1. CopiesFit' /\ Controls' /\ Carriers' = Carriers /\ \A u : CopyNow(u)' = CopyNow(u)
      BY <2>7 DEF vars, pod, work, CopiesFit, Controls, Carriers, TopNodes, Nested, Batches, CopyNow
    <3>2. QED
      BY <3>1, MovesStay
  <2>8. QED
    BY <2>1, <2>2, <2>3, <2>4, <2>5, <2>6, <2>7 DEF Next, Finished
<1>3. ASSUME IInv, IInv', CopiesFit, Controls, [Next]_vars
      PROVE  CopiesFit' /\ Controls' /\ [Moves' = Moves]_vars
  BY <1>2, <1>3
<1>4. QED
  BY <1>1, <1>3, MlirInvariant, PTL DEF Spec, BytesKept
=============================================================================
