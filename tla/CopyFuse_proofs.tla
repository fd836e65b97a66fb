-------------------------- MODULE CopyFuse_proofs --------------------------
(***************************************************************************)
(* Theorems about the passes copy-normalize and copy-fuse: the copies they *)
(* make move the bytes of the copies they are made of, for machine words   *)
(* of every width; and the graph stays well formed for every recording,    *)
(* although copy-fuse goes on with nodes that have left it.                *)
(***************************************************************************)
EXTENDS CopyFuse, CommandGraph_proofs

(***************************************************************************)
(* The graph.  contract<FALSE_TWINS | INPLACE>(u, v) as copy-fuse calls it: *)
(* u may have left the graph, v has not.                                   *)
(***************************************************************************)
LEMMA TwinGone ==
  ASSUME NEW G, Dag(G), NEW u \in Node, NEW v \in G.members, AreFalseTwins(G, u, v),
         NEW h, h = ContractTwins(G, u, v)
  PROVE  /\ h \in Graphs /\ h.members = G.members \ {v} /\ h.type = G.type
         /\ \A x, y \in Node :
              /\ h.successors[x][y] = IF x \in Preds(G, v) /\ y = v THEN 0 ELSE G.successors[x][y]
              /\ h.predecessors[x][y] = IF x \in Succs(G, v) /\ y = v THEN 0 ELSE G.predecessors[x][y]
<1>1. /\ G \in Graphs /\ G.members \subseteq Node
      /\ \A x \in G.members, y \in Node : G.successors[x][y] \in {0, 1} /\ G.predecessors[x][y] \in {0, 1}
      /\ \A x \in G.members, y \in G.members : G.successors[x][y] = G.predecessors[y][x]
      /\ \A x \in G.members, y \in Node \ G.members : G.successors[x][y] = 0 /\ G.predecessors[x][y] = 0
  BY DagLists DEF Dag
<1>2. Preds(G, u) = Preds(G, v) /\ Succs(G, u) = Succs(G, v)
  BY DEF AreFalseTwins, Preds, Succs
<1>3. /\ \A p \in Preds(G, v) : G.successors[p][v] = 1
      /\ \A s \in Succs(G, v) : G.predecessors[s][v] = 1
  BY <1>1 DEF Preds, Succs
<1>4. /\ \A p \in Preds(G, u) : G.successors[p][v] > 0
      /\ \A s \in Succs(G, u) : G.predecessors[s][v] > 0
  BY <1>2, <1>3
<1>5. /\ h \in Graphs /\ h.members = G.members \ {v}
      /\ \A x, y \in Node :
           /\ h.successors[x][y] = IF x \in Preds(G, u) /\ y = v THEN G.successors[x][y] - 1
                                                                 ELSE G.successors[x][y]
           /\ h.predecessors[x][y] = IF x \in Succs(G, u) /\ y = v THEN G.predecessors[x][y] - 1
                                                                   ELSE G.predecessors[x][y]
  BY <1>1, <1>4, ContractTwinsLists
<1>6. h.type = G.type
  BY <1>1 DEF ContractTwins, Graphs
<1>7. QED
  BY <1>2, <1>3, <1>5, <1>6

(* Only v is gone, with its edges. *)
LEMMA TwinGoneDag ==
  ASSUME NEW G, Dag(G), NEW u \in Node, NEW v \in G.members, AreFalseTwins(G, u, v),
         NEW h, h = ContractTwins(G, u, v)
  PROVE  /\ Dag(h) /\ Paths(h) \subseteq Paths(G)
         /\ \A x \in h.members, y \in h.members : AreFalseTwins(G, x, y) => AreFalseTwins(h, x, y)
<1>1. /\ h \in Graphs /\ h.members = G.members \ {v} /\ h.type = G.type
      /\ \A x, y \in Node :
           /\ h.successors[x][y] = IF x \in Preds(G, v) /\ y = v THEN 0 ELSE G.successors[x][y]
           /\ h.predecessors[x][y] = IF x \in Succs(G, v) /\ y = v THEN 0 ELSE G.predecessors[x][y]
  BY TwinGone
<1>2. /\ G \in Graphs /\ G.members \subseteq Node
      /\ \A x \in G.members, y \in Node : G.successors[x][y] \in {0, 1} /\ G.predecessors[x][y] \in {0, 1}
      /\ \A x \in G.members, y \in G.members : G.successors[x][y] = G.predecessors[y][x]
      /\ \A x \in G.members, y \in Node \ G.members : G.successors[x][y] = 0 /\ G.predecessors[x][y] = 0
  BY DagLists DEF Dag
<1>3. ASSUME NEW x \in h.members, NEW y \in Node
      PROVE  /\ h.successors[x][y] = IF y = v THEN 0 ELSE G.successors[x][y]
             /\ h.predecessors[x][y] = IF y = v THEN 0 ELSE G.predecessors[x][y]
  <2>1. x \in G.members /\ x \in Node
    BY <1>1, <1>2
  <2>2. x \in Preds(G, v) <=> G.successors[x][v] = 1
    BY <1>2, <2>1 DEF Preds
  <2>3. x \in Succs(G, v) <=> G.predecessors[x][v] = 1
    BY <1>2, <2>1 DEF Succs
  <2>4. QED
    BY <1>1, <1>2, <2>1, <2>2, <2>3
<1>4. EdgesMirrored(h)
  BY <1>1, <1>2, <1>3 DEF EdgesMirrored
<1>5. SimpleEdges(h)
  <2>1. SUFFICES ASSUME NEW x \in h.members, NEW y \in Node PROVE h.successors[x][y] <= 1
    BY DEF SimpleEdges
  <2>2. h.successors[x][y] \in {0, 1}
    BY <1>1, <1>2, <1>3
  <2>3. QED
    BY <2>2
<1>6. \A x \in h.members : Succs(h, x) = Succs(G, x) \ {v}
  <2>1. SUFFICES ASSUME NEW x \in h.members, NEW y \in Node
                 PROVE  h.successors[x][y] > 0 <=> y # v /\ G.successors[x][y] > 0
    BY DEF Succs
  <2>2. QED
    BY <1>3
<1>7. ASSUME NEW x, NEW y, <<x, y>> \in Paths(h) PROVE <<x, y>> \in Paths(G)
  <2>1. x \in h.members /\ y \in h.members /\ x \in G.members /\ y \in G.members
    BY <1>1, <1>7, PathsOfMembers
  <2>2. SUFFICES ASSUME NEW S \in Closed(G), x \in S PROVE y \in S
    BY <1>2, <2>1, PathsBySets
  <2>3. S \ {v} \in Closed(h)
    BY <1>1, <1>2, <1>6, ClosedSets
  <2>4. x \in S \ {v}
    BY <1>1, <2>1, <2>2
  <2>5. QED
    BY <1>1, <1>7, <2>1, <2>3, <2>4, PathsBySets
<1>8. Paths(h) \subseteq Paths(G)
  BY <1>7 DEF Paths
<1>9. Acyclic(h)
  <2>1. SUFFICES ASSUME NEW x \in h.members, NEW y \in Succs(h, x), <<y, x>> \in Paths(h) PROVE FALSE
    BY DEF Acyclic
  <2>2. x \in G.members /\ y \in Succs(G, x) /\ <<y, x>> \in Paths(G)
    BY <1>1, <1>6, <1>7, <2>1
  <2>3. QED
    BY <2>2 DEF Dag, Acyclic
<1>10. ASSUME NEW x \in h.members, NEW y \in h.members, AreFalseTwins(G, x, y)
       PROVE  AreFalseTwins(h, x, y)
  <2>1. /\ x \in Node /\ y \in Node /\ x \in G.members /\ y \in G.members /\ v \in Node
        /\ x # v /\ y # v
    BY <1>1, <1>2
  <2>2. /\ G.successors[x] \in [Node -> Nat] /\ G.successors[y] \in [Node -> Nat]
        /\ G.predecessors[x] \in [Node -> Nat] /\ G.predecessors[y] \in [Node -> Nat]
        /\ h.successors[x] \in [Node -> Nat] /\ h.successors[y] \in [Node -> Nat]
        /\ h.predecessors[x] \in [Node -> Nat] /\ h.predecessors[y] \in [Node -> Nat]
    BY <1>1, <1>2, <2>1 DEF Graphs, Lists
  <2>3. \A z \in Node : /\ h.successors[x][z] = h.successors[y][z]
                        /\ h.predecessors[x][z] = h.predecessors[y][z]
    BY <1>3, <1>10 DEF AreFalseTwins
  <2>4. QED
    BY <2>2, <2>3 DEF AreFalseTwins
<1>11. QED
  BY <1>1, <1>4, <1>5, <1>8, <1>9, <1>10 DEF Dag
-----------------------------------------------------------------------------
(***************************************************************************)
(* The inductive invariant.  A node that has left the graph keeps its own  *)
(* lists, and some of them name members; but no edge is left that is       *)
(* listed on both of its sides, and the scan only finds a sibling over     *)
(* such an edge.  So copy-fuse may go on scanning from a node that is gone *)
(* and still takes none but members away.                                  *)
(***************************************************************************)
HalfListed(G) ==
  \A x, y \in Node : y \in Succs(G, x) /\ x \in Preds(G, y) => x \in G.members /\ y \in G.members

(* The commands: what copy-normalize has yet to see is as it was recorded. *)
Commands ==
  /\ \A u \in Inner : copy[u].dim = 1 => Fits(copy[u])
  /\ pc = "normalize" => visit = Iterators(g) /\ \A u \in Inner : copy[u] \in Copies

(* Where the loops are. *)
Loops ==
  /\ \A x, y \in cur : x = y
  /\ pc \in {"normalize", "done"} => cur = {}
  /\ pc = "done" => visit = {}

(* Twins stay twins, and a node whose scan has ended is fusible with none  *)
(* of them but the one that is being scanned, which may have grown.        *)
Settled ==
  /\ \A u, v \in g.members : AreFalseTwins(origin, u, v) => AreFalseTwins(g, u, v)
  /\ \A u \in Iterators(g) \ (visit \union cur), v \in Iterators(g) \ cur :
       AreFalseTwins(origin, u, v) => ~Fusible(u, v)

IInv == TypeOK /\ Dag(g) /\ HalfListed(g) /\ Commands /\ Loops /\ Settled

(* entry, exit and what cannot be reached are never listed. *)
LEMMA IteratorsInner ==
  ASSUME NEW G \in Graphs
  PROVE  Iterators(G) \subseteq Inner \intersect G.members
BY DEF Iterators, After, Graphs, Inner

LEMMA InitIInv == Init => IInv
<1> SUFFICES ASSUME Init PROVE IInv
  OBVIOUS
<1>1. PICK E \in Recordings, control \in SUBSET {u \in Inner : copy[u].dim = 0} :
        g = Recorded([u \in Node |-> IF u \in Inner \ control THEN "COMMAND" ELSE "EMPTY"], Inner, E)
  BY DEF Init
<1>2. Inner \union {entry, exit} = Node
  BY NodeAssumption DEF Inner
<1>3. E \subseteq (Inner \union {entry, exit}) \X (Inner \union {entry, exit})
  BY <1>2, CopiesAssumption
<1>4. g \in Graphs /\ EdgesMirrored(g) /\ SimpleEdges(g) /\ g.members = Inner \union {entry, exit}
  <2> DEFINE type == [u \in Node |-> IF u \in Inner \ control THEN "COMMAND" ELSE "EMPTY"]
  <2>1. type \in [Node -> NodeType]
    BY DEF NodeType
  <2> HIDE DEF type
  <2>2. g = Recorded(type, Inner, E)
    BY <1>1 DEF type
  <2>3. QED
    BY <1>3, <2>1, <2>2, RecordedLists
<1>5. Dag(g) /\ g.members = Node
  BY <1>2, <1>4 DEF Dag, Init
<1>6. HalfListed(g)
  BY <1>5 DEF HalfListed
<1>7. copy \in [Inner -> CopyType] /\ \A u \in Inner : copy[u] \in Copies
  BY CopiesAssumption DEF Init
<1>8. TypeOK
  BY <1>4, <1>7, IteratorsInner DEF TypeOK, Init
<1>9. Commands
  BY <1>7, CopiesAssumption DEF Commands, Init
<1>10. Loops /\ Settled
  BY DEF Loops, Settled, Init
<1>11. QED
  BY <1>5, <1>6, <1>8, <1>9, <1>10 DEF IInv

(***************************************************************************)
(* A fusion.                                                               *)
(***************************************************************************)
LEMMA FusibleParts ==
  ASSUME NEW u, NEW v, Fusible(u, v)
  PROVE  /\ u # v /\ AreFalseTwins(g, u, v)
         /\ copy[u].dim = 1 /\ copy[v].dim = 1
         /\ SameMapping(copy[u], copy[v]) /\ Touch(copy[u], copy[v])
BY DEF Fusible, TwinCommands

LEMMA FusibleSymmetric ==
  ASSUME NEW u, NEW v, Fusible(u, v)
  PROVE  Fusible(v, u)
BY DEF Fusible, TwinCommands, AreFalseTwins, SameMapping, Touch

(* The sibling that is found is in the graph, wherever the scan came from. *)
LEMMA SiblingIsMember ==
  ASSUME IInv, NEW u \in Inner, NEW v \in Siblings(u), Fusible(u, v)
  PROVE  v \in g.members
<1>1. PICK p \in Preds(g, u) : v \in Succs(g, p)
  BY DEF Siblings
<1>2. Preds(g, u) = Preds(g, v)
  BY FusibleParts DEF AreFalseTwins, Preds
<1>3. QED
  BY <1>1, <1>2 DEF IInv, HalfListed, Preds, Succs

LEMMA FuseIInv ==
  ASSUME IInv, NEW u \in Inner, NEW v \in Inner, Fuse(u, v)
  PROVE  /\ IInv'
         /\ Transfers(copy'[u]) = Transfers(copy[u]) \union Transfers(copy[v]) /\ u # v
         /\ \A x \in Inner \ {u} : copy'[x] = copy[x]
<1>1. /\ pc = "visit" /\ u \in cur /\ v \in Siblings(u) /\ Fusible(u, v)
      /\ g' = ContractTwins(g, u, v) /\ copy' = [copy EXCEPT ![u] = Union(copy[u], copy[v])]
      /\ pc' = pc /\ visit' = visit /\ cur' = cur /\ origin' = origin
  BY DEF Fuse
<1>2. /\ v \in g.members /\ u \in Node /\ Dag(g) /\ g \in Graphs
      /\ u # v /\ AreFalseTwins(g, u, v) /\ copy[u].dim = 1 /\ copy[v].dim = 1
      /\ SameMapping(copy[u], copy[v]) /\ Touch(copy[u], copy[v])
  BY <1>1, SiblingIsMember, FusibleParts DEF IInv, TypeOK, Inner
<1>3. /\ g' \in Graphs /\ g'.members = g.members \ {v} /\ g'.type = g.type
      /\ \A x, y \in Node :
           /\ g'.successors[x][y] = IF x \in Preds(g, v) /\ y = v THEN 0 ELSE g.successors[x][y]
           /\ g'.predecessors[x][y] = IF x \in Succs(g, v) /\ y = v THEN 0 ELSE g.predecessors[x][y]
  BY <1>1, <1>2, TwinGone
<1>4. /\ Dag(g') /\ Paths(g') \subseteq Paths(g)
      /\ \A x \in g'.members, y \in g'.members : AreFalseTwins(g, x, y) => AreFalseTwins(g', x, y)
  BY <1>1, <1>2, TwinGoneDag
<1>5. HalfListed(g')
  <2>1. SUFFICES ASSUME NEW x \in Node, NEW y \in Node, y \in Succs(g', x), x \in Preds(g', y)
                 PROVE  x \in g'.members /\ y \in g'.members
    BY DEF HalfListed
  <2>2. y \in Succs(g, x) /\ x \in Preds(g, y)
    BY <1>3, <2>1 DEF Succs, Preds
  <2>3. x \in g.members /\ y \in g.members
    BY <2>2 DEF IInv, HalfListed
  <2>4. x \in Preds(g, v) => v \notin Succs(g', x)
    BY <1>3 DEF Succs
  <2>5. y \in Succs(g, v) => v \notin Preds(g', y)
    BY <1>3 DEF Preds
  <2>6. QED
    BY <1>3, <2>1, <2>2, <2>3, <2>4, <2>5
<1>6. /\ copy[u] \in CopyType /\ copy[v] \in CopyType /\ Fits(copy[u]) /\ Fits(copy[v])
      /\ copy \in [Inner -> CopyType]
  BY <1>2 DEF IInv, TypeOK, Commands
<1>7. /\ copy'[u] = Union(copy[u], copy[v])
      /\ \A x \in Inner \ {u} : copy'[x] = copy[x]
  BY <1>1, <1>6
<1>8. /\ copy'[u] \in CopyType /\ copy'[u].dim = 1 /\ Fits(copy'[u])
      /\ Transfers(copy'[u]) = Transfers(copy[u]) \union Transfers(copy[v])
  BY <1>2, <1>6, <1>7, UnionMoves
<1>9. TypeOK'
  BY <1>1, <1>3, <1>6, <1>7, <1>8 DEF IInv, TypeOK
<1>10. Commands'
  <2>1. \A x \in Inner : copy'[x].dim = 1 => Fits(copy'[x])
    BY <1>7, <1>8 DEF IInv, Commands
  <2>2. QED
    BY <1>1, <2>1 DEF Commands
<1>11. Loops'
  BY <1>1 DEF IInv, Loops
<1>12. Iterators(g') \subseteq Iterators(g) /\ Iterators(g') \subseteq g'.members
  BY <1>3, <1>4 DEF Iterators, After
<1>13. Settled'
  <2>1. ASSUME NEW x \in g'.members, NEW y \in g'.members, AreFalseTwins(origin, x, y)
        PROVE  AreFalseTwins(g, x, y) /\ AreFalseTwins(g', x, y)
    BY <1>3, <1>4, <2>1 DEF IInv, Settled
  <2>2. ASSUME NEW x \in Iterators(g') \ (visit \union cur), NEW y \in Iterators(g') \ cur,
               AreFalseTwins(origin, x, y), Fusible(x, y)'
        PROVE  FALSE
    <3>1. ~Fusible(x, y) /\ AreFalseTwins(g, x, y)
      BY <1>12, <2>1, <2>2 DEF IInv, Settled
    <3>2. x \in Inner /\ y \in Inner /\ x # u /\ y # u
      BY <1>1, <1>2, <1>12, <2>2, IteratorsInner
    <3>3. copy'[x] = copy[x] /\ copy'[y] = copy[y]
      BY <1>7, <3>2
    <3>4. QED
      BY <1>3, <2>2, <3>1, <3>3 DEF Fusible, TwinCommands
  <2>3. QED
    BY <1>1, <2>1, <2>2 DEF Settled
<1>14. QED
  BY <1>2, <1>4, <1>5, <1>7, <1>8, <1>9, <1>10, <1>11, <1>13 DEF IInv
(***************************************************************************)
(* The other steps leave the graph as it is.                               *)
(***************************************************************************)
LEMMA NormalizedCopies ==
  ASSUME NEW c \in Copies
  PROVE  /\ Normalized(c) \in CopyType /\ Transfers(Normalized(c)) = Transfers(c)
         /\ Fits(c) /\ Fits(Normalized(c)) /\ c \in CopyType
BY CopiesAssumption, NormalizedMoves

LEMMA NormalizeIInv ==
  ASSUME IInv, Normalize
  PROVE  IInv' /\ \A u \in Inner : Transfers(copy'[u]) = Transfers(copy[u])
<1>1. /\ pc = "normalize" /\ pc' = "visit" /\ g' = g /\ visit' = visit /\ cur' = cur /\ origin' = origin
      /\ copy' = [u \in Inner |-> IF u \in visit THEN Normalized(copy[u]) ELSE copy[u]]
  BY DEF Normalize
<1>2. visit = Iterators(g) /\ cur = {} /\ \A u \in Inner : copy[u] \in Copies
  BY <1>1 DEF IInv, Commands, Loops
<1>3. ASSUME NEW u \in Inner
      PROVE  copy'[u] \in CopyType /\ Fits(copy'[u]) /\ Transfers(copy'[u]) = Transfers(copy[u])
  BY <1>1, <1>2, NormalizedCopies
<1>4. TypeOK'
  BY <1>1, <1>3 DEF IInv, TypeOK
<1>5. Commands'
  BY <1>1, <1>3 DEF Commands
<1>6. Loops'
  BY <1>1, <1>2 DEF Loops
<1>7. Settled'
  BY <1>1, <1>2 DEF IInv, Settled, Iterators, After
<1>8. QED
  BY <1>1, <1>3, <1>4, <1>5, <1>6, <1>7 DEF IInv

LEMMA VisitIInv ==
  ASSUME IInv, NEW u \in Inner, Visit(u)
  PROVE  IInv'
<1>1. /\ pc = "visit" /\ pc' = pc /\ cur = {} /\ cur' = {u} /\ visit' = visit \ {u}
      /\ g' = g /\ copy' = copy /\ origin' = origin
  BY DEF Visit
<1>2. TypeOK' /\ Commands' /\ Loops'
  BY <1>1 DEF IInv, TypeOK, Commands, Loops
<1>3. Settled'
  <2>1. \A x, y : Fusible(x, y)' <=> Fusible(x, y)
    BY <1>1 DEF Fusible, TwinCommands
  <2>2. Iterators(g)' = Iterators(g)
    BY <1>1 DEF Iterators, After
  <2>3. QED
    BY <1>1, <2>1, <2>2 DEF IInv, Settled
<1>4. QED
  BY <1>1, <1>2, <1>3 DEF IInv

(* The scan of a member has seen all of its twins. *)
LEMMA ScannedAll ==
  ASSUME IInv, NEW u \in Iterators(g), Scanned(u), NEW v \in Iterators(g)
  PROVE  ~Fusible(u, v)
<1>0. SUFFICES ASSUME Fusible(u, v) PROVE FALSE
  OBVIOUS
<1>1. /\ Dag(g) /\ g \in Graphs /\ EdgesMirrored(g) /\ \A w \in Siblings(u) : ~Fusible(u, w)
  BY DEF IInv, Scanned, Dag
<1>2. /\ u \in g.members /\ v \in g.members /\ <<entry, u>> \in Paths(g) /\ u # entry
      /\ Preds(g, u) = Preds(g, v)
  BY <1>0, FusibleParts DEF Iterators, After, AreFalseTwins, Preds
<1>3. PICK p \in After(g, entry) : u \in Succs(g, p)
  BY <1>1, <1>2, LastEdge
<1>4. p \in g.members /\ p \in Preds(g, u) /\ p \in Preds(g, v)
  BY <1>1, <1>2, <1>3, SuccsArePreds DEF After
<1>5. v \in Succs(g, p)
  BY <1>1, <1>2, <1>4, SuccsArePreds
<1>6. QED
  BY <1>0, <1>1, <1>4, <1>5 DEF Siblings

LEMMA ScannedIInv ==
  ASSUME IInv, NEW u \in Inner, Scanned(u)
  PROVE  IInv'
<1>1. /\ pc = "visit" /\ pc' = pc /\ u \in cur /\ cur' = {} /\ visit' = visit
      /\ g' = g /\ copy' = copy /\ origin' = origin
  BY DEF Scanned
<1>2. TypeOK' /\ Commands' /\ Loops' /\ cur = {u}
  BY <1>1 DEF IInv, TypeOK, Commands, Loops
<1>3. Settled'
  <2>1. \A x, y : Fusible(x, y)' <=> Fusible(x, y)
    BY <1>1 DEF Fusible, TwinCommands
  <2>2. Iterators(g)' = Iterators(g)
    BY <1>1 DEF Iterators, After
  <2>3. ASSUME NEW x \in Iterators(g) \ visit, NEW y \in Iterators(g), AreFalseTwins(origin, x, y),
               Fusible(x, y)
        PROVE  FALSE
    <3>1. CASE x = u
      BY <2>3, <3>1, ScannedAll
    <3>2. CASE y = u
      <4>1. Fusible(y, x)
        BY <2>3, FusibleSymmetric
      <4>2. QED
        BY <3>2, <4>1, ScannedAll
    <3>3. CASE x # u /\ y # u
      BY <1>2, <2>3, <3>3 DEF IInv, Settled
    <3>4. QED
      BY <3>1, <3>2, <3>3
  <2>4. QED
    BY <1>1, <2>1, <2>2, <2>3 DEF IInv, Settled
<1>4. QED
  BY <1>1, <1>2, <1>3 DEF IInv

LEMMA EndIInv ==
  ASSUME IInv,
         Return \/ (\E u, v \in Inner : Abort(u, v)) \/ UNCHANGED vars
  PROVE  IInv' /\ copy' = copy
<1>1. /\ g' = g /\ copy' = copy /\ origin' = origin /\ visit' = visit /\ cur' = cur
      /\ \/ pc' = pc
         \/ pc' = "aborted"
         \/ pc' = "done" /\ visit = {} /\ cur = {}
  BY DEF Return, Abort, vars
<1>2. TypeOK' /\ Commands' /\ Loops'
  BY <1>1 DEF IInv, TypeOK, Commands, Loops
<1>3. Settled'
  <2>1. \A x, y : Fusible(x, y)' <=> Fusible(x, y)
    BY <1>1 DEF Fusible, TwinCommands
  <2>2. Iterators(g)' = Iterators(g)
    BY <1>1 DEF Iterators, After
  <2>3. QED
    BY <1>1, <2>1, <2>2 DEF IInv, Settled
<1>4. QED
  BY <1>1, <1>2, <1>3 DEF IInv

(* What a step makes of the copies. *)
Exact ==
  \A u \in Inner : copy'[u] # copy[u] =>
    \/ Transfers(copy'[u]) = Transfers(copy[u])
    \/ \E v \in Inner \ {u} : Transfers(copy'[u]) = Transfers(copy[u]) \union Transfers(copy[v])

LEMMA NextIInv == IInv /\ [Next]_vars => IInv' /\ Exact
<1> SUFFICES ASSUME IInv, [Next]_vars PROVE IInv' /\ Exact
  OBVIOUS
<1>1. ASSUME NEW u \in Inner, Visit(u) PROVE IInv' /\ Exact
  BY <1>1, VisitIInv DEF Visit, Exact
<1>2. ASSUME NEW u \in Inner, Scanned(u) PROVE IInv' /\ Exact
  BY <1>2, ScannedIInv DEF Scanned, Exact
<1>3. ASSUME NEW u \in Inner, NEW v \in Inner, Fuse(u, v) PROVE IInv' /\ Exact
  BY <1>3, FuseIInv DEF Exact
<1>4. ASSUME NEW u \in Inner, NEW v \in Inner, Abort(u, v) PROVE IInv' /\ Exact
  BY <1>4, EndIInv DEF Exact
<1>5. CASE Normalize
  BY <1>5, NormalizeIInv DEF Exact
<1>6. CASE Return \/ UNCHANGED vars
  BY <1>6, EndIInv DEF Exact
<1>7. QED
  BY <1>1, <1>2, <1>3, <1>4, <1>5, <1>6 DEF Next

(***************************************************************************)
(* For every recording, also where copies are lost: the lists of the nodes *)
(* of the graph match, and the graph is acyclic.                           *)
(***************************************************************************)
THEOREM CopyPassesWellFormed == Spec => []WellFormed
<1>1. IInv => WellFormed
  BY DEF IInv, Dag, WellFormed
<1>2. QED
  BY <1>1, InitIInv, NextIInv, PTL DEF Spec

(***************************************************************************)
(* For machine words of every width: copy-normalize turns a copy into one  *)
(* that moves the same bytes, and copy-fuse turns two into one that moves  *)
(* what the two moved.                                                     *)
(***************************************************************************)
THEOREM CopyPassesExact == Spec => CopiesExact
<1>1. IInv /\ [Next]_vars => [Exact]_vars
  BY NextIInv
<1>2. Spec => [][Exact]_vars
  BY <1>1, InitIInv, NextIInv, PTL DEF Spec
<1>3. QED
  BY <1>2 DEF CopiesExact, Exact

(***************************************************************************)
(* When copy-fuse returns, it has fused the false twins it found when it   *)
(* began as far as their ranges touch.                                     *)
(***************************************************************************)
THEOREM TwinsFused == Spec => []FusionComplete
<1>1. IInv => FusionComplete
  BY DEF IInv, Loops, Settled, FusionComplete
<1>2. QED
  BY <1>1, InitIInv, NextIInv, PTL DEF Spec
=============================================================================
