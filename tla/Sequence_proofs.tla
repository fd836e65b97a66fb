--------------------------- MODULE Sequence_proofs ---------------------------
(***************************************************************************)
(* The pass sequence, for every recorded graph and every set of devices: a *)
(* grouping keeps the graph a coherent DAG and the order of all nodes, and *)
(* no chain is entered in its middle.                                      *)
(***************************************************************************)
EXTENDS Sequence, CommandGraph_proofs

(***************************************************************************)
(* C lies between a and b: the other nodes lead into it at a only and out  *)
(* of it at b only.                                                        *)
(***************************************************************************)
Segment(G, C, a, b) ==
  /\ C \subseteq G.members \intersect Inner /\ a \in C /\ b \in C
  /\ \A x \in C \ {a} : Preds(G, x) \subseteq C
  /\ \A x \in C \ {b} : Succs(G, x) \subseteq C
  /\ \A x \in C : <<a, x>> \in Paths(G) /\ <<x, b>> \in Paths(G)

(* w stands for the nodes of C. *)
Merged(C, w, x) == IF x \in C THEN w ELSE x

(* H is G with the segment C collapsed into the new node w. *)
Collapsed(G, H, C, a, b, w) ==
  /\ Dag(G) /\ Segment(G, C, a, b) /\ w \in Inner \ G.members
  /\ H \in Graphs /\ EdgesMirrored(H) /\ SimpleEdges(H)
  /\ H.members = (G.members \ C) \union {w}
  /\ \A x \in G.members \ C :
       Succs(H, x) = IF a \in Succs(G, x) THEN (Succs(G, x) \ {a}) \union {w} ELSE Succs(G, x)
  /\ Succs(H, w) = Succs(G, b)

-----------------------------------------------------------------------------
LEMMA SegmentEnds ==
  ASSUME NEW G, NEW C, NEW a, NEW b, Dag(G), Segment(G, C, a, b)
  PROVE  /\ Succs(G, b) \intersect C = {} /\ Preds(G, a) \intersect C = {}
         /\ \A x \in C : <<b, x>> \in Paths(G) => x = b
<1> USE DEF Dag
<1>1. a \in G.members /\ b \in G.members /\ C \subseteq G.members
  BY DEF Segment
<1>2. ASSUME NEW s \in Succs(G, b), s \in C PROVE FALSE
  BY <1>1, <1>2, NoWayBack DEF Segment
<1>3. ASSUME NEW p \in Preds(G, a), p \in C PROVE FALSE
  <2>1. a \in Succs(G, p)
    BY <1>1, <1>3, SuccsArePreds
  <2>2. QED
    BY <1>1, <1>3, <2>1, NoWayBack DEF Segment
<1>4. QED
  BY <1>2, <1>3, PathsAntisymmetric DEF Segment

(* Every edge between two nodes that stay apart leaves its edge ... *)
LEMMA EdgesCollapsed ==
  ASSUME NEW G, NEW H, NEW C, NEW a, NEW b, NEW w, Collapsed(G, H, C, a, b, w),
         NEW x \in G.members, NEW y \in Succs(G, x), Merged(C, w, x) # Merged(C, w, y)
  PROVE  Merged(C, w, y) \in Succs(H, Merged(C, w, x))
<1> USE DEF Dag
<1>1. y \in G.members /\ x \in Preds(G, y) /\ ~(x \in C /\ y \in C)
  BY SuccsAreMembers, SuccsArePreds DEF Collapsed, Merged
<1>2. CASE x \in C
  <2>1. x = b /\ y \notin C
    BY <1>1, <1>2 DEF Collapsed, Segment
  <2>2. QED
    BY <1>2, <2>1 DEF Collapsed, Merged
<1>3. CASE x \notin C
  <2>1. y \in C => y = a
    BY <1>1, <1>3 DEF Collapsed, Segment
  <2>2. a \in C
    BY DEF Collapsed, Segment
  <2>3. Succs(H, x) = IF a \in Succs(G, x) THEN (Succs(G, x) \ {a}) \union {w} ELSE Succs(G, x)
    BY <1>3 DEF Collapsed
  <2>4. QED
    BY <1>3, <2>1, <2>2, <2>3 DEF Merged
<1>4. QED
  BY <1>2, <1>3

(* ... and every edge that is left comes from one. *)
LEMMA CollapsedEdges ==
  ASSUME NEW G, NEW H, NEW C, NEW a, NEW b, NEW w, Collapsed(G, H, C, a, b, w),
         NEW p \in H.members, NEW q \in Succs(H, p)
  PROVE  /\ p # q
         /\ \E x, y \in G.members : y \in Succs(G, x) /\ Merged(C, w, x) = p /\ Merged(C, w, y) = q
<1> USE DEF Dag
<1>1. /\ a \in C /\ b \in C /\ C \subseteq G.members /\ w \notin G.members
      /\ G \in Graphs /\ EdgesMirrored(G) /\ Acyclic(G)
  BY DEF Collapsed, Segment
<1>2. CASE p = w
  <2>1. q \in Succs(G, b) /\ q \in G.members /\ q \notin C
    BY <1>1, <1>2, SuccsAreMembers, SegmentEnds DEF Collapsed
  <2>2. QED
    BY <1>1, <1>2, <2>1 DEF Merged
<1>3. CASE p \in G.members \ C
  <2>1. q \in IF a \in Succs(G, p) THEN (Succs(G, p) \ {a}) \union {w} ELSE Succs(G, p)
    BY <1>3 DEF Collapsed
  <2>2. CASE q = w
    <3>1. a \in Succs(G, p)
      BY <1>1, <1>3, <2>1, <2>2, SuccsAreMembers
    <3>2. QED
      BY <1>1, <1>3, <2>2, <3>1 DEF Merged
  <2>3. CASE q # w
    <3>1. q \in Succs(G, p) /\ q # a /\ q \in G.members
      BY <1>1, <1>3, <2>1, <2>3, SuccsAreMembers
    <3>2. q \notin C
      BY <1>1, <1>3, <3>1, SuccsArePreds DEF Collapsed, Segment
    <3>3. p # q
      BY <1>1, <1>3, <3>1, NoWayBack
    <3>4. QED
      BY <1>3, <3>1, <3>2, <3>3 DEF Merged
  <2>4. QED
    BY <2>2, <2>3
<1>4. QED
  BY <1>2, <1>3 DEF Collapsed

(***************************************************************************)
(* Two nodes that stay apart neither gain nor lose a path.                 *)
(***************************************************************************)
LEMMA PathsInCollapsed ==
  ASSUME NEW G, NEW H, NEW C, NEW a, NEW b, NEW w, Collapsed(G, H, C, a, b, w),
         NEW x, NEW y, <<x, y>> \in Paths(G)
  PROVE  <<Merged(C, w, x), Merged(C, w, y)>> \in Paths(H)
<1> USE DEF Dag
<1>1. /\ H \in Graphs /\ G \in Graphs /\ EdgesMirrored(G) /\ x \in G.members /\ y \in G.members
      /\ \A z \in G.members : Merged(C, w, z) \in H.members
  BY PathsOfMembers DEF Collapsed, Merged
<1>2. SUFFICES ASSUME NEW T \in Closed(H), Merged(C, w, x) \in T PROVE Merged(C, w, y) \in T
  BY <1>1, PathsBySets
<1> DEFINE S == {z \in G.members : Merged(C, w, z) \in T}
<1>3. ASSUME NEW z \in S, NEW s \in Succs(G, z) PROVE s \in S
  <2>1. s \in G.members /\ (Merged(C, w, s) = Merged(C, w, z) \/ Merged(C, w, s) \in Succs(H, Merged(C, w, z)))
    BY <1>1, SuccsAreMembers, EdgesCollapsed
  <2>2. Succs(H, Merged(C, w, z)) \subseteq T
    BY <1>1, ClosedSets
  <2>3. QED
    BY <2>1, <2>2
<1>4. S \in Closed(G)
  BY <1>1, <1>3, ClosedSets
<1>5. QED
  BY <1>1, <1>2, <1>4, PathsBySets

(* The only way into a segment leads through its first node. *)
LEMMA IntoSegment ==
  ASSUME NEW G, NEW C, NEW a, NEW b, Dag(G), Segment(G, C, a, b),
         NEW x, NEW z \in C, <<x, z>> \in Paths(G), x \notin C
  PROVE  <<x, a>> \in Paths(G)
<1> USE DEF Dag
<1>1. x \in G.members /\ z \in G.members /\ a \in G.members
  BY PathsOfMembers DEF Segment
<1>2. SUFFICES ASSUME a \notin After(G, x) PROVE FALSE
  BY DEF After
<1> DEFINE S == After(G, x) \ C
<1>3. After(G, x) \in Closed(G) /\ x \in After(G, x) /\ After(G, x) \subseteq G.members
  BY <1>1, AfterClosed DEF After
<1>4. ASSUME NEW s \in S, NEW t \in Succs(G, s) PROVE t \in S
  <2>1. t \in After(G, x) /\ t \in G.members /\ s \in Preds(G, t)
    BY <1>3, <1>4, ClosedSets, SuccsArePreds
  <2>2. t # a
    BY <1>2, <2>1
  <2>3. QED
    BY <2>1, <2>2 DEF Segment
<1>5. S \in Closed(G)
  BY <1>3, <1>4, ClosedSets
<1>6. QED
  BY <1>1, <1>3, <1>5, PathsBySets

LEMMA PathsOfCollapsed ==
  ASSUME NEW G, NEW H, NEW C, NEW a, NEW b, NEW w, Collapsed(G, H, C, a, b, w),
         NEW x \in G.members, NEW y \in G.members, Merged(C, w, x) # Merged(C, w, y),
         <<Merged(C, w, x), Merged(C, w, y)>> \in Paths(H)
  PROVE  <<x, y>> \in Paths(G)
<1> USE DEF Dag
<1> DEFINE S == After(G, x)
           T == {Merged(C, w, z) : z \in S}
<1>1. /\ H \in Graphs /\ G \in Graphs /\ EdgesMirrored(G)
      /\ Segment(G, C, a, b) /\ Dag(G) /\ C \subseteq G.members /\ a \in C /\ b \in C /\ w \notin G.members
      /\ \A z \in G.members : Merged(C, w, z) \in H.members
  BY DEF Collapsed, Segment, Merged
<1>2. S \in Closed(G) /\ x \in S /\ S \subseteq G.members /\ \A z \in S : Succs(G, z) \subseteq S
  BY <1>1, AfterClosed, ClosedSets
<1>3. ASSUME NEW z \in S, z \in C PROVE b \in S
  <2>1. <<z, b>> \in Paths(G)
    BY <1>1, <1>3 DEF Segment
  <2>2. QED
    BY <1>1, <1>2, <1>3, <2>1, PathsBySets
<1>4. ASSUME NEW p \in T, NEW q \in Succs(H, p) PROVE q \in T
  <2>1. PICK z \in S : p = Merged(C, w, z)
    OBVIOUS
  <2>2. p \in H.members
    BY <1>1, <1>2, <2>1
  <2>3. CASE z \in C
    <3>1. p = w /\ q \in Succs(G, b) /\ b \in S
      BY <1>3, <1>4, <2>1, <2>3 DEF Merged, Collapsed
    <3>2. q \notin C /\ q \in S
      BY <1>1, <1>2, <3>1, SegmentEnds
    <3>3. QED
      BY <3>2 DEF Merged
  <2>4. CASE z \notin C
    <3>1. p = z /\ z \in G.members \ C
      BY <1>2, <2>1, <2>4 DEF Merged
    <3>2. q \in IF a \in Succs(G, z) THEN (Succs(G, z) \ {a}) \union {w} ELSE Succs(G, z)
      BY <1>4, <3>1 DEF Collapsed
    <3>3. CASE q = w
      <4>1. a \in Succs(G, z)
        BY <1>1, <1>2, <3>2, <3>3, SuccsAreMembers
      <4>2. a \in S
        BY <1>2, <4>1
      <4>3. QED
        BY <1>1, <3>3, <4>2 DEF Merged
    <3>4. CASE q # w
      <4>1. q \in Succs(G, z) /\ q # a /\ q \in S
        BY <1>2, <3>2, <3>4
      <4>2. q \notin C
        BY <1>1, <1>2, <3>1, <4>1, SuccsArePreds DEF Segment
      <4>3. QED
        BY <4>1, <4>2 DEF Merged
    <3>5. QED
      BY <3>3, <3>4
  <2>5. QED
    BY <2>3, <2>4
<1>5. T \in Closed(H) /\ Merged(C, w, x) \in T
  <2>1. T \subseteq H.members
    BY <1>1, <1>2
  <2>2. QED
    BY <1>1, <1>2, <1>4, <2>1, ClosedSets
<1> HIDE DEF T
<1>6. Merged(C, w, y) \in T
  BY <1>1, <1>5, PathsBySets
<1>7. PICK z \in S : Merged(C, w, z) = Merged(C, w, y)
  BY <1>6 DEF T
<1>8. z \in G.members /\ <<x, z>> \in Paths(G)
  BY <1>7 DEF After
<1>9. CASE z = y
  BY <1>8, <1>9
<1>10. CASE z # y
  <2>1. z \in C /\ y \in C /\ x \notin C
    BY <1>1, <1>7, <1>8, <1>10 DEF Merged
  <2>2. <<x, a>> \in Paths(G) /\ <<a, y>> \in Paths(G)
    BY <1>1, <1>8, <2>1, IntoSegment DEF Segment
  <2>3. QED
    BY <1>1, <2>2, PathsTransitive
<1>11. QED
  BY <1>9, <1>10

LEMMA CollapsedDag ==
  ASSUME NEW G, NEW H, NEW C, NEW a, NEW b, NEW w, Collapsed(G, H, C, a, b, w)
  PROVE  Dag(H)
<1>1. ASSUME NEW p \in H.members, NEW q \in Succs(H, p) PROVE <<q, p>> \notin Paths(H)
  <2>1. PICK x, y \in G.members : y \in Succs(G, x) /\ Merged(C, w, x) = p /\ Merged(C, w, y) = q
    BY CollapsedEdges
  <2>2. p # q
    BY CollapsedEdges
  <2>3. <<q, p>> \in Paths(H) => <<y, x>> \in Paths(G)
    BY <2>1, <2>2, PathsOfCollapsed
  <2>4. <<y, x>> \notin Paths(G)
    BY <2>1, NoWayBack DEF Dag, Collapsed
  <2>5. QED
    BY <2>3, <2>4
<1>2. QED
  BY <1>1 DEF Acyclic, Dag, Collapsed

(* The entry stays the only source and the exit the only sink. *)
LEMMA CollapsedCoherent ==
  ASSUME NEW G, NEW H, NEW C, NEW a, NEW b, NEW w, Collapsed(G, H, C, a, b, w),
         Coherent(G), entry \in G.members, exit \in G.members
  PROVE  Coherent(H) /\ entry \in H.members /\ exit \in H.members
<1> USE DEF Dag
<1>1. /\ H \in Graphs /\ EdgesMirrored(H) /\ G \in Graphs /\ EdgesMirrored(G) /\ Acyclic(G)
      /\ C \subseteq G.members \intersect Inner /\ w \in Inner \ G.members
      /\ H.members = (G.members \ C) \union {w}
  BY DEF Collapsed, Segment
<1>2. /\ entry \in H.members /\ exit \in H.members
      /\ \A x \in G.members : Merged(C, w, x) \in {entry, exit} => Merged(C, w, x) = x
      /\ Merged(C, w, entry) = entry /\ Merged(C, w, exit) = exit
  BY <1>1 DEF Merged, Inner
<1>3. Succs(H, exit) = {} /\ Preds(H, entry) = {}
  <2>1. ASSUME NEW q \in Succs(H, exit) PROVE FALSE
    <3>1. PICK x, y \in G.members : y \in Succs(G, x) /\ Merged(C, w, x) = exit
      BY <1>2, CollapsedEdges
    <3>2. QED
      BY <1>2, <3>1 DEF Coherent
  <2>2. ASSUME NEW p \in Preds(H, entry) PROVE FALSE
    <3>1. p \in H.members /\ entry \in Succs(H, p)
      BY <1>1, <1>2, SuccsAreMembers, SuccsArePreds
    <3>2. PICK x, y \in G.members : y \in Succs(G, x) /\ Merged(C, w, y) = entry
      BY <3>1, CollapsedEdges
    <3>3. QED
      BY <1>1, <1>2, <3>2, SuccsArePreds DEF Coherent
  <2>3. QED
    BY <2>1, <2>2
<1>4. ASSUME NEW p \in H.members, <<entry, p>> \in Paths(H)
      PROVE  (p # entry => Preds(H, p) # {}) /\ (p # exit => Succs(H, p) # {})
  <2>1. \E x, z \in G.members : /\ <<entry, x>> \in Paths(G) /\ <<entry, z>> \in Paths(G)
                                /\ Merged(C, w, x) = p /\ Merged(C, w, z) = p
                                /\ x # entry => Preds(G, x) # {} /\ \A y \in Preds(G, x) : Merged(C, w, y) # p
                                /\ z # exit => Succs(G, z) # {} /\ \A y \in Succs(G, z) : Merged(C, w, y) # p
    <3>1. CASE p = w
      <4>1. /\ Merged(C, w, a) = p /\ Merged(C, w, b) = p /\ a \in G.members /\ b \in G.members
            /\ a # entry /\ b # exit /\ a \in C
        BY <1>1, <3>1 DEF Collapsed, Segment, Merged, Inner
      <4>2. <<entry, a>> \in Paths(G)
        <5>1. Merged(C, w, entry) # Merged(C, w, a)
          BY <1>1, <1>2, <3>1, <4>1
        <5>2. QED
          BY <1>2, <1>4, <4>1, <5>1, PathsOfCollapsed
      <4>3. <<entry, b>> \in Paths(G)
        BY <1>1, <4>1, <4>2, PathsTransitive DEF Collapsed, Segment
      <4>4. \A y \in Preds(G, a) \union Succs(G, b) : Merged(C, w, y) # p
        <5>1. \A y \in Preds(G, a) \union Succs(G, b) : y \notin C /\ y \in G.members
          BY <1>1, <4>1, SegmentEnds, SuccsAreMembers DEF Collapsed
        <5>2. QED
          BY <1>1, <3>1, <5>1 DEF Merged
      <4>5. Preds(G, a) # {} /\ Succs(G, b) # {}
        BY <4>1, <4>2, <4>3 DEF Coherent
      <4>6. QED
        BY <4>1, <4>2, <4>3, <4>4, <4>5
    <3>2. CASE p # w
      <4>1. p \in G.members /\ Merged(C, w, p) = p /\ p \notin C
        BY <1>1, <3>2 DEF Merged
      <4>2. <<entry, p>> \in Paths(G)
        <5>1. CASE p = entry
          BY <1>1, <5>1, PathsReflexive
        <5>2. CASE p # entry
          BY <1>2, <1>4, <4>1, <5>2, PathsOfCollapsed
        <5>3. QED
          BY <5>1, <5>2
      <4>3. \A y \in Preds(G, p) \union Succs(G, p) : y # p
        <5>1. p \notin Succs(G, p)
          BY <1>1, <4>1, NoWayBack
        <5>2. p \notin Preds(G, p)
          BY <1>1, <4>1, <5>1, SuccsArePreds
        <5>3. QED
          BY <5>1, <5>2
      <4>4. \A y \in Preds(G, p) \union Succs(G, p) : Merged(C, w, y) # p
        BY <3>2, <4>3 DEF Merged
      <4>5. (p # entry => Preds(G, p) # {}) /\ (p # exit => Succs(G, p) # {})
        BY <4>1, <4>2 DEF Coherent
      <4>6. QED
        BY <4>1, <4>2, <4>4, <4>5
    <3>3. QED
      BY <3>1, <3>2
  <2>2. PICK x \in G.members, z \in G.members :
                                /\ Merged(C, w, x) = p /\ Merged(C, w, z) = p
                                /\ x # entry => Preds(G, x) # {} /\ \A y \in Preds(G, x) : Merged(C, w, y) # p
                                /\ z # exit => Succs(G, z) # {} /\ \A y \in Succs(G, z) : Merged(C, w, y) # p
    BY <2>1
  <2>3. ASSUME p # entry PROVE Preds(H, p) # {}
    <3>1. x # entry
      BY <1>2, <2>2, <2>3
    <3>2. PICK y \in Preds(G, x) : Merged(C, w, y) # p
      BY <2>2, <3>1
    <3>3. y \in G.members /\ x \in Succs(G, y)
      BY <1>1, <3>2, SuccsAreMembers, SuccsArePreds
    <3>4. p \in Succs(H, Merged(C, w, y)) /\ Merged(C, w, y) \in H.members
      BY <1>1, <2>2, <3>2, <3>3, EdgesCollapsed DEF Merged
    <3>5. QED
      BY <1>1, <3>4, SuccsArePreds
  <2>4. ASSUME p # exit PROVE Succs(H, p) # {}
    <3>1. z # exit
      BY <1>2, <2>2, <2>4
    <3>2. PICK y \in Succs(G, z) : Merged(C, w, y) # p
      BY <2>2, <3>1
    <3>3. QED
      BY <2>2, <3>2, EdgesCollapsed
  <2>5. QED
    BY <2>3, <2>4
<1>5. QED
  BY <1>2, <1>3, <1>4 DEF Coherent
-----------------------------------------------------------------------------
(***************************************************************************)
(* detach_boundary(w, a, b), and the segment taken out of the members: the *)
(* lists, entry by entry.                                                  *)
(***************************************************************************)
DetachedLists(G, H, C, a, b, w) ==
  /\ H \in Graphs /\ H.members = (G.members \ C) \union {w}
  /\ \A x, y \in Node :
       /\ H.successors[x][y] =
            IF x \in Preds(G, a) THEN IF y = a THEN G.successors[x][a] - 1
                                      ELSE IF y = w THEN G.successors[x][w] + 1
                                      ELSE G.successors[x][y]
            ELSE IF x = w THEN G.successors[b][y]
            ELSE IF x = b THEN 0 ELSE G.successors[x][y]
       /\ H.predecessors[x][y] =
            IF x \in Succs(G, b) THEN IF y = b THEN G.predecessors[x][b] - 1
                                      ELSE IF y = w THEN G.predecessors[x][w] + 1
                                      ELSE G.predecessors[x][y]
            ELSE IF x = w THEN G.predecessors[a][y]
            ELSE IF x = a THEN 0 ELSE G.predecessors[x][y]

LEMMA DetachLists ==
  ASSUME NEW G \in Graphs, NEW C, NEW a \in Node, NEW b \in Node, NEW w \in Node, w # a, w # b,
         \A p \in Preds(G, a) : G.successors[p][a] > 0,
         \A s \in Succs(G, b) : G.predecessors[s][b] > 0,
         NEW H, H = [Detach(G, w, a, b) EXCEPT !.members = (G.members \ C) \union {w}]
  PROVE  DetachedLists(G, H, C, a, b, w)
<1>1. /\ H = [G EXCEPT !.successors = H.successors, !.predecessors = H.predecessors, !.members = H.members]
      /\ H.members = (G.members \ C) \union {w}
      /\ H.successors = [p \in Node |->
            IF p \in Preds(G, a) THEN PushBack(EraseOne(G.successors[p], a), w)
            ELSE IF p = w THEN G.successors[b]
            ELSE IF p = b THEN [x \in Node |-> 0]
            ELSE G.successors[p]]
      /\ H.predecessors = [s \in Node |->
            IF s \in Succs(G, b) THEN PushBack(EraseOne(G.predecessors[s], b), w)
            ELSE IF s = w THEN G.predecessors[a]
            ELSE IF s = a THEN [x \in Node |-> 0]
            ELSE G.predecessors[s]]
  BY DEF Detach, Swap, Graphs
<1>2. \A x \in Node : G.successors[x] \in [Node -> Nat] /\ G.predecessors[x] \in [Node -> Nat]
  BY DEF Graphs, Lists
<1>3. ASSUME NEW x \in Node
      PROVE  /\ H.successors[x] \in [Node -> Nat]
             /\ \A y \in Node : H.successors[x][y] =
                  IF x \in Preds(G, a) THEN IF y = a THEN G.successors[x][a] - 1
                                            ELSE IF y = w THEN G.successors[x][w] + 1
                                            ELSE G.successors[x][y]
                  ELSE IF x = w THEN G.successors[b][y]
                  ELSE IF x = b THEN 0 ELSE G.successors[x][y]
  <2>1. CASE x \in Preds(G, a)
    <3>1. H.successors[x] = PushBack(EraseOne(G.successors[x], a), w) /\ G.successors[x][a] > 0
      BY <1>1, <2>1
    <3>2. QED
      BY <1>2, <2>1, <3>1, MoveOne
  <2>2. CASE x \notin Preds(G, a)
    <3>1. H.successors[x] = IF x = w THEN G.successors[b] ELSE IF x = b THEN [y \in Node |-> 0]
                            ELSE G.successors[x]
      BY <1>1, <2>2
    <3>2. QED
      BY <1>2, <2>2, <3>1
  <2>3. QED
    BY <2>1, <2>2
<1>4. ASSUME NEW x \in Node
      PROVE  /\ H.predecessors[x] \in [Node -> Nat]
             /\ \A y \in Node : H.predecessors[x][y] =
                  IF x \in Succs(G, b) THEN IF y = b THEN G.predecessors[x][b] - 1
                                            ELSE IF y = w THEN G.predecessors[x][w] + 1
                                            ELSE G.predecessors[x][y]
                  ELSE IF x = w THEN G.predecessors[a][y]
                  ELSE IF x = a THEN 0 ELSE G.predecessors[x][y]
  <2>1. CASE x \in Succs(G, b)
    <3>1. H.predecessors[x] = PushBack(EraseOne(G.predecessors[x], b), w) /\ G.predecessors[x][b] > 0
      BY <1>1, <2>1
    <3>2. QED
      BY <1>2, <2>1, <3>1, MoveOne
  <2>2. CASE x \notin Succs(G, b)
    <3>1. H.predecessors[x] = IF x = w THEN G.predecessors[a] ELSE IF x = a THEN [y \in Node |-> 0]
                              ELSE G.predecessors[x]
      BY <1>1, <2>2
    <3>2. QED
      BY <1>2, <2>2, <3>1
  <2>3. QED
    BY <2>1, <2>2
<1>5. H.successors \in Lists /\ H.predecessors \in Lists
  BY <1>1, <1>3, <1>4 DEF Lists
<1>6. H \in Graphs
  BY <1>1, <1>5 DEF Graphs
<1>7. H.members = (G.members \ C) \union {w}
  BY <1>1
<1>8. QED
  BY <1>3, <1>4, <1>6, <1>7 DEF DetachedLists

LEMMA DetachCollapses ==
  ASSUME NEW G, NEW C, NEW a, NEW b, Dag(G), Segment(G, C, a, b), NEW w \in Inner \ G.members,
         NEW H, H = [Detach(G, w, a, b) EXCEPT !.members = (G.members \ C) \union {w}]
  PROVE  Collapsed(G, H, C, a, b, w) /\ DetachedLists(G, H, C, a, b, w)
<1>1. /\ G \in Graphs /\ EdgesMirrored(G) /\ G.members \subseteq Node
      /\ C \subseteq G.members /\ a \in C /\ b \in C /\ w \in Node /\ w \notin G.members
  BY DEF Dag, Segment, Graphs, Inner
<1>2. \A x \in Node : /\ x \in Preds(G, a) <=> x \in G.members /\ G.successors[x][a] = 1
                      /\ x \in Succs(G, b) <=> x \in G.members /\ G.predecessors[x][b] = 1
  BY <1>1, DagLists DEF Preds, Succs
<1>3. DetachedLists(G, H, C, a, b, w)
  <2>1. /\ \A p \in Preds(G, a) : G.successors[p][a] > 0
        /\ \A s \in Succs(G, b) : G.predecessors[s][b] > 0
    BY <1>2 DEF Preds, Succs
  <2>2. QED
    BY <1>1, <2>1, DetachLists
<1>4. /\ a \notin Succs(G, b) /\ b \notin Succs(G, b) /\ a \notin Preds(G, a) /\ b \notin Preds(G, a)
      /\ \A x \in Node \ G.members : G.successors[b][x] = 0 /\ G.predecessors[a][x] = 0
      /\ \A x \in G.members : G.successors[x][w] = 0 /\ G.predecessors[x][w] = 0
  BY <1>1, SegmentEnds, DagLists
<1>5. H \in Graphs /\ H.members = (G.members \ C) \union {w}
  BY <1>3 DEF DetachedLists
<1>6. /\ \A y \in Node : H.successors[w][y] = G.successors[b][y] /\ H.predecessors[w][y] = G.predecessors[a][y]
      /\ \A x \in G.members \ C, y \in Node \ {w} :
           /\ y # a => H.successors[x][y] = G.successors[x][y]
           /\ y # b => H.predecessors[x][y] = G.predecessors[x][y]
      /\ \A x \in G.members \ C :
           /\ H.successors[x][a] = 0 /\ H.predecessors[x][b] = 0
           /\ H.successors[x][w] = IF x \in Preds(G, a) THEN 1 ELSE 0
           /\ H.predecessors[x][w] = IF x \in Succs(G, b) THEN 1 ELSE 0
  <2>1. w \notin Preds(G, a) /\ w \notin Succs(G, b)
    BY <1>1, <1>2
  <2>2. \A y \in Node : H.successors[w][y] = G.successors[b][y] /\ H.predecessors[w][y] = G.predecessors[a][y]
    BY <1>1, <1>3, <2>1 DEF DetachedLists
  <2>3. ASSUME NEW x \in G.members \ C
        PROVE  /\ \A y \in Node \ {w} :
                    /\ y # a => H.successors[x][y] = G.successors[x][y]
                    /\ y # b => H.predecessors[x][y] = G.predecessors[x][y]
               /\ H.successors[x][a] = 0 /\ H.predecessors[x][b] = 0
               /\ H.successors[x][w] = IF x \in Preds(G, a) THEN 1 ELSE 0
               /\ H.predecessors[x][w] = IF x \in Succs(G, b) THEN 1 ELSE 0
    <3>1. /\ x \in Node /\ x # w /\ x # a /\ x # b /\ a \in Node /\ b \in Node /\ w # a /\ w # b
          /\ G.successors[x][w] = 0 /\ G.predecessors[x][w] = 0
          /\ G.successors[x][a] \in {0, 1} /\ G.predecessors[x][b] \in {0, 1}
          /\ x \in Preds(G, a) <=> G.successors[x][a] = 1
          /\ x \in Succs(G, b) <=> G.predecessors[x][b] = 1
      BY <1>1, <1>2, <1>4, DagLists
    <3>2. \A y \in Node :
            /\ H.successors[x][y] =
                 IF x \in Preds(G, a) THEN IF y = a THEN G.successors[x][a] - 1
                                           ELSE IF y = w THEN G.successors[x][w] + 1
                                           ELSE G.successors[x][y]
                 ELSE G.successors[x][y]
            /\ H.predecessors[x][y] =
                 IF x \in Succs(G, b) THEN IF y = b THEN G.predecessors[x][b] - 1
                                           ELSE IF y = w THEN G.predecessors[x][w] + 1
                                           ELSE G.predecessors[x][y]
                 ELSE G.predecessors[x][y]
      BY <1>3, <3>1 DEF DetachedLists
    <3>3. QED
      BY <1>1, <3>1, <3>2
  <2>4. QED
    BY <2>2, <2>3
<1>7. \A x \in G.members \ C, y \in C : /\ y # a => G.successors[x][y] = 0
                                        /\ y # b => G.predecessors[x][y] = 0
  <2>1. SUFFICES ASSUME NEW x \in G.members \ C, NEW y \in C
                 PROVE  /\ y # a => x \notin Preds(G, y) /\ G.successors[x][y] = G.predecessors[y][x]
                        /\ y # b => x \notin Succs(G, y) /\ G.predecessors[x][y] = G.successors[y][x]
    BY <1>1, DagLists DEF Preds, Succs
  <2>2. QED
    BY <1>1, DagLists DEF Segment
<1>8. EdgesMirrored(H)
  <2>1. SUFFICES ASSUME NEW x \in H.members, NEW y \in Node
                 PROVE  IF y \in H.members THEN H.successors[x][y] = H.predecessors[y][x]
                        ELSE H.successors[x][y] = 0 /\ H.predecessors[x][y] = 0
    BY DEF EdgesMirrored
  <2>2. CASE x = w /\ y = w
    BY <1>1, <1>4, <1>5, <1>6, <2>2
  <2>3. CASE x = w /\ y \in G.members \ C
    <3>1. G.successors[b][y] = G.predecessors[y][b] /\ G.successors[b][y] \in {0, 1}
      BY <1>1, <2>3, DagLists
    <3>2. QED
      BY <1>1, <1>2, <1>5, <1>6, <2>3, <3>1
  <2>4. CASE x = w /\ y \notin H.members
    <3>1. CASE y \in C
      BY <1>1, <1>6, <2>4, <3>1, SegmentEnds, DagLists DEF Succs, Preds
    <3>2. CASE y \notin C
      BY <1>4, <1>5, <1>6, <2>4, <3>2
    <3>3. QED
      BY <3>1, <3>2
  <2>5. CASE x # w /\ y = w
    <3>1. x \in G.members \ C
      BY <1>5, <2>5
    <3>2. G.successors[x][a] = G.predecessors[a][x] /\ G.predecessors[a][x] \in {0, 1}
      BY <1>1, <3>1, DagLists
    <3>3. QED
      BY <1>1, <1>2, <1>5, <1>6, <2>5, <3>1, <3>2
  <2>6. CASE x # w /\ y \in G.members \ C
    BY <1>1, <1>5, <1>6, <2>6, DagLists
  <2>7. CASE x # w /\ y \notin H.members
    <3>1. x \in G.members \ C /\ y # w
      BY <1>5, <2>7
    <3>2. CASE y \in C
      BY <1>1, <1>6, <1>7, <3>1, <3>2
    <3>3. CASE y \notin C
      BY <1>1, <1>5, <1>6, <2>7, <3>1, <3>3, DagLists
    <3>4. QED
      BY <3>2, <3>3
  <2>8. QED
    BY <1>5, <2>2, <2>3, <2>4, <2>5, <2>6, <2>7
<1>9. SimpleEdges(H)
  <2>1. SUFFICES ASSUME NEW x \in H.members, NEW y \in Node PROVE H.successors[x][y] <= 1
    BY DEF SimpleEdges
  <2>2. CASE x = w
    <3>1. H.successors[x][y] \in {0, 1}
      BY <1>1, <1>6, <2>2, DagLists
    <3>2. QED
      BY <3>1
  <2>3. CASE x # w
    <3>1. x \in G.members \ C
      BY <1>5, <2>3
    <3>2. H.successors[x][y] \in {0, 1}
      BY <1>1, <1>6, <3>1, DagLists
    <3>3. QED
      BY <3>2
  <2>4. QED
    BY <2>2, <2>3
<1>10. ASSUME NEW x \in G.members \ C
       PROVE  Succs(H, x) = IF a \in Succs(G, x) THEN (Succs(G, x) \ {a}) \union {w} ELSE Succs(G, x)
  <2>1. a \in Succs(G, x) <=> x \in Preds(G, a)
    BY <1>1, SuccsArePreds
  <2>2. w \notin Succs(G, x)
    BY <1>1, SuccsAreMembers
  <2>3. \A y \in Node : y \in Succs(H, x) <=> IF y = w THEN a \in Succs(G, x) ELSE y \in Succs(G, x) /\ y # a
    <3>1. SUFFICES ASSUME NEW y \in Node
                   PROVE  H.successors[x][y] > 0 <=>
                            IF y = w THEN a \in Succs(G, x) ELSE G.successors[x][y] > 0 /\ y # a
      BY DEF Succs
    <3>2. QED
      BY <1>1, <1>6, <2>1
  <2>4. QED
    BY <1>1, <2>2, <2>3 DEF Succs
<1>11. Succs(H, w) = Succs(G, b)
  BY <1>6 DEF Succs
<1>12. QED
  BY <1>3, <1>5, <1>8, <1>9, <1>10, <1>11 DEF Collapsed
-----------------------------------------------------------------------------
(***************************************************************************)
(* A chain: the least set around u that no sequence edge leaves.           *)
(***************************************************************************)
LEMMA SequenceEdge ==
  ASSUME NEW G, Dag(G), NEW u \in G.members, NEW v \in G.members, ChainedIn(G, u, v)
  PROVE  Succs(G, u) = {v} /\ Preds(G, v) = {u} /\ u # v /\ u \in Inner /\ v \in Inner
<1>1. Succs(G, u) = {v} /\ Preds(G, v) = {u} /\ u \in Inner /\ v \in Inner
  BY DEF ChainedIn, AreSequence, Candidate, Preds, Succs, Just, Dag, Graphs
<1>2. QED
  BY <1>1, NoWayBack DEF Dag

LEMMA ChainLeast ==
  ASSUME NEW u \in g.members
  PROVE  /\ u \in Chain(u) /\ Chain(u) \subseteq g.members
         /\ \A y \in Chain(u), z \in g.members : Chained(y, z) => z \in Chain(u)
         /\ \A S \in SUBSET g.members :
              u \in S /\ (\A y \in S, z \in g.members : Chained(y, z) => z \in S) => Chain(u) \subseteq S
<1> DEFINE next == [y \in g.members |-> {z \in g.members : Chained(y, z)}]
<1>1. Chain(u) = {z \in g.members :
         \A S \in SUBSET g.members : u \in S /\ (\A y \in S : next[y] \subseteq S) => z \in S}
  BY DEF Chain
<1>2. \A S \in SUBSET g.members :
        (\A y \in S : next[y] \subseteq S) <=> (\A y \in S, z \in g.members : Chained(y, z) => z \in S)
  OBVIOUS
<1> HIDE DEF next
<1>3. QED
  BY <1>1, <1>2

(* Every node of a chain but the first comes after another one. *)
LEMMA ChainPredecessor ==
  ASSUME NEW u \in g.members, NEW x \in Chain(u), x # u
  PROVE  \E p \in Chain(u) : Chained(p, x)
<1> DEFINE S == {y \in Chain(u) : y = u \/ \E p \in Chain(u) : Chained(p, y)}
<1>1. S \subseteq g.members /\ u \in S
  BY ChainLeast
<1>2. \A y \in S, z \in g.members : Chained(y, z) => z \in S
  BY ChainLeast
<1>3. Chain(u) \subseteq S
  BY <1>1, <1>2, ChainLeast
<1>4. QED
  BY <1>3

LEMMA ChainSegment ==
  ASSUME Dag(g), NEW u \in g.members, Candidate(u),
         NEW b, b = Tail(Chain(u))
  PROVE  /\ Segment(g, Chain(u), u, b)
         /\ \A x \in Chain(u) : Candidate(x) /\ dev[x] = dev[u]
<1> USE DEF Dag
<1> DEFINE C == Chain(u)
<1>1. u \in C /\ C \subseteq g.members /\ \A y \in C, z \in g.members : Chained(y, z) => z \in C
  BY ChainLeast
<1>2. \A x \in C : Candidate(x) /\ dev[x] = dev[u]
  <2> DEFINE S == {x \in C : Candidate(x) /\ dev[x] = dev[u]}
  <2>1. S \in SUBSET g.members /\ u \in S /\ \A y \in S, z \in g.members : Chained(y, z) => z \in S
    BY <1>1 DEF Chained, ChainedIn
  <2> HIDE DEF S
  <2>2. C \subseteq S
    BY <2>1, ChainLeast
  <2>3. QED
    BY <2>2 DEF S
<1>3. \A y \in C, z \in g.members : Chained(y, z) =>
        Succs(g, y) = {z} /\ Preds(g, z) = {y} /\ <<y, z>> \in Paths(g)
  <2>1. SUFFICES ASSUME NEW y \in C, NEW z \in g.members, Chained(y, z)
                 PROVE  Succs(g, y) = {z} /\ Preds(g, z) = {y} /\ <<y, z>> \in Paths(g)
    OBVIOUS
  <2>2. Succs(g, y) = {z} /\ Preds(g, z) = {y}
    BY <1>1, <2>1, SequenceEdge DEF Chained
  <2>3. QED
    BY <1>1, <2>2, EdgesArePaths
<1>4. \A x \in C : <<u, x>> \in Paths(g)
  <2> DEFINE S == {x \in C : <<u, x>> \in Paths(g)}
  <2>1. S \in SUBSET g.members /\ u \in S
    BY <1>1, PathsReflexive
  <2>2. \A y \in S, z \in g.members : Chained(y, z) => z \in S
    BY <1>1, <1>3, PathsTransitive
  <2> HIDE DEF S
  <2>3. C \subseteq S
    BY <2>1, <2>2, ChainLeast
  <2>4. QED
    BY <2>3 DEF S
<1>5. b \in C /\ \A y \in C : ~Chained(b, y)
  <2>1. \E x \in C : \A y \in C : y \notin Succs(g, x)
    BY <1>1, DagHasSink
  <2>2. \E x \in C : \A y \in C : ~Chained(x, y)
    BY <1>1, <1>3, <2>1
  <2>3. QED
    BY <2>2 DEF Tail
<1>6. ASSUME NEW t \in C, \A y \in C : ~Chained(t, y) PROVE \A x \in C : <<x, t>> \in Paths(g)
  <2> DEFINE S == {x \in C : <<x, t>> \in Paths(g)}
  <2>1. S \in SUBSET g.members /\ u \in S
    BY <1>1, <1>4, <1>6
  <2>2. ASSUME NEW y \in S, NEW z \in g.members, Chained(y, z) PROVE z \in S
    <3>1. z \in C /\ y # t
      BY <1>1, <1>6, <2>2
    <3>2. PICK s \in Succs(g, y) : <<s, t>> \in Paths(g)
      BY <2>2, <3>1, FirstEdge
    <3>3. Succs(g, y) = {z}
      BY <1>3, <2>2
    <3>4. QED
      BY <3>1, <3>2, <3>3
  <2> HIDE DEF S
  <2>3. C \subseteq S
    BY <2>1, <2>2, ChainLeast
  <2>4. QED
    BY <2>3 DEF S
<1>7. \A x \in C \ {b} : \E y \in C : Chained(x, y)
  <2>1. SUFFICES ASSUME NEW x \in C, \A y \in C : ~Chained(x, y) PROVE x = b
    OBVIOUS
  <2>2. <<b, x>> \in Paths(g) /\ <<x, b>> \in Paths(g)
    BY <1>5, <1>6, <2>1
  <2>3. QED
    BY <2>2, PathsAntisymmetric
<1>8. C \subseteq Inner
  BY <1>2 DEF Candidate
<1>9. \A x \in C \ {u} : Preds(g, x) \subseteq C
  <2>1. SUFFICES ASSUME NEW x \in C, x # u PROVE Preds(g, x) \subseteq C
    OBVIOUS
  <2>2. PICK p \in C : Chained(p, x)
    BY <2>1, ChainPredecessor
  <2>3. Preds(g, x) = {p}
    BY <1>1, <1>3, <2>2
  <2>4. QED
    BY <2>3
<1>10. \A x \in C \ {b} : Succs(g, x) \subseteq C
  <2>1. SUFFICES ASSUME NEW x \in C, x # b PROVE Succs(g, x) \subseteq C
    OBVIOUS
  <2>2. PICK y \in C : Chained(x, y)
    BY <1>7, <2>1
  <2>3. Succs(g, x) = {y}
    BY <1>1, <1>3, <2>2
  <2>4. QED
    BY <2>3
<1>11. \A x \in C : <<x, b>> \in Paths(g)
  BY <1>5, <1>6
<1> HIDE DEF C
<1>12. Segment(g, C, u, b)
  BY <1>1, <1>4, <1>5, <1>8, <1>9, <1>10, <1>11 DEF Segment
<1>13. QED
  BY <1>2, <1>12 DEF C

(***************************************************************************)
(* The paths of the sub-graph of a segment are those it had in the graph.  *)
(***************************************************************************)
LEMMA SegmentPaths ==
  ASSUME NEW G, NEW C, NEW a, NEW b, Dag(G), Segment(G, C, a, b),
         NEW K, K \in Graphs, K.members = C, Succs(K, b) = {},
         \A x \in C \ {b} : Succs(K, x) = Succs(G, x),
         NEW x \in C, NEW y \in C
  PROVE  <<x, y>> \in Paths(K) <=> <<x, y>> \in Paths(G)
<1> USE DEF Dag
<1>1. C \subseteq G.members /\ b \in C
  BY DEF Segment
<1>2. ASSUME <<x, y>> \in Paths(G), NEW S \in Closed(K), x \in S PROVE y \in S
  <2>1. S \subseteq C /\ \A z \in S : Succs(K, z) \subseteq S
    BY ClosedSets
  <2>2. \A z \in S \ {b} : Succs(G, z) \subseteq S
    BY <2>1
  <2>3. CASE b \notin S
    <3>1. S \in Closed(G)
      BY <1>1, <2>1, <2>2, <2>3, ClosedSets
    <3>2. QED
      BY <1>1, <1>2, <3>1, PathsBySets
  <2>4. CASE b \in S
    <3>1. /\ After(G, b) \subseteq G.members
          /\ \A z \in After(G, b) : <<b, z>> \in Paths(G) /\ Succs(G, z) \subseteq After(G, b)
      BY <1>1, AfterClosed, ClosedSets DEF After
    <3>2. b \in After(G, b)
      BY <1>1, AfterClosed
    <3>3. S \union After(G, b) \in Closed(G)
      BY <1>1, <2>1, <2>2, <3>1, <3>2, ClosedSets
    <3>4. y \in S \union After(G, b)
      BY <1>1, <1>2, <3>3, PathsBySets
    <3>5. QED
      BY <2>4, <3>1, <3>4, SegmentEnds
  <2>5. QED
    BY <2>3, <2>4
<1>3. ASSUME <<x, y>> \in Paths(K), NEW S \in Closed(G), x \in S PROVE y \in S
  <2>1. \A z \in S : Succs(G, z) \subseteq S
    BY ClosedSets
  <2>2. ASSUME NEW z \in S \intersect C PROVE Succs(K, z) \subseteq S \intersect C
    <3>1. z = b \/ (z # b /\ Succs(K, z) = Succs(G, z) /\ Succs(G, z) \subseteq C)
      BY <2>2 DEF Segment
    <3>2. QED
      BY <2>1, <2>2, <3>1
  <2>3. S \intersect C \in Closed(K)
    BY <2>2, ClosedSets
  <2>4. QED
    BY <1>3, <2>3, PathsBySets
<1>4. QED
  BY <1>1, <1>2, <1>3, PathsBySets
-----------------------------------------------------------------------------
(***************************************************************************)
(* I nests nodes in the graph whose members are M: every recorded node is  *)
(* in the top-level graph or in one sub-graph.                             *)
(***************************************************************************)
Nesting(I, M) ==
  /\ I \in [Node -> SUBSET Node] /\ M \subseteq Node
  /\ \A B \in Node : /\ I[B] \subseteq RecordedNodes \ M
                     /\ I[B] # {} => B \in Batch /\ B \in M
  /\ \A B, D \in Node : B # D => I[B] \intersect I[D] = {}
  /\ \A u \in RecordedNodes : u \in M \/ \E B \in Node : u \in I[B]

(***************************************************************************)
(* The inductive invariant of the top-level graph and its order.           *)
(***************************************************************************)
Order ==
  /\ TypeOK
  /\ Dag(g) /\ Coherent(g) /\ entry \in g.members /\ exit \in g.members
  /\ listed \subseteq RecordedNodes
  /\ Nesting(inside, g.members)
  /\ \A B \in Node : inside[B] \subseteq contracted
  /\ \A B \in Batch : kind[B] = "batch"
  /\ NestedPrecedence(g, inside, RecordedNodes) = Precedence(origin, RecordedNodes)

LEMMA HomeOf ==
  ASSUME NEW I, NEW M, Nesting(I, M)
  PROVE  /\ \A B \in Node : \A u \in I[B] : Home(I, u) = B
         /\ \A u \in RecordedNodes :
              /\ Home(I, u) \in M
              /\ \/ u \in M /\ Home(I, u) = u
                 \/ u \notin M /\ Home(I, u) \in Batch /\ u \in I[Home(I, u)]
<1>1. ASSUME NEW B \in Node, NEW u \in I[B] PROVE Home(I, u) = B
  <2>1. (CHOOSE D \in Node : u \in I[D]) \in Node /\ u \in I[CHOOSE D \in Node : u \in I[D]]
    OBVIOUS
  <2>2. (CHOOSE D \in Node : u \in I[D]) = B
    BY <2>1 DEF Nesting
  <2>3. QED
    BY <2>2 DEF Home
<1>2. ASSUME NEW u \in RecordedNodes
      PROVE  /\ Home(I, u) \in M
             /\ \/ u \in M /\ Home(I, u) = u
                \/ u \notin M /\ Home(I, u) \in Batch /\ u \in I[Home(I, u)]
  <2>1. CASE u \in M
    <3>1. ~ \E B \in Node : u \in I[B]
      BY <2>1 DEF Nesting
    <3>2. QED
      BY <2>1, <3>1 DEF Home
  <2>2. CASE u \notin M
    <3>1. PICK B \in Node : u \in I[B]
      BY <2>2 DEF Nesting
    <3>2. Home(I, u) = B
      BY <1>1, <3>1
    <3>3. QED
      BY <2>2, <3>1, <3>2 DEF Nesting
  <2>3. QED
    BY <2>1, <2>2
<1>3. QED
  BY <1>1, <1>2

LEMMA SamePairs ==
  ASSUME NEW C, NEW S, NEW T, S \subseteq C \X C, T \subseteq C \X C,
         \A x, y \in C : <<x, y>> \in S <=> <<x, y>> \in T
  PROVE  S = T
<1>1. ASSUME NEW p \in C \X C PROVE p \in S <=> p \in T
  <2>1. PICK x, y \in C : p = <<x, y>>
    OBVIOUS
  <2>2. QED
    BY <2>1
<1>2. QED
  BY <1>1

(* The precedence, pair by pair. *)
LEMMA NestedPairs ==
  ASSUME NEW G, NEW I, NEW M, Nesting(I, M)
  PROVE  /\ NestedPrecedence(G, I, RecordedNodes) \subseteq RecordedNodes \X RecordedNodes
         /\ \A x, y \in RecordedNodes :
              <<x, y>> \in NestedPrecedence(G, I, RecordedNodes) <=>
                /\ x # y
                /\ IF Home(I, x) = Home(I, y)
                   THEN <<x, y>> \in PathsInside(G, I, Home(I, x))
                   ELSE <<Home(I, x), Home(I, y)>> \in Paths(G)
<1> DEFINE home == [u \in RecordedNodes |-> Home(I, u)]
           sub  == [B \in {B \in Node : I[B] # {}} |-> PathsInside(G, I, B)]
<1>1. NestedPrecedence(G, I, RecordedNodes) =
        {p \in RecordedNodes \X RecordedNodes :
         /\ p[1] # p[2]
         /\ IF home[p[1]] = home[p[2]] THEN p \in sub[home[p[1]]]
                                       ELSE <<home[p[1]], home[p[2]]>> \in Paths(G)}
  BY DEF NestedPrecedence
<1>2. \A x \in RecordedNodes : home[x] = Home(I, x)
  OBVIOUS
<1>3. ASSUME NEW x \in RecordedNodes, NEW y \in RecordedNodes, x # y, Home(I, x) = Home(I, y)
      PROVE  sub[Home(I, x)] = PathsInside(G, I, Home(I, x))
  <2>1. x \in I[Home(I, x)] \/ y \in I[Home(I, x)]
    BY <1>3, HomeOf
  <2>2. Home(I, x) \in Node
    BY HomeOf DEF Nesting
  <2>3. QED
    BY <2>1, <2>2
<1> HIDE DEF home, sub
<1>4. QED
  BY <1>1, <1>2, <1>3

-----------------------------------------------------------------------------
LEMMA InitOrder == Init => Order /\ origin = g /\ RecordedNodes \subseteq g.members
<1> SUFFICES ASSUME Init PROVE Order /\ origin = g /\ RecordedNodes \subseteq g.members
  OBVIOUS
<1>1. PICK E \in EdgeSets, l \in Labels : kind = l.kind /\ dev = l.dev /\ g = RecordedGraph(E, kind)
  BY DEF Init
<1>2. kind \in [Node -> Kind] /\ dev \in [Node -> Device] /\ \A B \in Batch : kind[B] = "batch"
  BY <1>1, NestedAssumption
<1> DEFINE h == RecordedGraph(E, [u \in Node |-> "control"])
<1> DEFINE allocated == RecordedNodes \ {entry, exit}
<1>3. E \subseteq RecordedNodes \X RecordedNodes /\ Acyclic(h) /\ Coherent(h)
  BY NestedAssumption
<1>4. /\ allocated \in SUBSET Inner /\ allocated \union {entry, exit} = RecordedNodes
      /\ RecordedNodes \subseteq Node /\ entry \in RecordedNodes /\ exit \in RecordedNodes
  BY NodeAssumption, NestedAssumption DEF RecordedNodes, Inner
<1> HIDE DEF allocated
<1>5. g \in Graphs /\ EdgesMirrored(g) /\ SimpleEdges(g) /\ g.members = RecordedNodes
  <2>1. [u \in Node |-> IF kind[u] = "control" THEN "EMPTY" ELSE "COMMAND"] \in [Node -> NodeType]
    BY DEF NodeType
  <2>2. E \in SUBSET ((allocated \union {entry, exit}) \X (allocated \union {entry, exit}))
    BY <1>3, <1>4
  <2>3. QED
    BY <1>1, <1>4, <2>1, <2>2, RecordedLists DEF RecordedGraph, allocated
<1>6. g.successors = h.successors /\ g.predecessors = h.predecessors /\ g.members = h.members
  BY <1>1 DEF RecordedGraph, Recorded
<1>7. Paths(g) = Paths(h) /\ After(g, entry) = After(h, entry)
  <2>1. \A G, H : G.successors = H.successors /\ G.members = H.members =>
                    Paths(G) = Paths(H) /\ \A a : After(G, a) = After(H, a)
    BY PathsOfLists
  <2> HIDE DEF h
  <2>2. QED
    BY <1>6, <2>1
<1>8. Acyclic(g) /\ Coherent(g)
  <2>1. \A x : Succs(g, x) = Succs(h, x) /\ Preds(g, x) = Preds(h, x)
    BY <1>6 DEF Succs, Preds
  <2> HIDE DEF h
  <2>2. QED
    BY <1>3, <1>6, <1>7, <2>1 DEF Acyclic, Coherent
<1>9. listed = After(g, entry) /\ origin = g /\ listed \subseteq g.members /\ inside = NothingNested
  BY DEF Init, After
<1>10. TypeOK
  BY <1>2, <1>4, <1>5, <1>9 DEF Init, TypeOK, NothingNested
<1>11. Nesting(inside, g.members) /\ \A B \in Node : inside[B] \subseteq contracted
  BY <1>4, <1>5, <1>9 DEF Nesting, NothingNested
<1>12. NestedPrecedence(g, inside, RecordedNodes) = Precedence(origin, RecordedNodes)
  <2>1. \A u \in RecordedNodes : Home(inside, u) = u
    BY <1>5, <1>11, HomeOf
  <2>2. \A x, y \in RecordedNodes :
          <<x, y>> \in Precedence(origin, RecordedNodes) <=> x # y /\ <<x, y>> \in Paths(g)
    BY <1>9 DEF Precedence
  <2>3. Precedence(origin, RecordedNodes) \subseteq RecordedNodes \X RecordedNodes
    BY <1>5, <1>9 DEF Precedence, Paths
  <2>4. QED
    BY <1>11, <2>1, <2>2, <2>3, NestedPairs, SamePairs
<1>13. QED
  BY <1>2, <1>3, <1>4, <1>5, <1>8, <1>9, <1>10, <1>11, <1>12 DEF Order, Dag

(***************************************************************************)
(* What a grouping is: the chain is a segment, and it is collapsed.        *)
(***************************************************************************)
LEMMA GroupCollapses ==
  ASSUME Order, NEW u \in Node, NEW B \in Batch, Group(u, B)
  PROVE  /\ u \in g.members /\ B \in Inner \ g.members /\ B \in Node
         /\ Segment(g, Chain(u), u, Tail(Chain(u)))
         /\ Collapsed(g, g', Chain(u), u, Tail(Chain(u)), B)
         /\ DetachedLists(g, g', Chain(u), u, Tail(Chain(u)), B)
         /\ Chain(u) \subseteq RecordedNodes
         /\ inside' = [inside EXCEPT ![B] = Chain(u)] /\ inside[B] = {}
         /\ contracted' = contracted \union Chain(u)
         /\ dev' = [dev EXCEPT ![B] = dev[u]]
         /\ UNCHANGED <<kind, pc, listed, origin>>
<1>1. B \in Inner \ g.members /\ B \in Node
  BY NestedAssumption DEF Group, Inner
<1>2. u \in g.members /\ Candidate(u)
  <2>1. u \in RecordedNodes /\ u \notin contracted /\ Candidate(u)
    BY DEF Group, Reached, IsHead, Chained, ChainedIn, Order
  <2>2. QED
    BY <2>1 DEF Order, Nesting
<1>3. Segment(g, Chain(u), u, Tail(Chain(u))) /\ \A x \in Chain(u) : Candidate(x)
  BY <1>2, ChainSegment DEF Order
<1>4. g' = [Detach(g, B, u, Tail(Chain(u))) EXCEPT !.members = (g.members \ Chain(u)) \union {B}]
  BY DEF Group
<1>5. /\ Collapsed(g, g', Chain(u), u, Tail(Chain(u)), B)
      /\ DetachedLists(g, g', Chain(u), u, Tail(Chain(u)), B)
  BY <1>1, <1>3, <1>4, DetachCollapses DEF Order
<1>6. Chain(u) \subseteq RecordedNodes
  BY <1>3 DEF Candidate, Inner, RecordedNodes, Order, Segment
<1>7. QED
  BY <1>1, <1>2, <1>3, <1>5, <1>6 DEF Group, Order, Nesting

(* The homes after it: the BATCH for the chain, the same for the others. *)
LEMMA GroupHomes ==
  ASSUME Order, NEW u \in Node, NEW B \in Batch, Group(u, B)
  PROVE  /\ TypeOK' /\ Nesting(inside', g'.members) /\ \A D \in Node : inside'[D] \subseteq contracted'
         /\ \A x \in RecordedNodes :
              Home(inside', x) = Merged(Chain(u), B, Home(inside, x))
<1> DEFINE C == Chain(u)
<1>1. /\ u \in g.members /\ B \in Inner \ g.members /\ B \in Node
      /\ C \subseteq g.members /\ u \in C /\ C \subseteq RecordedNodes
      /\ g' \in Graphs /\ g'.members = (g.members \ C) \union {B}
      /\ inside' = [inside EXCEPT ![B] = C] /\ inside[B] = {}
      /\ contracted' = contracted \union C
      /\ dev' = [dev EXCEPT ![B] = dev[u]]
      /\ UNCHANGED <<kind, pc, listed, origin>>
  BY GroupCollapses DEF Collapsed, Segment
<1> HIDE DEF C
<1>2. TypeOK /\ Nesting(inside, g.members) /\ (\A D \in Node : inside[D] \subseteq contracted) /\ g.members \subseteq Node /\ C \subseteq Node
  BY <1>1 DEF Order, TypeOK, Graphs, RecordedNodes
<1>3. TypeOK'
  <2>1. dev' \in [Node -> Device] /\ inside' \in [Node -> SUBSET Node] /\ contracted' \subseteq Node
    BY <1>1, <1>2 DEF TypeOK
  <2>2. flagged' \subseteq Batch /\ visited' \subseteq listed'
    BY <1>1, <1>2 DEF TypeOK, Group, Reached
  <2>3. QED
    BY <1>1, <1>2, <2>1, <2>2 DEF TypeOK
<1>4. \A D \in Node : inside'[D] = IF D = B THEN C ELSE inside[D]
  BY <1>1, <1>2 DEF TypeOK
<1>5. Nesting(inside', g'.members) /\ \A D \in Node : inside'[D] \subseteq contracted'
  <2>1. ASSUME NEW D \in Node
        PROVE  /\ inside'[D] \subseteq RecordedNodes \ g'.members
               /\ inside'[D] \subseteq contracted'
               /\ inside'[D] # {} => D \in Batch /\ D \in g'.members
    <3>1. CASE D = B
      BY <1>1, <1>4, <3>1 DEF RecordedNodes
    <3>2. CASE D # B
      <4>1. inside'[D] = inside[D] /\ inside[D] \subseteq RecordedNodes \ g.members /\ inside[D] \subseteq contracted
        BY <1>2, <1>4, <3>2 DEF Nesting
      <4>2. inside[D] # {} => D \in Batch /\ D \in g.members
        BY <1>2 DEF Nesting
      <4>3. QED
        BY <1>1, <4>1, <4>2 DEF RecordedNodes
    <3>3. QED
      BY <3>1, <3>2
  <2>2. ASSUME NEW D \in Node, NEW F \in Node, D # F PROVE inside'[D] \intersect inside'[F] = {}
    <3>1. \A A \in Node : inside[A] \intersect C = {}
      BY <1>1, <1>2 DEF Nesting
    <3>2. QED
      BY <1>2, <1>4, <2>2, <3>1 DEF Nesting
  <2>3. ASSUME NEW x \in RecordedNodes PROVE x \in g'.members \/ \E D \in Node : x \in inside'[D]
    <3>1. CASE x \in C
      BY <1>1, <1>4, <3>1
    <3>2. CASE x \notin C
      BY <1>1, <1>2, <1>4, <3>2 DEF Nesting
    <3>3. QED
      BY <3>1, <3>2
  <2>4. QED
    BY <1>1, <1>2, <1>3, <2>1, <2>2, <2>3 DEF Nesting, TypeOK, Graphs
<1>6. ASSUME NEW x \in RecordedNodes PROVE Home(inside', x) = Merged(C, B, Home(inside, x))
  <2>1. \A D \in Node : \A y \in inside'[D] : Home(inside', y) = D
    BY <1>5, HomeOf
  <2>2. CASE x \in C
    <3>1. Home(inside, x) = x /\ x \in inside'[B]
      BY <1>1, <1>2, <1>4, <2>2, HomeOf
    <3>2. QED
      BY <1>1, <2>1, <2>2, <3>1 DEF Merged
  <2>3. CASE x \notin C /\ x \in g.members
    <3>1. Home(inside, x) = x
      BY <1>2, <2>3, HomeOf
    <3>2. ~ \E D \in Node : x \in inside'[D]
      BY <1>2, <1>4, <2>3 DEF Nesting
    <3>3. QED
      BY <2>3, <3>1, <3>2 DEF Home, Merged
  <2>4. CASE x \notin C /\ x \notin g.members
    <3>1. Home(inside, x) \in Batch /\ x \in inside[Home(inside, x)] /\ Home(inside, x) \in Node
      BY <1>2, <2>4, HomeOf
    <3>2. Home(inside, x) # B /\ Home(inside, x) \notin C
      BY <1>1, <3>1 DEF RecordedNodes
    <3>3. x \in inside'[Home(inside, x)]
      BY <1>4, <3>1, <3>2
    <3>4. QED
      BY <2>1, <3>1, <3>2, <3>3 DEF Merged
  <2>5. QED
    BY <2>2, <2>3, <2>4
<1>7. QED
  BY <1>3, <1>5, <1>6 DEF C

(***************************************************************************)
(* A grouping keeps the order: two nodes of the chain keep their paths in  *)
(* the sub-graph, two nodes of another sub-graph theirs, and all others    *)
(* the paths between their homes.                                          *)
(***************************************************************************)
LEMMA GroupKeepsOrder ==
  ASSUME Order, NEW u \in Node, NEW B \in Batch, Group(u, B)
  PROVE  NestedPrecedence(g, inside, RecordedNodes)' = NestedPrecedence(g, inside, RecordedNodes)
<1> DEFINE C == Chain(u)
           t == Tail(C)
<1>1. /\ Segment(g, C, u, t) /\ Collapsed(g, g', C, u, t, B) /\ DetachedLists(g, g', C, u, t, B)
      /\ C \subseteq RecordedNodes /\ B \in Node /\ B \notin g.members
      /\ inside' = [inside EXCEPT ![B] = C] /\ inside[B] = {}
  BY GroupCollapses
<1>2. Nesting(inside', g'.members) /\ \A x \in RecordedNodes : Home(inside', x) = Merged(C, B, Home(inside, x))
  BY GroupHomes
<1> HIDE DEF C, t
<1>3. TypeOK /\ Nesting(inside, g.members) /\ Dag(g) /\ g \in Graphs /\ g' \in Graphs /\ g.members \subseteq Node
  BY <1>1 DEF Order, Dag, Graphs, Collapsed
<1>4. C \subseteq g.members /\ u \in C /\ t \in C /\ C \subseteq Node
  BY <1>1, <1>3 DEF Segment
<1>5. \A D \in Node : inside'[D] = IF D = B THEN C ELSE inside[D]
  BY <1>1, <1>3 DEF TypeOK
<1> DEFINE Sub(D) == [g EXCEPT !.members = inside[D]]
           SubNow(D) == [g' EXCEPT !.members = inside'[D]]
<1>6. ASSUME NEW x \in RecordedNodes, NEW y \in RecordedNodes, x # y,
             Home(inside, x) = Home(inside, y)
      PROVE  /\ Home(inside', x) = Home(inside, x) /\ Home(inside', y) = Home(inside, y)
             /\ <<x, y>> \in Paths(SubNow(Home(inside, x))) <=> <<x, y>> \in Paths(Sub(Home(inside, x)))
  <2> DEFINE D == Home(inside, x)
  <2>1. D \in Batch /\ D \in Node /\ D \in g.members /\ inside[D] \subseteq RecordedNodes \ g.members
    <3>1. D \in Batch /\ D \in g.members
      BY <1>3, <1>6, HomeOf DEF RecordedNodes
    <3>2. QED
      BY <1>3, <3>1 DEF Nesting
  <2>2. D \notin C /\ D # B /\ inside'[D] = inside[D]
    BY <1>1, <1>5, <2>1 DEF RecordedNodes
  <2>3. Home(inside', x) = D /\ Home(inside', y) = D
    BY <1>2, <1>6, <2>2 DEF Merged
  <2>4. \A z \in inside[D] : g'.successors[z] = g.successors[z]
    <3>1. SUFFICES ASSUME NEW z \in inside[D] PROVE g'.successors[z] = g.successors[z]
      OBVIOUS
    <3>2. z \in Node /\ z \notin g.members /\ z # B /\ z # t /\ z \notin Preds(g, u)
      <4>1. z \in Node /\ z \notin g.members /\ z # B
        BY <2>1 DEF RecordedNodes
      <4>2. Preds(g, u) \subseteq g.members
        BY <1>3, <1>4, SuccsAreMembers DEF Dag
      <4>3. QED
        BY <1>4, <4>1, <4>2
    <3>3. \A w \in Node : g'.successors[z][w] = g.successors[z][w]
      BY <1>1, <3>2 DEF DetachedLists
    <3>4. g'.successors[z] \in [Node -> Nat] /\ g.successors[z] \in [Node -> Nat]
      BY <1>3, <3>2 DEF Graphs, Lists
    <3>5. QED
      BY <3>3, <3>4
  <2>5. Closed(SubNow(D)) = Closed(Sub(D))
    <3>1. /\ Sub(D).members = inside[D] /\ SubNow(D).members = inside[D]
          /\ Sub(D).successors = g.successors /\ SubNow(D).successors = g'.successors
      BY <1>3, <2>2 DEF Graphs
    <3>2. \A z \in inside[D] : Succs(Sub(D), z) = Succs(SubNow(D), z)
      BY <2>4, <3>1 DEF Succs
    <3> HIDE DEF Sub, SubNow, D
    <3>3. QED
      BY <3>1, <3>2 DEF Closed
  <2>6. Paths(SubNow(D)) = Paths(Sub(D))
    <3>1. SubNow(D).members = Sub(D).members
      BY <1>3, <2>2 DEF Graphs
    <3> HIDE DEF Sub, SubNow, D
    <3>2. QED
      BY <2>5, <3>1 DEF Paths, Separated
  <2> HIDE DEF Sub, SubNow, D
  <2>7. QED
    BY <1>6, <2>3, <2>6 DEF D
<1>7. ASSUME NEW x \in RecordedNodes, NEW y \in RecordedNodes, x # y,
             Home(inside, x) # Home(inside, y), Home(inside', x) = Home(inside', y)
      PROVE  /\ Home(inside, x) = x /\ Home(inside, y) = y
             /\ Home(inside', x) = B
             /\ <<x, y>> \in Paths(SubNow(B)) <=> <<x, y>> \in Paths(g)
  <2>1. Home(inside, x) \in C /\ Home(inside, y) \in C /\ Home(inside', x) = B
    <3>1. Home(inside, x) # B /\ Home(inside, y) # B
      BY <1>1, <1>3, HomeOf
    <3>2. QED
      BY <1>2, <1>7, <3>1 DEF Merged
  <2>2. Home(inside, x) = x /\ Home(inside, y) = y
    BY <1>1, <1>3, <2>1, HomeOf DEF RecordedNodes
  <2>3. SubNow(B).successors = g'.successors /\ SubNow(B).members = C /\ SubNow(B) \in Graphs
    BY <1>3, <1>4, <1>5, <1>1 DEF Graphs
  <2>4. Succs(SubNow(B), t) = {} /\ \A z \in C \ {t} : Succs(SubNow(B), z) = Succs(g, z)
    <3>1. Preds(g, u) \intersect C = {}
      BY <1>1, <1>3, SegmentEnds
    <3>2. \A z \in C, w \in Node : g'.successors[z][w] = IF z = t THEN 0 ELSE g.successors[z][w]
      BY <1>1, <1>4, <3>1 DEF DetachedLists
    <3> HIDE DEF SubNow
    <3>3. QED
      BY <1>4, <2>3, <3>2 DEF Succs
  <2> HIDE DEF SubNow
  <2>5. <<x, y>> \in Paths(SubNow(B)) <=> <<x, y>> \in Paths(g)
    BY <1>1, <1>3, <2>1, <2>2, <2>3, <2>4, SegmentPaths
  <2>6. QED
    BY <2>1, <2>2, <2>5
<1>8. ASSUME NEW x \in RecordedNodes, NEW y \in RecordedNodes, Home(inside', x) # Home(inside', y)
      PROVE  /\ Home(inside, x) # Home(inside, y)
             /\ <<Home(inside', x), Home(inside', y)>> \in Paths(g') <=>
                  <<Home(inside, x), Home(inside, y)>> \in Paths(g)
  <2>1. Home(inside, x) \in g.members /\ Home(inside, y) \in g.members
    BY <1>3, HomeOf
  <2>2. /\ Home(inside', x) = Merged(C, B, Home(inside, x))
        /\ Home(inside', y) = Merged(C, B, Home(inside, y))
    BY <1>2
  <2>3. QED
    BY <1>1, <1>8, <2>1, <2>2, PathsInCollapsed, PathsOfCollapsed
<1>9. \A D : /\ PathsInside(g, inside, D) = Paths(Sub(D))
             /\ PathsInside(g', inside', D) = Paths(SubNow(D))
  BY DEF PathsInside
<1> HIDE DEF Sub, SubNow
<1>10. /\ NestedPrecedence(g, inside, RecordedNodes) \subseteq RecordedNodes \X RecordedNodes
       /\ \A x, y \in RecordedNodes :
            <<x, y>> \in NestedPrecedence(g, inside, RecordedNodes) <=>
              /\ x # y
              /\ IF Home(inside, x) = Home(inside, y)
                 THEN <<x, y>> \in Paths(Sub(Home(inside, x)))
                 ELSE <<Home(inside, x), Home(inside, y)>> \in Paths(g)
  BY <1>3, <1>9, NestedPairs
<1>11. /\ NestedPrecedence(g', inside', RecordedNodes) \subseteq RecordedNodes \X RecordedNodes
       /\ \A x, y \in RecordedNodes :
            <<x, y>> \in NestedPrecedence(g', inside', RecordedNodes) <=>
              /\ x # y
              /\ IF Home(inside', x) = Home(inside', y)
                 THEN <<x, y>> \in Paths(SubNow(Home(inside', x)))
                 ELSE <<Home(inside', x), Home(inside', y)>> \in Paths(g')
  BY <1>2, <1>9, NestedPairs
<1>12. ASSUME NEW x \in RecordedNodes, NEW y \in RecordedNodes, x # y
       PROVE  (IF Home(inside', x) = Home(inside', y)
               THEN <<x, y>> \in Paths(SubNow(Home(inside', x)))
               ELSE <<Home(inside', x), Home(inside', y)>> \in Paths(g'))
              <=>
              (IF Home(inside, x) = Home(inside, y)
               THEN <<x, y>> \in Paths(Sub(Home(inside, x)))
               ELSE <<Home(inside, x), Home(inside, y)>> \in Paths(g))
  <2>1. CASE Home(inside, x) = Home(inside, y)
    BY <1>6, <1>12, <2>1
  <2>2. CASE Home(inside, x) # Home(inside, y) /\ Home(inside', x) = Home(inside', y)
    BY <1>7, <1>12, <2>2
  <2>3. CASE Home(inside', x) # Home(inside', y)
    BY <1>8, <1>12, <2>3
  <2>4. QED
    BY <2>1, <2>2, <2>3
<1>13. QED
  <2>1. \A x, y \in RecordedNodes :
          <<x, y>> \in NestedPrecedence(g', inside', RecordedNodes) <=>
          <<x, y>> \in NestedPrecedence(g, inside, RecordedNodes)
    BY <1>10, <1>11, <1>12
  <2>2. NestedPrecedence(g', inside', RecordedNodes) = NestedPrecedence(g, inside, RecordedNodes)
    BY <1>10, <1>11, <2>1, SamePairs
  <2>3. NestedPrecedence(g, inside, RecordedNodes)' = NestedPrecedence(g', inside', RecordedNodes)
    OBVIOUS
  <2>4. QED
    BY <2>2, <2>3
-----------------------------------------------------------------------------
LEMMA PassOrder ==
  ASSUME Order, NEW u \in Node, Pass(u) \/ TooShort(u) \/ Return
  PROVE  Order' /\ g' = g
<1>1. UNCHANGED <<g, kind, dev, inside, flagged, listed, origin>>
  BY DEF Pass, TooShort, Return
<1>2. visited' \subseteq listed' /\ pc' \in {"scan", "done"} /\ contracted \subseteq contracted' /\ contracted' \subseteq Node
  <2>1. CASE Pass(u)
    BY <2>1 DEF Pass, Reached, Order, TypeOK
  <2>2. CASE Return
    BY <2>2 DEF Return, Order, TypeOK
  <2>3. CASE TooShort(u)
    <3>1. Chain(u) \subseteq Node
      BY DEF Chain, Order, Dag, Graphs
    <3>2. QED
      BY <2>3, <3>1 DEF TooShort, Reached, Order, TypeOK
  <2>4. QED
    BY <2>1, <2>2, <2>3
<1>3. TypeOK'
  BY <1>1, <1>2 DEF Order, TypeOK
<1>4. QED
  BY <1>1, <1>2, <1>3 DEF Order

LEMMA GroupOrder ==
  ASSUME Order, NEW u \in Node, NEW B \in Batch, Group(u, B)
  PROVE  Order'
<1>1. /\ Collapsed(g, g', Chain(u), u, Tail(Chain(u)), B)
      /\ UNCHANGED <<kind, listed, origin>>
  BY GroupCollapses
<1>2. TypeOK' /\ Nesting(inside', g'.members) /\ \A D \in Node : inside'[D] \subseteq contracted'
  BY GroupHomes
<1>3. Dag(g')
  BY <1>1, CollapsedDag
<1>4. Coherent(g') /\ entry \in g'.members /\ exit \in g'.members
  BY <1>1, CollapsedCoherent DEF Order
<1>5. NestedPrecedence(g, inside, RecordedNodes)' = NestedPrecedence(g, inside, RecordedNodes)
  BY GroupKeepsOrder
<1>6. QED
  BY <1>1, <1>2, <1>3, <1>4, <1>5 DEF Order

LEMMA NextOrder == Order /\ [Next]_vars => Order'
<1> SUFFICES ASSUME Order, [Next]_vars PROVE Order'
  OBVIOUS
<1>1. CASE UNCHANGED vars
  BY <1>1 DEF vars, Order, TypeOK
<1>2. CASE Next
  BY <1>2, PassOrder, GroupOrder, NodeAssumption DEF Next
<1>3. QED
  BY <1>1, <1>2

(***************************************************************************)
(* The top-level graph, its nesting and the order of the recorded nodes    *)
(* satisfy Order in every reachable state.                                 *)
(***************************************************************************)
THEOREM OrderInvariant == Spec => []Order
<1>1. Init => Order
  BY InitOrder
<1>2. QED
  BY <1>1, NextOrder, PTL DEF Spec

(***************************************************************************)
(* detach_boundary() leaves a coherent DAG after every grouping, whatever  *)
(* chain the scan meets first.                                             *)
(***************************************************************************)
THEOREM GroupingsStayCoherent == Spec => StaysCoherent
<1>1. Order' => (TypeOK /\ EdgesMirrored(g) /\ SimpleEdges(g) /\ Acyclic(g) /\ Coherent(g))'
  BY DEF Order, Dag
<1>2. Order /\ [Next]_vars =>
        [g' # g => (TypeOK /\ EdgesMirrored(g) /\ SimpleEdges(g) /\ Acyclic(g) /\ Coherent(g))']_vars
  BY <1>1, NextOrder
<1>3. QED
  BY <1>2, OrderInvariant, PTL DEF Spec, StaysCoherent

(***************************************************************************)
(* A grouping reorders no two recorded nodes: those of the chain keep      *)
(* their paths in the sub-graph, and all others see the BATCH where they   *)
(* saw the chain.                                                          *)
(***************************************************************************)
THEOREM GroupingsKeepOrder == Spec => OrderKept
<1>1. Order' => (NestedPrecedence(g, inside, RecordedNodes) = Precedence(origin, RecordedNodes))'
  BY DEF Order
<1>2. Order /\ [Next]_vars => origin' = origin
  BY DEF Next, Pass, TooShort, Group, Return, vars
<1>3. Order /\ [Next]_vars =>
        [g' # g => NestedPrecedence(g, inside, RecordedNodes)' = Precedence(origin, RecordedNodes)]_vars
  BY <1>1, <1>2, NextOrder
<1>4. QED
  BY <1>3, OrderInvariant, PTL DEF Spec, OrderKept
-----------------------------------------------------------------------------
(***************************************************************************)
(* No chain is entered in its middle.  The two nodes of a recorded         *)
(* sequence edge stay together: in one sub-graph, or next to each other in *)
(* the top-level graph.  The scan passes the first only when it is marked, *)
(* and marks the second with it, so that the second is never taken for a   *)
(* head.  A marked node that stays is on a chain of less than two tasks.   *)
(***************************************************************************)
Origin ==
  /\ Dag(origin) /\ origin.members = RecordedNodes
  /\ \A u, v \in Node : v \in Succs(origin, u) => u \in listed

Together(u, v) ==
  /\ \A B \in Node : u \in inside[B] <=> v \in inside[B]
  /\ {u, v} \subseteq g.members => Chained(u, v)
  /\ u \in visited => u \in contracted
  /\ u \in contracted => v \in contracted

Short(u) == Cardinality(Tasks(Chain(u))) < 2

Chains ==
  /\ Order /\ Origin
  /\ \A u, v \in RecordedNodes : ChainedIn(origin, u, v) => Together(u, v)
  /\ contracted \subseteq RecordedNodes
  /\ \A u \in contracted \intersect g.members : Short(u)

LEMMA InitChains == Init => Chains
<1> SUFFICES ASSUME Init PROVE Chains
  OBVIOUS
<1>1. Order /\ origin = g /\ RecordedNodes \subseteq g.members
  BY InitOrder
<1>2. inside = NothingNested /\ visited = {} /\ contracted = {} /\ listed = After(g, entry)
  BY DEF Init
<1>3. PICK E \in EdgeSets : g = RecordedGraph(E, kind)
  BY DEF Init
<1> DEFINE h == RecordedGraph(E, [u \in Node |-> "control"])
<1>4. /\ \A e \in E : e[1] \in After(h, entry)
      /\ E \subseteq RecordedNodes \X RecordedNodes
  BY NestedAssumption
<1>5. g.successors = h.successors /\ g.members = h.members
  BY <1>3 DEF RecordedGraph, Recorded
<1>6. After(g, entry) = After(h, entry)
  <2>1. \A G, H : G.successors = H.successors /\ G.members = H.members =>
                    Paths(G) = Paths(H) /\ \A a : After(G, a) = After(H, a)
    BY PathsOfLists
  <2> HIDE DEF h
  <2>2. QED
    BY <1>5, <2>1
<1> HIDE DEF h
<1>7. ASSUME NEW u \in Node, NEW v \in Node, v \in Succs(g, u) PROVE u \in listed
  <2>1. <<u, v>> \in E
    BY <1>3, <1>7 DEF RecordedGraph, Recorded, Succs
  <2>2. <<u, v>>[1] \in After(h, entry)
    BY <1>4, <2>1
  <2>3. QED
    BY <1>2, <1>6, <2>2
<1>8. g.members \subseteq RecordedNodes
  BY <1>3, NodeAssumption, NestedAssumption DEF RecordedGraph, Recorded, RecordedNodes, Inner
<1>9. Origin
  BY <1>1, <1>7, <1>8 DEF Origin, Order
<1>10. \A u, v \in RecordedNodes : ChainedIn(origin, u, v) => Together(u, v)
  BY <1>1, <1>2 DEF Together, Chained, NothingNested
<1>11. QED
  BY <1>1, <1>2, <1>9, <1>10 DEF Chains

(* The two nodes of a sequence edge are inside the same sub-graph or both  *)
(* in the top-level graph. *)
LEMMA TogetherMembers ==
  ASSUME Chains, NEW x \in RecordedNodes, NEW y \in RecordedNodes, ChainedIn(origin, x, y),
         x \in g.members \/ y \in g.members \/ x \notin contracted \/ y \notin contracted
  PROVE  x \in g.members /\ y \in g.members /\ Chained(x, y)
<1>1. Nesting(inside, g.members) /\ Together(x, y) /\ \A B \in Node : inside[B] \subseteq contracted
  BY DEF Chains, Order
<1>2. \A B \in Node : x \notin inside[B] /\ y \notin inside[B]
  BY <1>1 DEF Nesting, Together
<1>3. QED
  BY <1>1, <1>2 DEF Nesting, Together

(***************************************************************************)
(* A chain, from the head the scan comes to, contains both nodes of a      *)
(* recorded sequence edge or none: the node before the head would have     *)
(* been passed, marked, and the head with it.                              *)
(***************************************************************************)
LEMMA ChainWhole ==
  ASSUME Chains, NEW u \in Node, Reached(u), IsHead(u),
         NEW x \in RecordedNodes, NEW y \in RecordedNodes, ChainedIn(origin, x, y)
  PROVE  u \in g.members /\ Candidate(u) /\ (x \in Chain(u) <=> y \in Chain(u))
<1>1. u \in g.members /\ Candidate(u)
  <2>1. u \in RecordedNodes /\ u \notin contracted /\ Candidate(u)
    BY DEF Reached, IsHead, Chained, ChainedIn, Chains, Order
  <2>2. QED
    BY <2>1 DEF Chains, Order, Nesting
<1>2. Chain(u) \subseteq g.members /\ \A p \in Chain(u), z \in g.members : Chained(p, z) => z \in Chain(u)
  BY <1>1, ChainLeast
<1>3. Dag(g) /\ Dag(origin) /\ origin.members = RecordedNodes
  BY DEF Chains, Order, Origin
<1>4. ASSUME x \in Chain(u) PROVE y \in Chain(u)
  BY <1>2, <1>4, TogetherMembers
<1>5. ASSUME y \in Chain(u) PROVE x \in Chain(u)
  <2>1. x \in g.members /\ y \in g.members /\ Chained(x, y)
    BY <1>2, <1>5, TogetherMembers
  <2>2. CASE y = u
    <3>1. u \notin contracted /\ u # entry
      BY <1>1 DEF IsHead, Candidate, Inner
    <3>2. PICK p \in visited : u \in Succs(origin, p)
      BY <3>1 DEF Reached
    <3>3. p \in RecordedNodes
      BY DEF Chains, Order, TypeOK
    <3>4. p \in Preds(origin, u)
      BY <1>3, <2>2, <3>2, <3>3, SuccsArePreds DEF Dag
    <3>5. Preds(origin, y) = {x}
      BY <1>3, SequenceEdge
    <3>6. x \in visited
      BY <2>2, <3>2, <3>4, <3>5
    <3>7. y \in contracted
      BY <3>6 DEF Chains, Together
    <3>8. QED
      BY <2>2, <3>1, <3>7
  <2>3. CASE y # u
    <3>1. PICK p \in Chain(u) : Chained(p, y)
      BY <1>1, <1>5, <2>3, ChainPredecessor
    <3>2. Preds(g, y) = {p} /\ Preds(g, y) = {x}
      BY <1>2, <1>3, <2>1, <3>1, SequenceEdge DEF Chained
    <3>3. QED
      BY <3>1, <3>2
  <2>4. QED
    BY <2>2, <2>3
<1>6. QED
  BY <1>1, <1>4, <1>5

(* A set of fewer tasks. *)
LEMMA FewerTasks ==
  ASSUME NEW S, NEW T, S \subseteq T, T \subseteq Node, Cardinality(Tasks(T)) < 2
  PROVE  Cardinality(Tasks(S)) < 2
<1>1. IsFiniteSet(Tasks(T)) /\ Tasks(S) \subseteq Tasks(T)
  BY NodeAssumption, FS_Subset DEF Tasks
<1>2. /\ Cardinality(Tasks(S)) <= Cardinality(Tasks(T))
      /\ Cardinality(Tasks(S)) \in Nat /\ Cardinality(Tasks(T)) \in Nat
  BY <1>1, FS_Subset, FS_CardinalityType
<1>3. QED
  BY <1>2

(* The chain of a node on the chain of u is a part of that chain. *)
LEMMA ChainOfChain ==
  ASSUME NEW u \in g.members, NEW x \in Chain(u)
  PROVE  Chain(x) \subseteq Chain(u)
BY ChainLeast

(***************************************************************************)
(* A step that adds no sequence edge leaves a short chain short.           *)
(***************************************************************************)
Least(M, next, u) ==
  {z \in M : \A S \in SUBSET M : u \in S /\ (\A y \in S : next[y] \subseteq S) => z \in S}

LEMMA LeastShrinks ==
  ASSUME NEW M, NEW N, NEW R \in [M -> SUBSET M], NEW Q \in [N -> SUBSET N], NEW x \in M \intersect N,
         \A y \in M \intersect N : Q[y] \subseteq R[y]
  PROVE  Least(N, Q, x) \subseteq Least(M, R, x)
<1>1. SUFFICES ASSUME NEW z \in Least(N, Q, x),
                      NEW S \in SUBSET M, x \in S, \A y \in S : R[y] \subseteq S
               PROVE  z \in S
  <2>1. x \in M /\ \A y \in M : R[y] \subseteq M
    OBVIOUS
  <2>2. QED
    BY <2>1 DEF Least
<1>2. S \intersect N \in SUBSET N /\ x \in S \intersect N
  BY <1>1
<1>3. \A y \in S \intersect N : Q[y] \subseteq S \intersect N
  BY <1>1
<1>4. QED
  BY <1>2, <1>3 DEF Least

LEMMA StaysShort ==
  ASSUME TypeOK, kind' = kind, NEW x \in g.members \intersect g'.members, Short(x),
         \A y \in g.members \intersect g'.members, z \in g'.members :
           Chained(y, z)' => z \in g.members /\ Chained(y, z)
  PROVE  Short(x)'
<1> DEFINE R == [y \in g.members |-> {z \in g.members : Chained(y, z)}]
           Q == [y \in g'.members |-> {z \in g'.members : Chained(y, z)'}]
<1>1. Chain(x) = Least(g.members, R, x)
  BY DEF Chain, Least
<1>2. Chain(x)' = Least(g'.members, Q, x)
  BY DEF Chain, Least
<1>3. R \in [g.members -> SUBSET g.members] /\ Q \in [g'.members -> SUBSET g'.members]
  OBVIOUS
<1>4. \A y \in g.members \intersect g'.members : Q[y] \subseteq R[y]
  OBVIOUS
<1> HIDE DEF Q, R
<1>5. Chain(x)' \subseteq Chain(x)
  BY <1>1, <1>2, <1>3, <1>4, LeastShrinks
<1>6. Chain(x) \subseteq Node
  BY DEF Chain, TypeOK, Graphs
<1>7. Tasks(Chain(x))' = Tasks(Chain(x)')
  BY DEF Tasks
<1>8. Cardinality(Tasks(Chain(x)')) < 2
  BY <1>5, <1>6, FewerTasks DEF Short
<1>9. QED
  BY <1>7, <1>8 DEF Short

-----------------------------------------------------------------------------
(* The scan passes a node, or marks a short chain. *)
LEMMA PassChains ==
  ASSUME Chains, NEW u \in Node, Pass(u)
  PROVE  Chains'
<1>1. /\ UNCHANGED <<g, kind, dev, inside, flagged, pc, contracted, listed, origin>>
      /\ visited' = visited \union {u} /\ ~IsHead(u)
  BY DEF Pass, Reached
<1>2. Order'
  BY PassOrder DEF Chains
<1>3. ASSUME NEW x \in RecordedNodes, NEW y \in RecordedNodes, ChainedIn(origin, x, y)
      PROVE  x \in visited' => x \in contracted
  <2>1. Together(x, y)
    BY <1>3 DEF Chains
  <2>2. x \notin contracted => IsHead(x)
    BY <1>3, TogetherMembers DEF IsHead
  <2>3. QED
    BY <1>1, <2>1, <2>2 DEF Together
<1>4. \A x, y \in RecordedNodes : ChainedIn(origin, x, y)' => Together(x, y)'
  BY <1>1, <1>3 DEF Chains, Together, ChainedIn, Candidate, Chained
<1>5. \A x \in (contracted \intersect g.members)' : Short(x)'
  <2>1. \A y, z \in Node : Chained(y, z)' => Chained(y, z)
    BY <1>1 DEF Chained, ChainedIn, Candidate
  <2>2. TypeOK /\ g.members \subseteq Node
    BY DEF Chains, Order, TypeOK, Graphs
  <2>3. QED
    BY <1>1, <2>1, <2>2, StaysShort DEF Chains
<1>6. QED
  BY <1>1, <1>2, <1>4, <1>5 DEF Chains, Origin

LEMMA TooShortChains ==
  ASSUME Chains, NEW u \in Node, TooShort(u)
  PROVE  Chains'
<1>1. /\ UNCHANGED <<g, kind, dev, inside, flagged, pc, listed, origin>>
      /\ visited' = visited \union {u} /\ contracted' = contracted \union Chain(u)
      /\ Reached(u) /\ IsHead(u) /\ Cardinality(Tasks(Chain(u))) < 2
  BY DEF TooShort, Reached
<1>2. Order'
  BY PassOrder DEF Chains
<1>3. u \in g.members
  <2>1. u \in RecordedNodes /\ u \notin contracted
    BY <1>1 DEF Reached, IsHead, Chains, Order
  <2>2. QED
    BY <2>1 DEF Chains, Order, Nesting
<1>4. u \in Chain(u) /\ Chain(u) \subseteq g.members /\ g.members \subseteq Node
  BY <1>3, ChainLeast DEF Chains, Order, Dag, Graphs
<1>5. \A x, y \in RecordedNodes : ChainedIn(origin, x, y) =>
        /\ x \in visited' => x \in contracted'
        /\ x \in contracted' => y \in contracted'
  BY <1>1, <1>4, ChainWhole DEF Chains, Together
<1>6. \A x, y \in RecordedNodes : ChainedIn(origin, x, y)' => Together(x, y)'
  BY <1>1, <1>5 DEF Chains, Together, ChainedIn, Candidate, Chained
<1>7. \A x \in contracted' \intersect g.members : Short(x)
  BY <1>1, <1>3, <1>4, ChainOfChain, FewerTasks DEF Chains, Short
<1>8. \A x \in (contracted \intersect g.members)' : Short(x)'
  <2>1. \A y, z \in Node : Chained(y, z)' => Chained(y, z)
    BY <1>1 DEF Chained, ChainedIn, Candidate
  <2>2. TypeOK
    BY DEF Chains, Order
  <2>3. QED
    BY <1>1, <1>4, <1>7, <2>1, <2>2, StaysShort
<1>9. contracted' \subseteq RecordedNodes
  <2>1. Candidate(u)
    BY <1>1 DEF IsHead, Chained, ChainedIn
  <2>2. \A x \in Chain(u) : Candidate(x)
    BY <1>3, <2>1, ChainSegment DEF Chains, Order
  <2>3. QED
    BY <1>1, <2>2 DEF Candidate, Inner, RecordedNodes, Chains, Order
<1>10. QED
  BY <1>1, <1>2, <1>6, <1>8, <1>9 DEF Chains, Origin
-----------------------------------------------------------------------------
(* A grouping neither makes nor breaks a sequence edge between two nodes   *)
(* that are not on the chain. *)
LEMMA GroupEdges ==
  ASSUME Chains, NEW u \in Node, NEW B \in Batch, Group(u, B),
         NEW y \in g.members \ Chain(u)
  PROVE  /\ \A z \in g'.members : Chained(y, z)' => z \in g.members /\ Chained(y, z)
         /\ \A z \in g.members \ Chain(u) : Chained(y, z) => Chained(y, z)'
<1> DEFINE C == Chain(u)
           t == Tail(C)
<1>1. /\ Segment(g, C, u, t) /\ Collapsed(g, g', C, u, t, B) /\ DetachedLists(g, g', C, u, t, B)
      /\ B \in Node /\ B \notin g.members /\ dev' = [dev EXCEPT ![B] = dev[u]] /\ kind' = kind
  BY GroupCollapses DEF Chains
<1> HIDE DEF C, t
<1>2. /\ u \in C /\ t \in C /\ C \subseteq g.members /\ g'.members = (g.members \ C) \union {B}
      /\ g.members \subseteq Node /\ Dag(g) /\ g' \in Graphs /\ g \in Graphs
      /\ \A D \in Batch : kind[D] = "batch"
      /\ dev \in [Node -> Device]
  BY <1>1 DEF Segment, Collapsed, Chains, Order, Dag, Graphs, TypeOK
<1>3. y \in g.members /\ y \notin C /\ y # B /\ y # t /\ y # u /\ y \in Node
  BY <1>1, <1>2 DEF C
<1>4. ASSUME NEW z \in g.members, z \notin C
      PROVE  /\ dev'[y] = dev[y] /\ dev'[z] = dev[z]
             /\ y \notin Preds(g, u) => g'.successors[y] = g.successors[y]
             /\ z \notin Succs(g, t) => g'.predecessors[z] = g.predecessors[z]
             /\ y \in Preds(g, u) => g'.successors[y][B] > 0
             /\ z \in Succs(g, t) => g'.predecessors[z][B] > 0
  <2>1. z \in Node /\ z # B /\ z # u /\ z # t
    BY <1>1, <1>2, <1>4
  <2>2. dev'[y] = dev[y] /\ dev'[z] = dev[z]
    BY <1>1, <1>2, <1>3, <2>1
  <2>3. /\ g.successors[y] \in [Node -> Nat] /\ g'.successors[y] \in [Node -> Nat]
        /\ g.predecessors[z] \in [Node -> Nat] /\ g'.predecessors[z] \in [Node -> Nat]
    BY <1>2, <1>3, <2>1 DEF Graphs, Lists
  <2>4. ASSUME y \notin Preds(g, u) PROVE g'.successors[y] = g.successors[y]
    <3>1. \A w \in Node : g'.successors[y][w] = g.successors[y][w]
      BY <1>1, <1>3, <2>4 DEF DetachedLists
    <3>2. QED
      BY <2>3, <3>1
  <2>5. ASSUME z \notin Succs(g, t) PROVE g'.predecessors[z] = g.predecessors[z]
    <3>1. \A w \in Node : g'.predecessors[z][w] = g.predecessors[z][w]
      BY <1>1, <2>1, <2>5 DEF DetachedLists
    <3>2. QED
      BY <2>3, <3>1
  <2>6. ASSUME y \in Preds(g, u) PROVE g'.successors[y][B] > 0
    <3>1. g'.successors[y][B] = g.successors[y][B] + 1
      BY <1>1, <1>2, <1>3, <2>6 DEF DetachedLists
    <3>2. QED
      BY <1>1, <2>3, <3>1
  <2>7. ASSUME z \in Succs(g, t) PROVE g'.predecessors[z][B] > 0
    <3>1. g'.predecessors[z][B] = g.predecessors[z][B] + 1
      BY <1>1, <1>2, <2>1, <2>7 DEF DetachedLists
    <3>2. QED
      BY <1>1, <2>3, <3>1
  <2>8. QED
    BY <2>2, <2>4, <2>5, <2>6, <2>7
<1>5. ASSUME NEW z \in g'.members, Chained(y, z)' PROVE z \in g.members /\ Chained(y, z)
  <2>1. /\ Candidate(y) /\ Candidate(z) /\ dev'[y] = dev'[z]
        /\ g'.successors[y] = Just(z) /\ g'.predecessors[z] = Just(y)
    BY <1>1, <1>5 DEF Chained, ChainedIn, Candidate, AreSequence
  <2>2. z \in g.members /\ z \notin C /\ z # B
    BY <1>2, <2>1 DEF Candidate
  <2>3. Just(z)[B] = 0 /\ Just(y)[B] = 0
    BY <1>1, <1>3, <2>2 DEF Just
  <2>4. y \notin Preds(g, u) /\ z \notin Succs(g, t)
    BY <1>4, <2>1, <2>2, <2>3
  <2>5. QED
    BY <1>4, <2>1, <2>2, <2>4 DEF Chained, ChainedIn, AreSequence
<1>6. ASSUME NEW z \in g.members, z \notin C, Chained(y, z) PROVE Chained(y, z)'
  <2>1. Succs(g, y) = {z} /\ Preds(g, z) = {y}
    BY <1>2, <1>3, <1>6, SequenceEdge DEF Chained
  <2>2. y \notin Preds(g, u) /\ z \notin Succs(g, t)
    BY <1>2, <1>3, <1>6, <2>1, SuccsArePreds DEF Dag
  <2>3. QED
    BY <1>1, <1>4, <1>6, <2>2 DEF Chained, ChainedIn, AreSequence, Candidate
<1>7. QED
  BY <1>5, <1>6 DEF C

LEMMA GroupChains ==
  ASSUME Chains, NEW u \in Node, NEW B \in Batch, Group(u, B)
  PROVE  Chains'
<1> DEFINE C == Chain(u)
<1>1. /\ u \in g.members /\ B \in Node /\ B \notin g.members /\ C \subseteq RecordedNodes
      /\ g'.members = (g.members \ C) \union {B}
      /\ inside' = [inside EXCEPT ![B] = C] /\ inside[B] = {} /\ contracted' = contracted \union C
      /\ dev' = [dev EXCEPT ![B] = dev[u]]
      /\ UNCHANGED <<kind, pc, listed, origin>>
  BY GroupCollapses DEF Chains, Collapsed
<1>2. Order'
  BY GroupOrder DEF Chains
<1>3. Reached(u) /\ IsHead(u) /\ visited' = visited \union {u} /\ u \in C
  BY <1>1, ChainLeast DEF Group, Reached
<1>4. /\ TypeOK /\ RecordedNodes \subseteq Node /\ B \notin RecordedNodes
      /\ \A D \in Node : inside'[D] = IF D = B THEN C ELSE inside[D]
      /\ \A x \in RecordedNodes : dev'[x] = dev[x]
  BY <1>1 DEF Chains, Order, TypeOK, RecordedNodes
<1>5. Origin'
  BY <1>1 DEF Chains, Origin
<1>6. ASSUME NEW x \in RecordedNodes, NEW y \in RecordedNodes, ChainedIn(origin, x, y)'
      PROVE  Together(x, y)'
  <2>1. ChainedIn(origin, x, y) /\ Together(x, y)
    BY <1>1, <1>4, <1>6 DEF ChainedIn, Candidate, Chains
  <2>2. x \in C <=> y \in C
    BY <1>3, <2>1, ChainWhole
  <2>3. \A D \in Node : x \in inside'[D] <=> y \in inside'[D]
    BY <1>4, <2>1, <2>2 DEF Together
  <2>4. ASSUME {x, y} \subseteq g'.members PROVE Chained(x, y)'
    <3>1. x \in g.members \ C /\ y \in g.members \ C
      BY <1>1, <1>4, <2>4
    <3>2. Chained(x, y)
      BY <2>1, <3>1 DEF Together
    <3>3. QED
      BY <3>1, <3>2, GroupEdges
  <2>5. (x \in visited' => x \in contracted') /\ (x \in contracted' => y \in contracted')
    BY <1>1, <1>3, <2>1, <2>2 DEF Together
  <2>6. QED
    BY <2>3, <2>4, <2>5 DEF Together
<1>7. ASSUME NEW x \in contracted' \intersect g'.members PROVE Short(x)'
  <2>1. x \in g.members \ C /\ x \in contracted /\ Short(x)
    <3>1. x \in g.members \ C \/ x = B
      BY <1>1
    <3>2. B \notin contracted
      BY <1>4 DEF Chains
    <3>3. QED
      BY <1>1, <1>4, <3>1, <3>2 DEF Chains
  <2>2. \A y \in g.members \intersect g'.members : y \in g.members \ C
    BY <1>1
  <2>3. \A y \in g.members \intersect g'.members, z \in g'.members :
           Chained(y, z)' => z \in g.members /\ Chained(y, z)
    BY <2>2, GroupEdges
  <2>4. QED
    BY <1>1, <1>4, <2>1, <2>3, StaysShort
<1>8. contracted' \subseteq RecordedNodes
  BY <1>1 DEF Chains
<1>9. QED
  BY <1>2, <1>5, <1>6, <1>7, <1>8 DEF Chains

LEMMA NextChains == Chains /\ [Next]_vars => Chains'
<1> SUFFICES ASSUME Chains, [Next]_vars PROVE Chains'
  OBVIOUS
<1>1. CASE UNCHANGED vars
  <2>1. Order'
    BY <1>1, NextOrder DEF Chains
  <2>2. UNCHANGED <<g, kind, dev, inside, visited, contracted, listed, origin>>
    BY <1>1 DEF vars
  <2>3. \A x, y \in RecordedNodes : ChainedIn(origin, x, y)' => Together(x, y)'
    BY <2>2 DEF Chains, Together, ChainedIn, Candidate, Chained
  <2>4. \A y, z \in Node : Chained(y, z)' => Chained(y, z)
    BY <2>2 DEF Chained, ChainedIn, Candidate
  <2>5. TypeOK /\ g.members \subseteq Node
    BY DEF Chains, Order, TypeOK, Graphs
  <2>6. \A x \in (contracted \intersect g.members)' : Short(x)'
    BY <2>2, <2>4, <2>5, StaysShort DEF Chains
  <2>7. QED
    BY <2>1, <2>2, <2>3, <2>6 DEF Chains, Origin
<1>2. CASE \E u \in Node : Pass(u) \/ TooShort(u) \/ \E B \in Batch : Group(u, B)
  BY <1>2, PassChains, TooShortChains, GroupChains
<1>3. CASE Return
  <2>1. Order'
    BY <1>3, PassOrder, NodeAssumption DEF Chains
  <2>2. UNCHANGED <<g, kind, dev, inside, visited, contracted, listed, origin>>
    BY <1>3 DEF Return
  <2>3. \A x, y \in RecordedNodes : ChainedIn(origin, x, y)' => Together(x, y)'
    BY <2>2 DEF Chains, Together, ChainedIn, Candidate, Chained
  <2>4. \A y, z \in Node : Chained(y, z)' => Chained(y, z)
    BY <2>2 DEF Chained, ChainedIn, Candidate
  <2>5. TypeOK /\ g.members \subseteq Node
    BY DEF Chains, Order, TypeOK, Graphs
  <2>6. \A x \in (contracted \intersect g.members)' : Short(x)'
    BY <2>2, <2>4, <2>5, StaysShort DEF Chains
  <2>7. QED
    BY <2>1, <2>2, <2>3, <2>6 DEF Chains, Origin
<1>4. QED
  BY <1>1, <1>2, <1>3 DEF Next

(***************************************************************************)
(* When the pass returns, every sequence edge of the recorded graph is     *)
(* inside a sub-graph, unless its chain has fewer than two tasks: the      *)
(* depth-first order never enters a chain in its middle.                   *)
(***************************************************************************)
THEOREM ChainsAreMaximal == Spec => []ChainsMaximal
<1>1. Init => Chains
  BY InitChains
<1>2. Chains /\ (pc = "done" => visited = listed) => ChainsMaximal
  <2>1. SUFFICES ASSUME Chains, visited = listed,
                        NEW u \in RecordedNodes, NEW v \in RecordedNodes, ChainedIn(origin, u, v)
                 PROVE  \/ Home(inside, u) = Home(inside, v) /\ Home(inside, u) # u
                        \/ {u, v} \subseteq g.members /\ Cardinality(Tasks(Chain(u))) < 2
    BY DEF ChainsMaximal
  <2>2. u \in contracted
    <3>1. v \in Succs(origin, u)
      BY <2>1, SequenceEdge DEF Chains, Origin
    <3>2. u \in listed
      BY <2>1, <3>1 DEF Chains, Origin, RecordedNodes
    <3>3. QED
      BY <2>1, <3>2 DEF Chains, Together
  <2>3. CASE u \in g.members
    <3>1. v \in g.members /\ Short(u)
      BY <2>1, <2>2, <2>3, TogetherMembers DEF Chains
    <3>2. QED
      BY <2>3, <3>1 DEF Short
  <2>4. CASE u \notin g.members
    <3>1. Nesting(inside, g.members) /\ Together(u, v)
      BY <2>1 DEF Chains, Order
    <3>2. Home(inside, u) \in Batch /\ u \in inside[Home(inside, u)]
      BY <2>4, <3>1, HomeOf
    <3>3. Home(inside, u) \in Node
      BY <3>2, NestedAssumption DEF Inner
    <3>4. v \in inside[Home(inside, u)]
      BY <3>1, <3>2, <3>3 DEF Together
    <3>5. Home(inside, v) = Home(inside, u)
      BY <3>1, <3>3, <3>4, HomeOf
    <3>6. QED
      BY <3>2, <3>5 DEF RecordedNodes
  <2>5. QED
    BY <2>3, <2>4
<1>3. Init => (pc = "done" => visited = listed)
  BY DEF Init
<1>4. (pc = "done" => visited = listed) /\ [Next]_vars => (pc = "done" => visited = listed)'
  BY DEF Next, Pass, TooShort, Group, Return, Reached, vars
<1>5. QED
  BY <1>1, <1>2, <1>3, <1>4, NextChains, PTL DEF Spec
=============================================================================
