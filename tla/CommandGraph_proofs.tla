------------------------ MODULE CommandGraph_proofs ------------------------
(***************************************************************************)
(* Lemmas about the graph operations of CommandGraph: what each of them    *)
(* does to the edges and to the paths, for every graph and every number of *)
(* nodes; about copies as the passes transform them, for machine words of  *)
(* every width; and, at the end, about sums and the number of edges.       *)
(***************************************************************************)
EXTENDS CommandGraph, CopyCommand, FiniteSetTheorems, TLAPS

(* No edge leaves the members. *)
LEMMA SuccsAreMembers ==
  ASSUME NEW g \in Graphs, EdgesMirrored(g), NEW u \in g.members
  PROVE  Succs(g, u) \subseteq g.members /\ Preds(g, u) \subseteq g.members
BY DEF Graphs, Lists, EdgesMirrored, Succs, Preds

(* Both lists of an edge name it. *)
LEMMA SuccsArePreds ==
  ASSUME NEW g \in Graphs, EdgesMirrored(g), NEW u \in g.members, NEW v \in g.members
  PROVE  v \in Succs(g, u) <=> u \in Preds(g, v)
BY DEF Graphs, Lists, EdgesMirrored, Succs, Preds

(* Membership in Closed, spelled out. *)
LEMMA ClosedSets ==
  ASSUME NEW g \in Graphs, NEW S
  PROVE  S \in Closed(g) <=>
           S \subseteq g.members /\ \A x \in S : Succs(g, x) \subseteq S
BY DEF Closed

(* A path leads from a to b when no closed set separates them. *)
LEMMA PathsBySets ==
  ASSUME NEW g \in Graphs, NEW a \in g.members, NEW b \in g.members
  PROVE  <<a, b>> \in Paths(g) <=> \A S \in Closed(g) : a \in S => b \in S
BY ClosedSets DEF Paths, Separated

LEMMA PathsOfMembers ==
  ASSUME NEW g \in Graphs, NEW a, NEW b, <<a, b>> \in Paths(g)
  PROVE  a \in g.members /\ b \in g.members
BY DEF Paths

LEMMA PathsReflexive ==
  ASSUME NEW g \in Graphs, NEW a \in g.members
  PROVE  <<a, a>> \in Paths(g)
BY PathsBySets

LEMMA PathsTransitive ==
  ASSUME NEW g \in Graphs, NEW a, NEW b, NEW c,
         <<a, b>> \in Paths(g), <<b, c>> \in Paths(g)
  PROVE  <<a, c>> \in Paths(g)
BY PathsOfMembers, PathsBySets

LEMMA EdgesArePaths ==
  ASSUME NEW g \in Graphs, EdgesMirrored(g), NEW a \in g.members, NEW b \in Succs(g, a)
  PROVE  <<a, b>> \in Paths(g) /\ b \in g.members
BY SuccsAreMembers, ClosedSets, PathsBySets

(* Everything after a is closed: it is the least closed set around a. *)
LEMMA AfterClosed ==
  ASSUME NEW g \in Graphs, EdgesMirrored(g), NEW a \in g.members
  PROVE  After(g, a) \in Closed(g) /\ a \in After(g, a)
<1>1. a \in After(g, a)
  BY PathsReflexive DEF After
<1>2. ASSUME NEW x \in After(g, a), NEW y \in Succs(g, x)
      PROVE  y \in After(g, a)
  BY <1>2, EdgesArePaths, PathsTransitive DEF After
<1>3. QED
  BY <1>1, <1>2, ClosedSets DEF After

(***************************************************************************)
(* In an acyclic graph no node is its own successor, and no path leads     *)
(* from the target of an edge back to its source.                          *)
(***************************************************************************)
LEMMA NoWayBack ==
  ASSUME NEW g \in Graphs, EdgesMirrored(g), Acyclic(g),
         NEW u \in g.members, NEW v \in Succs(g, u)
  PROVE  <<v, u>> \notin Paths(g) /\ u # v
BY SuccsAreMembers, PathsReflexive DEF Acyclic

(* A path that is not empty ends with an edge. *)
LEMMA LastEdge ==
  ASSUME NEW g \in Graphs, EdgesMirrored(g),
         NEW a, NEW b, <<a, b>> \in Paths(g), a # b
  PROVE  \E x \in After(g, a) : b \in Succs(g, x)
<1>1. a \in g.members /\ b \in g.members
  BY PathsOfMembers
<1>2. SUFFICES ASSUME \A x \in After(g, a) : b \notin Succs(g, x)
               PROVE  FALSE
  OBVIOUS
<1>3. After(g, a) \ {b} \in Closed(g)
  BY <1>1, <1>2, AfterClosed, ClosedSets
<1>4. QED
  BY <1>1, <1>3, AfterClosed, PathsBySets

(* ... and begins with one. *)
LEMMA FirstEdge ==
  ASSUME NEW g \in Graphs, EdgesMirrored(g),
         NEW a, NEW b, <<a, b>> \in Paths(g), a # b
  PROVE  \E z \in Succs(g, a) : <<z, b>> \in Paths(g)
<1> DEFINE S == {x \in g.members : x = a \/ \E z \in Succs(g, a) : <<z, x>> \in Paths(g)}
<1>1. a \in g.members /\ b \in g.members
  BY PathsOfMembers
<1>2. ASSUME NEW x \in S, NEW y \in Succs(g, x) PROVE y \in S
  <2>1. y \in g.members /\ <<x, y>> \in Paths(g) /\ <<y, y>> \in Paths(g)
    BY <1>2, EdgesArePaths, PathsReflexive
  <2>2. QED
    BY <1>2, <2>1, PathsTransitive
<1>3. S \in Closed(g)
  BY <1>2, ClosedSets
<1>4. QED
  BY <1>1, <1>3, PathsBySets

-----------------------------------------------------------------------------
(***************************************************************************)
(* command_graph_t::remove(u): the successors of every other member.       *)
(***************************************************************************)
LEMMA RemoveEdges ==
  ASSUME NEW g \in Graphs, EdgesMirrored(g), Acyclic(g), NEW u \in g.members,
         NEW p \in g.members \ {u}
  PROVE  /\ Succs(Remove(g, u), p) =
               IF u \in Succs(g, p) THEN (Succs(g, p) \ {u}) \union Succs(g, u)
                                    ELSE Succs(g, p)
         /\ Preds(Remove(g, u), p) =
               IF u \in Preds(g, p) THEN (Preds(g, p) \ {u}) \union Preds(g, u)
                                    ELSE Preds(g, p)
<1>1. u \notin Succs(g, u) /\ u \notin Preds(g, u)
  BY NoWayBack, SuccsArePreds
<1>2. g.successors[p][u] = g.predecessors[u][p] /\ g.predecessors[p][u] = g.successors[u][p]
  BY DEF EdgesMirrored, Graphs
<1>3. /\ Remove(g, u).successors[p] = [s \in Node |->
            IF s = u THEN g.successors[p][u] - g.predecessors[u][p]
            ELSE IF Bridged(g, u, p, s) THEN 1
            ELSE g.successors[p][s]]
      /\ Remove(g, u).predecessors[p] = [q \in Node |->
            IF q = u THEN g.predecessors[p][u] - g.successors[u][p]
            ELSE IF Bridged(g, u, q, p) THEN g.predecessors[p][q] + 1
            ELSE g.predecessors[p][q]]
  BY DEF Remove, Graphs
<1>4. Succs(Remove(g, u), p) =
        IF u \in Succs(g, p) THEN (Succs(g, p) \ {u}) \union Succs(g, u) ELSE Succs(g, p)
  <2>1. u \in Succs(g, p) <=> p \in Preds(g, u)
    BY SuccsArePreds
  <2> QED
    BY <1>1, <1>2, <1>3, <2>1 DEF Graphs, Lists, Succs, Bridged
<1>5. Preds(Remove(g, u), p) =
        IF u \in Preds(g, p) THEN (Preds(g, p) \ {u}) \union Preds(g, u) ELSE Preds(g, p)
  <2>1. u \in Preds(g, p) <=> p \in Succs(g, u)
    BY SuccsArePreds
  <2>2. \A q \in Preds(g, u) : q \in g.members /\ (g.successors[q][p] = g.predecessors[p][q])
    BY SuccsAreMembers DEF EdgesMirrored, Graphs
  <2> QED
    BY <1>1, <1>2, <1>3, <2>1, <2>2 DEF Graphs, Lists, Preds, Bridged
<1> QED
  BY <1>4, <1>5

LEMMA RemoveKeepsType ==
  ASSUME NEW g \in Graphs, EdgesMirrored(g), Acyclic(g), NEW u \in g.members
  PROVE  /\ Remove(g, u).members = g.members \ {u}
         /\ Remove(g, u).type = g.type
BY DEF Remove, Graphs

(* remove(u) leaves lists of naturals: it never erases what is not there. *)
LEMMA RemoveType ==
  ASSUME NEW g \in Graphs, EdgesMirrored(g), NEW u \in g.members
  PROVE  Remove(g, u) \in Graphs
<1>1. \A p \in Node : g.successors[p][u] - g.predecessors[u][p] \in Nat
  BY DEF Graphs, Lists, EdgesMirrored
<1>2. \A s \in Node : g.predecessors[s][u] - g.successors[u][s] \in Nat
  BY DEF Graphs, Lists, EdgesMirrored
<1>3. [p \in Node |-> [s \in Node |->
          IF s = u THEN g.successors[p][u] - g.predecessors[u][p]
          ELSE IF Bridged(g, u, p, s) THEN 1
          ELSE g.successors[p][s]]] \in Lists
  BY <1>1 DEF Graphs, Lists
<1>4. [s \in Node |-> [p \in Node |->
          IF p = u THEN g.predecessors[s][u] - g.successors[u][s]
          ELSE IF Bridged(g, u, p, s) THEN g.predecessors[s][p] + 1
          ELSE g.predecessors[s][p]]] \in Lists
  BY <1>2 DEF Graphs, Lists
<1>5. QED
  BY <1>3, <1>4 DEF Remove, Graphs

(* Both directions of the edges it adds and erases agree. *)
LEMMA RemoveMirrored ==
  ASSUME NEW g \in Graphs, EdgesMirrored(g), Acyclic(g), NEW u \in g.members
  PROVE  EdgesMirrored(Remove(g, u))
<1> DEFINE h == Remove(g, u)
<1>1. h.members = g.members \ {u}
  BY RemoveKeepsType
<1>2. SUFFICES ASSUME NEW p \in h.members, NEW q \in Node
               PROVE  IF q \in h.members
                      THEN h.successors[p][q] = h.predecessors[q][p]
                      ELSE h.successors[p][q] = 0 /\ h.predecessors[p][q] = 0
  BY DEF EdgesMirrored
<1>3. p \in g.members /\ p \in Node /\ p # u /\ u \in Node
  BY <1>1 DEF Graphs
<1>4. /\ h.successors[p][q] =
            IF q = u THEN g.successors[p][u] - g.predecessors[u][p]
            ELSE IF Bridged(g, u, p, q) THEN 1
            ELSE g.successors[p][q]
      /\ h.predecessors[p][q] =
            IF q = u THEN g.predecessors[p][u] - g.successors[u][p]
            ELSE IF Bridged(g, u, q, p) THEN g.predecessors[p][q] + 1
            ELSE g.predecessors[p][q]
      /\ h.predecessors[q][p] =
            IF p = u THEN g.predecessors[q][u] - g.successors[u][q]
            ELSE IF Bridged(g, u, p, q) THEN g.predecessors[q][p] + 1
            ELSE g.predecessors[q][p]
  BY <1>3 DEF Remove, Graphs
<1>5. CASE q = u
  BY <1>1, <1>3, <1>4, <1>5 DEF EdgesMirrored, Graphs, Lists
<1>6. CASE q \in g.members /\ q # u
  <2>1. g.successors[p][q] = g.predecessors[q][p]
    BY <1>3, <1>6 DEF EdgesMirrored
  <2> QED
    BY <1>1, <1>3, <1>4, <1>6, <2>1 DEF Bridged
<1>7. CASE q \notin g.members
  <2>1. g.successors[p][q] = 0 /\ g.predecessors[p][q] = 0
    BY <1>3, <1>7 DEF EdgesMirrored
  <2>2. q \notin Succs(g, u) /\ q \notin Preds(g, u)
    BY <1>7, SuccsAreMembers
  <2> QED
    BY <1>1, <1>3, <1>4, <1>7, <2>1, <2>2 DEF Bridged
<1> QED
  BY <1>5, <1>6, <1>7

(* It never puts a node twice into a list. *)
LEMMA RemoveSimple ==
  ASSUME NEW g \in Graphs, EdgesMirrored(g), SimpleEdges(g), NEW u \in g.members
  PROVE  SimpleEdges(Remove(g, u))
<1> DEFINE h == Remove(g, u)
<1>1. SUFFICES ASSUME NEW p \in h.members, NEW q \in Node
               PROVE  h.successors[p][q] <= 1
  BY DEF SimpleEdges
<1>2. p \in g.members /\ p # u /\ p \in Node /\ u \in Node
  BY DEF Remove, Graphs
<1>3. h.successors[p][q] =
            IF q = u THEN g.successors[p][u] - g.predecessors[u][p]
            ELSE IF Bridged(g, u, p, q) THEN 1
            ELSE g.successors[p][q]
  BY <1>2 DEF Remove, Graphs
<1>4. g.successors[p][u] - g.predecessors[u][p] = 0
  BY <1>2 DEF EdgesMirrored, Graphs, Lists
<1> QED
  BY <1>2, <1>3, <1>4 DEF SimpleEdges

(***************************************************************************)
(* It keeps the precedence of all other members: there is a path between   *)
(* two of them after remove(u) when there was one before.                  *)
(***************************************************************************)
LEMMA RemovePaths ==
  ASSUME NEW g \in Graphs, EdgesMirrored(g), Acyclic(g), NEW u \in g.members,
         NEW a \in g.members \ {u}, NEW b \in g.members \ {u}
  PROVE  <<a, b>> \in Paths(Remove(g, u)) <=> <<a, b>> \in Paths(g)
<1> DEFINE h == Remove(g, u)
<1>1. h \in Graphs /\ h.members = g.members \ {u} /\ EdgesMirrored(h)
  BY RemoveType, RemoveKeepsType, RemoveMirrored
<1>2. \A p \in g.members \ {u} :
        Succs(h, p) = IF u \in Succs(g, p) THEN (Succs(g, p) \ {u}) \union Succs(g, u)
                                           ELSE Succs(g, p)
  BY RemoveEdges
<1> HIDE DEF h
<1>3. ASSUME <<a, b>> \in Paths(g), NEW S \in Closed(h), a \in S
      PROVE  b \in S
  <2>1. S \subseteq g.members \ {u} /\ \A x \in S : Succs(h, x) \subseteq S
    BY <1>1, ClosedSets
  <2>2. CASE \E x \in S : u \in Succs(g, x)
    <3>1. Succs(g, u) \subseteq S
      BY <1>2, <2>1, <2>2
    <3>2. \A x \in S : Succs(g, x) \subseteq S \union {u}
      BY <1>2, <2>1
    <3>3. S \union {u} \in Closed(g)
      BY <2>1, <3>1, <3>2, ClosedSets
    <3> QED
      BY <1>3, <3>3, PathsBySets
  <2>3. CASE \A x \in S : u \notin Succs(g, x)
    <3>1. S \in Closed(g)
      BY <1>2, <2>1, <2>3, ClosedSets
    <3> QED
      BY <1>3, <3>1, PathsBySets
  <2> QED
    BY <2>2, <2>3
<1>4. ASSUME <<a, b>> \in Paths(h), NEW S \in Closed(g), a \in S
      PROVE  b \in S
  <2>1. S \subseteq g.members /\ \A x \in S : Succs(g, x) \subseteq S
    BY ClosedSets
  <2>2. u \notin Succs(g, u)
    BY NoWayBack
  <2>3. \A x \in S \ {u} : Succs(h, x) \subseteq S \ {u}
    BY <1>2, <2>1, <2>2
  <2>4. S \ {u} \in Closed(h)
    BY <1>1, <2>1, <2>3, ClosedSets
  <2> QED
    BY <1>1, <1>4, <2>4, PathsBySets
<1> QED
  BY <1>1, <1>3, <1>4, PathsBySets DEF h

LEMMA RemoveAcyclic ==
  ASSUME NEW g \in Graphs, EdgesMirrored(g), Acyclic(g), NEW u \in g.members
  PROVE  Acyclic(Remove(g, u))
<1> DEFINE h == Remove(g, u)
<1>1. h \in Graphs /\ h.members = g.members \ {u} /\ EdgesMirrored(h)
  BY RemoveType, RemoveKeepsType, RemoveMirrored
<1>2. SUFFICES ASSUME NEW x \in h.members, NEW y \in Succs(h, x), <<y, x>> \in Paths(h)
               PROVE  FALSE
  BY DEF Acyclic
<1>3. x \in g.members \ {u} /\ y \in g.members \ {u}
  BY <1>1, SuccsAreMembers
<1>4. <<y, x>> \in Paths(g)
  BY <1>2, <1>3, RemovePaths
<1>5. y \in Succs(g, x) \/ (u \in Succs(g, x) /\ y \in Succs(g, u))
  BY <1>2, <1>3, RemoveEdges
<1>6. CASE y \in Succs(g, x)
  BY <1>3, <1>4, <1>6, NoWayBack
<1>7. CASE u \in Succs(g, x) /\ y \in Succs(g, u)
  <2>1. <<u, x>> \in Paths(g)
    BY <1>4, <1>7, EdgesArePaths, PathsTransitive
  <2> QED
    BY <1>3, <1>7, <2>1, NoWayBack
<1> QED
  BY <1>5, <1>6, <1>7

(* It leaves entry the only source and exit the only sink. *)
LEMMA RemoveCoherent ==
  ASSUME NEW g \in Graphs, EdgesMirrored(g), Acyclic(g), Coherent(g),
         entry \in g.members, exit \in g.members,
         NEW u \in g.members \ {entry, exit}, <<entry, u>> \in Paths(g)
  PROVE  Coherent(Remove(g, u))
<1> DEFINE h == Remove(g, u)
<1>1. h \in Graphs /\ h.members = g.members \ {u} /\ EdgesMirrored(h)
  BY RemoveType, RemoveKeepsType, RemoveMirrored
<1>2. Succs(g, u) # {} /\ Preds(g, u) # {} /\ u \notin Succs(g, u) /\ u \notin Preds(g, u)
  BY NoWayBack, SuccsArePreds DEF Coherent
<1>3. Preds(h, entry) = {} /\ Succs(h, exit) = {}
  BY <1>1, RemoveEdges DEF Coherent
<1>4. ASSUME NEW x \in h.members, <<entry, x>> \in Paths(h)
      PROVE  (x # entry => Preds(h, x) # {}) /\ (x # exit => Succs(h, x) # {})
  <2>1. x \in g.members \ {u} /\ <<entry, x>> \in Paths(g)
    BY <1>1, <1>4, RemovePaths
  <2>2. (x # entry => Preds(g, x) # {}) /\ (x # exit => Succs(g, x) # {})
    BY <2>1 DEF Coherent
  <2> QED
    BY <1>2, <2>1, <2>2, RemoveEdges
<1> QED
  BY <1>3, <1>4 DEF Coherent

-----------------------------------------------------------------------------
(***************************************************************************)
(* Dropping the edge u -> v.                                               *)
(***************************************************************************)
LEMMA EraseLists ==
  ASSUME NEW g \in Graphs, EdgesMirrored(g), SimpleEdges(g),
         NEW u \in g.members, NEW v \in Succs(g, u)
  PROVE  /\ Erase(g, u, v) \in Graphs
         /\ Erase(g, u, v).members = g.members
         /\ Erase(g, u, v).type = g.type
         /\ EdgesMirrored(Erase(g, u, v))
         /\ SimpleEdges(Erase(g, u, v))
         /\ \A x \in Node : Succs(Erase(g, u, v), x) = IF x = u THEN Succs(g, u) \ {v}
                                                                  ELSE Succs(g, x)
         /\ \A x \in Node : Preds(Erase(g, u, v), x) = IF x = v THEN Preds(g, v) \ {u}
                                                                  ELSE Preds(g, x)
<1> DEFINE h == Erase(g, u, v)
<1>1. u \in Node /\ v \in Node /\ v \in g.members
  BY SuccsAreMembers DEF Graphs
<1>2. g.successors[u][v] = 1 /\ g.predecessors[v][u] = 1
  BY <1>1 DEF SimpleEdges, EdgesMirrored, Succs, Graphs, Lists
<1>3. /\ h.members = g.members
      /\ h.type = g.type
      /\ h.successors = [g.successors EXCEPT ![u] = EraseOne(g.successors[u], v)]
      /\ h.predecessors = [g.predecessors EXCEPT ![v] = EraseOne(g.predecessors[v], u)]
  BY DEF Erase, Graphs
<1>4. \A x, y \in Node :
        /\ h.successors[x][y] = IF x = u /\ y = v THEN 0 ELSE g.successors[x][y]
        /\ h.predecessors[x][y] = IF x = v /\ y = u THEN 0 ELSE g.predecessors[x][y]
  BY <1>1, <1>2, <1>3 DEF Graphs, Lists, EraseOne
<1>5. /\ [g.successors EXCEPT ![u] = EraseOne(g.successors[u], v)] \in Lists
      /\ [g.predecessors EXCEPT ![v] = EraseOne(g.predecessors[v], u)] \in Lists
  BY <1>1, <1>2 DEF Graphs, Lists, EraseOne
<1>6. h \in Graphs
  BY <1>5 DEF Erase, Graphs
<1> HIDE DEF h
<1>7. EdgesMirrored(h) /\ SimpleEdges(h)
  BY <1>1, <1>3, <1>4 DEF EdgesMirrored, SimpleEdges, Graphs
<1>8. /\ \A x \in Node : Succs(h, x) = IF x = u THEN Succs(g, u) \ {v} ELSE Succs(g, x)
      /\ \A x \in Node : Preds(h, x) = IF x = v THEN Preds(g, v) \ {u} ELSE Preds(g, x)
  BY <1>4 DEF Succs, Preds
<1> QED
  BY <1>3, <1>6, <1>7, <1>8 DEF h

(***************************************************************************)
(* If v is also reached through another successor w of u, erasing u -> v   *)
(* changes no path at all: the path from w to v does not go through u.     *)
(***************************************************************************)
LEMMA ErasePaths ==
  ASSUME NEW g \in Graphs, EdgesMirrored(g), SimpleEdges(g), Acyclic(g),
         NEW u \in g.members, NEW v \in Succs(g, u),
         NEW w \in Succs(g, u) \ {v}, <<w, v>> \in Paths(g)
  PROVE  Paths(Erase(g, u, v)) = Paths(g)
<1> DEFINE h == Erase(g, u, v)
<1>1. h \in Graphs /\ h.members = g.members
  BY EraseLists
<1>2. \A x \in g.members : Succs(h, x) = IF x = u THEN Succs(g, u) \ {v} ELSE Succs(g, x)
  BY EraseLists DEF Graphs
<1> HIDE DEF h
<1>3. v \in g.members /\ w \in g.members
  BY SuccsAreMembers
<1>4. Closed(g) \subseteq Closed(h)
  BY <1>1, <1>2, ClosedSets
<1>5. ASSUME NEW S \in Closed(h) PROVE S \in Closed(g)
  <2>1. S \subseteq g.members /\ \A x \in S : Succs(h, x) \subseteq S
    BY <1>1, ClosedSets
  <2>2. CASE u \in S
    <3>1. w \in S
      BY <1>2, <2>1, <2>2
    <3>2. After(g, w) \in Closed(g) /\ w \in After(g, w)
      BY <1>3, AfterClosed
    <3>3. u \notin After(g, w)
      BY NoWayBack DEF After
    <3>4. \A x \in S \intersect After(g, w) : Succs(g, x) \subseteq S \intersect After(g, w)
      BY <1>2, <2>1, <3>2, <3>3, ClosedSets
    <3>5. S \intersect After(g, w) \in Closed(g)
      BY <2>1, <3>4, ClosedSets
    <3>6. v \in S
      BY <1>3, <3>1, <3>2, <3>5, PathsBySets
    <3> QED
      BY <1>2, <2>1, <3>6, ClosedSets
  <2>3. CASE u \notin S
    BY <1>2, <2>1, <2>3, ClosedSets
  <2> QED
    BY <2>2, <2>3
<1>6. Closed(h) = Closed(g)
  BY <1>4, <1>5
<1> QED
  BY <1>1, <1>6 DEF Paths, Separated, h

LEMMA EraseAcyclic ==
  ASSUME NEW g \in Graphs, EdgesMirrored(g), SimpleEdges(g), Acyclic(g),
         NEW u \in g.members, NEW v \in Succs(g, u),
         NEW w \in Succs(g, u) \ {v}, <<w, v>> \in Paths(g)
  PROVE  Acyclic(Erase(g, u, v))
<1> DEFINE h == Erase(g, u, v)
<1>1. \A x \in g.members : Succs(h, x) \subseteq Succs(g, x)
  BY EraseLists DEF Graphs
<1>2. Paths(h) = Paths(g)
  BY ErasePaths
<1>3. h.members = g.members
  BY EraseLists
<1>4. \A x \in g.members : \A y \in Succs(g, x) : <<y, x>> \notin Paths(g)
  BY DEF Acyclic
<1> HIDE DEF h
<1>5. \A x \in h.members : \A y \in Succs(h, x) : <<y, x>> \notin Paths(h)
  BY <1>1, <1>2, <1>3, <1>4
<1>6. Acyclic(h)
  BY <1>5 DEF Acyclic
<1> QED
  BY <1>6 DEF h

LEMMA EraseCoherent ==
  ASSUME NEW g \in Graphs, EdgesMirrored(g), SimpleEdges(g), Acyclic(g), Coherent(g),
         entry \in g.members, exit \in g.members,
         NEW u \in g.members, NEW v \in Succs(g, u),
         NEW w \in Succs(g, u) \ {v}, <<w, v>> \in Paths(g)
  PROVE  Coherent(Erase(g, u, v))
<1> DEFINE h == Erase(g, u, v)
<1>1. h.members = g.members /\ Paths(h) = Paths(g) /\ g.members \subseteq Node
  BY EraseLists, ErasePaths DEF Graphs
<1>2. /\ \A x \in Node : Succs(h, x) = IF x = u THEN Succs(g, u) \ {v} ELSE Succs(g, x)
      /\ \A x \in Node : Preds(h, x) = IF x = v THEN Preds(g, v) \ {u} ELSE Preds(g, x)
  BY EraseLists
<1>3. w \in Succs(h, u)
  BY <1>1, <1>2
<1>4. Preds(h, v) # {}
  <2>1. PICK x \in After(g, w) : v \in Succs(g, x)
    BY LastEdge
  <2>2. x \in g.members /\ v \in g.members
    BY SuccsAreMembers DEF After
  <2>3. x # u
    BY <2>1, NoWayBack DEF After
  <2> QED
    BY <1>1, <1>2, <2>1, <2>2, <2>3, SuccsArePreds
<1> HIDE DEF h
<1>5. Preds(h, entry) = {} /\ Succs(h, exit) = {}
  BY <1>1, <1>2 DEF Coherent
<1>6. \A x \in h.members : <<entry, x>> \in Paths(h) =>
         (x # entry => Preds(h, x) # {}) /\ (x # exit => Succs(h, x) # {})
  BY <1>1, <1>2, <1>3, <1>4 DEF Coherent
<1> QED
  BY <1>5, <1>6 DEF Coherent, h

-----------------------------------------------------------------------------
(***************************************************************************)
(* precedes(u, v) between two members that were not linked yet.            *)
(***************************************************************************)
LEMMA PrecedesEdges ==
  ASSUME NEW g \in Graphs, EdgesMirrored(g), SimpleEdges(g),
         NEW u \in g.members, NEW v \in g.members, g.successors[u][v] = 0
  PROVE  /\ Precedes(g, u, v) \in Graphs
         /\ Precedes(g, u, v).members = g.members
         /\ Precedes(g, u, v).type = g.type
         /\ EdgesMirrored(Precedes(g, u, v))
         /\ SimpleEdges(Precedes(g, u, v))
         /\ \A x \in Node : Succs(Precedes(g, u, v), x) = IF x = u THEN Succs(g, u) \union {v}
                                                                     ELSE Succs(g, x)
<1> DEFINE h == Precedes(g, u, v)
<1>1. u \in Node /\ v \in Node
  BY DEF Graphs
<1>2. g.successors[u][v] = 0 /\ g.predecessors[v][u] = 0
  BY <1>1 DEF EdgesMirrored
<1>3. /\ h.members = g.members
      /\ h.type = g.type
      /\ h.successors = [g.successors EXCEPT ![u] = PushBack(g.successors[u], v)]
      /\ h.predecessors = [g.predecessors EXCEPT ![v] = PushBack(g.predecessors[v], u)]
  BY DEF Precedes, Graphs
<1>4. \A x, y \in Node :
        /\ h.successors[x][y] = IF x = u /\ y = v THEN 1 ELSE g.successors[x][y]
        /\ h.predecessors[x][y] = IF x = v /\ y = u THEN 1 ELSE g.predecessors[x][y]
  BY <1>1, <1>2, <1>3 DEF Graphs, Lists, PushBack
<1>5. /\ [g.successors EXCEPT ![u] = PushBack(g.successors[u], v)] \in Lists
      /\ [g.predecessors EXCEPT ![v] = PushBack(g.predecessors[v], u)] \in Lists
  BY <1>1 DEF Graphs, Lists, PushBack
<1>6. h \in Graphs
  BY <1>5 DEF Precedes, Graphs
<1> HIDE DEF h
<1>7. EdgesMirrored(h) /\ SimpleEdges(h)
  BY <1>1, <1>3, <1>4 DEF EdgesMirrored, SimpleEdges, Graphs
<1>8. \A x \in Node : Succs(h, x) = IF x = u THEN Succs(g, u) \union {v} ELSE Succs(g, x)
  BY <1>1, <1>4 DEF Succs
<1> QED
  BY <1>3, <1>6, <1>7, <1>8 DEF h

(* It closes no cycle when there is no path back from v to u. *)
LEMMA PrecedesAcyclic ==
  ASSUME NEW g \in Graphs, EdgesMirrored(g), SimpleEdges(g), Acyclic(g),
         NEW u \in g.members, NEW v \in g.members, g.successors[u][v] = 0,
         <<v, u>> \notin Paths(g)
  PROVE  Acyclic(Precedes(g, u, v))
<1> DEFINE h == Precedes(g, u, v)
<1>1. h \in Graphs /\ h.members = g.members /\ g.members \subseteq Node
  BY PrecedesEdges DEF Graphs
<1>2. \A x \in g.members : Succs(h, x) = IF x = u THEN Succs(g, u) \union {v} ELSE Succs(g, x)
  BY PrecedesEdges, <1>1
<1> HIDE DEF h
<1>3. After(g, v) \in Closed(g) /\ v \in After(g, v) /\ u \notin After(g, v)
  BY AfterClosed DEF After
<1>4. After(g, v) \in Closed(h)
  BY <1>1, <1>2, <1>3, ClosedSets
<1>5. ASSUME NEW x \in g.members, NEW y \in Succs(h, x)
      PROVE  <<y, x>> \notin Paths(h)
  <2>1. CASE x = u /\ y = v
    BY <1>1, <1>3, <1>4, <2>1, PathsBySets
  <2>2. CASE y \in Succs(g, x)
    <3>1. y \in g.members /\ <<y, x>> \notin Paths(g)
      BY <2>2, SuccsAreMembers, NoWayBack
    <3>2. After(g, y) \in Closed(g) /\ y \in After(g, y) /\ x \notin After(g, y)
      BY <3>1, AfterClosed DEF After
    <3>3. CASE u \notin After(g, y)
      <4>1. After(g, y) \in Closed(h)
        BY <1>1, <1>2, <3>2, <3>3, ClosedSets
      <4> QED
        BY <1>1, <3>1, <3>2, <4>1, PathsBySets
    <3>4. CASE u \in After(g, y)
      <4>1. x \notin After(g, v)
        <5>1. SUFFICES ASSUME <<v, x>> \in Paths(g) PROVE FALSE
          BY DEF After
        <5>2. <<v, y>> \in Paths(g)
          BY <2>2, <5>1, EdgesArePaths, PathsTransitive
        <5>3. <<v, u>> \in Paths(g)
          BY <3>4, <5>2, PathsTransitive DEF After
        <5> QED
          BY <5>3
      <4>2. After(g, y) \union After(g, v) \in Closed(h)
        BY <1>1, <1>2, <1>3, <3>2, ClosedSets
      <4> QED
        BY <1>1, <3>1, <3>2, <4>1, <4>2, PathsBySets
    <3> QED
      BY <3>3, <3>4
  <2> QED
    BY <1>2, <2>1, <2>2
<1> QED
  BY <1>1, <1>5 DEF Acyclic, h

(* command_graph_t::init: the fresh graph is a DAG. *)
LEMMA FreshWellFormed ==
  ASSUME NEW type \in [Node -> NodeType], NEW allocated \in SUBSET Inner
  PROVE  /\ Fresh(type, allocated) \in Graphs
         /\ EdgesMirrored(Fresh(type, allocated))
         /\ SimpleEdges(Fresh(type, allocated))
         /\ Acyclic(Fresh(type, allocated))
<1> DEFINE h == Fresh(type, allocated)
<1>1. entry \in Node /\ exit \in Node /\ entry # exit
  BY NodeAssumption
<1>2. \A x, y \in Node :
        /\ h.successors[x][y] = IF x = entry /\ y = exit THEN 1 ELSE 0
        /\ h.predecessors[x][y] = IF x = exit /\ y = entry THEN 1 ELSE 0
  BY <1>1 DEF Fresh, NoEdge, Just
<1>3. h \in Graphs /\ h.members = allocated \union {entry, exit}
  BY <1>1 DEF Fresh, NoEdge, Just, Graphs, Lists, Inner
<1> HIDE DEF h
<1>4. EdgesMirrored(h) /\ SimpleEdges(h)
  BY <1>1, <1>2, <1>3 DEF EdgesMirrored, SimpleEdges, Inner
<1>5. \A x \in Node : Succs(h, x) = IF x = entry THEN {exit} ELSE {}
  BY <1>1, <1>2 DEF Succs
<1>6. {exit} \in Closed(h)
  BY <1>1, <1>3, <1>5, ClosedSets
<1>7. Acyclic(h)
  BY <1>1, <1>3, <1>5, <1>6, PathsBySets DEF Acyclic, Inner
<1> QED
  BY <1>3, <1>4, <1>7 DEF h

-----------------------------------------------------------------------------
(* The recording the client starts from. *)
LEMMA RecordedLists ==
  ASSUME NEW type \in [Node -> NodeType], NEW allocated \in SUBSET Inner,
         NEW E \in SUBSET ((allocated \union {entry, exit}) \X (allocated \union {entry, exit})),
         NEW h, h = Recorded(type, allocated, E)
  PROVE  h \in Graphs /\ EdgesMirrored(h) /\ SimpleEdges(h) /\ h.members = allocated \union {entry, exit}
<1>1. h.members = allocated \union {entry, exit} /\ h.members \in SUBSET Node /\ h.type \in [Node -> NodeType]
  BY NodeAssumption DEF Recorded, Inner
<1>2. \A x, y \in Node : /\ h.successors[x][y] = IF <<x, y>> \in E THEN 1 ELSE 0
                         /\ h.predecessors[y][x] = IF <<x, y>> \in E THEN 1 ELSE 0
  BY DEF Recorded
<1>3. h.successors \in Lists /\ h.predecessors \in Lists
  BY DEF Recorded, Lists
<1>4. h \in Graphs
  <2>1. h = [successors |-> h.successors, predecessors |-> h.predecessors, type |-> h.type, members |-> h.members]
    BY DEF Recorded
  <2>2. QED
    BY <1>1, <1>3, <2>1 DEF Graphs
<1>5. \A x, y \in Node : <<x, y>> \in E => x \in h.members /\ y \in h.members
  BY <1>1
<1>6. EdgesMirrored(h)
  <2>1. SUFFICES ASSUME NEW x \in h.members, NEW y \in Node
                 PROVE  IF y \in h.members THEN h.successors[x][y] = h.predecessors[y][x]
                        ELSE h.successors[x][y] = 0 /\ h.predecessors[x][y] = 0
    BY DEF EdgesMirrored
  <2>2. x \in Node
    BY <1>1
  <2>3. CASE y \in h.members
    BY <1>2, <2>2, <2>3
  <2>4. CASE y \notin h.members
    <3>1. <<x, y>> \notin E /\ <<y, x>> \notin E
      BY <1>5, <2>2, <2>4
    <3>2. QED
      BY <1>2, <2>2, <2>4, <3>1
  <2>5. QED
    BY <2>3, <2>4
<1>7. SimpleEdges(h)
  <2>1. ASSUME NEW x \in h.members, NEW y \in Node PROVE h.successors[x][y] <= 1
    <3>1. x \in Node
      BY <1>1
    <3>2. h.successors[x][y] = IF <<x, y>> \in E THEN 1 ELSE 0
      BY <1>2, <3>1
    <3>3. QED
      BY <3>2
  <2>2. QED
    BY <2>1 DEF SimpleEdges
<1>8. QED
  BY <1>1, <1>4, <1>6, <1>7

(* The type of the nodes makes no difference to the paths. *)
LEMMA PathsOfLists ==
  ASSUME NEW g, NEW h, g.successors = h.successors, g.members = h.members
  PROVE  Paths(g) = Paths(h) /\ \A a : After(g, a) = After(h, a)
<1>1. \A x : Succs(g, x) = Succs(h, x)
  BY DEF Succs
<1>2. Closed(g) = Closed(h)
  BY <1>1 DEF Closed
<1>3. QED
  BY <1>2 DEF Paths, Separated, After

-----------------------------------------------------------------------------
(***************************************************************************)
(* A finite DAG: every set of its members has one that no other member of  *)
(* the set leads to, and one that leads to no other.                       *)
(***************************************************************************)
LEMMA SmallestSet ==
  ASSUME NEW S, IsFiniteSet(S), NEW T, T \subseteq SUBSET S, T # {}
  PROVE  \E A \in T : \A B \in T : B \subseteq A => B = A
<1>1. T \subseteq FiniteSubsetsOf(S)
  BY FS_FiniteSubsetsOfFinite
<1>2. PICK A \in T : \A B \in T : ~(<<B, A>> \in StrictSubsetOrdering(S))
  BY <1>1, WFMin, FS_StrictSubsetOrderingWellFounded
<1>3. QED
  BY <1>2 DEF StrictSubsetOrdering

LEMMA DagHasSource ==
  ASSUME NEW g \in Graphs, EdgesMirrored(g), Acyclic(g),
         NEW X, X \subseteq g.members, X # {}
  PROVE  \E x \in X : \A p \in X : x \notin Succs(g, p)
<1> DEFINE Before(x) == {z \in g.members : <<z, x>> \in Paths(g)}
<1> DEFINE T == {Before(x) : x \in X}
<1>1. g.members \subseteq Node /\ IsFiniteSet(g.members)
  BY NodeAssumption, FS_Subset DEF Graphs
<1>2. T \subseteq SUBSET g.members /\ T # {}
  OBVIOUS
<1>3. PICK A \in T : \A B \in T : B \subseteq A => B = A
  <2> HIDE DEF T
  <2>1. QED
    BY <1>1, <1>2, SmallestSet
<1>4. PICK x \in X : A = Before(x)
  OBVIOUS
<1>5. ASSUME NEW p \in X, x \in Succs(g, p) PROVE FALSE
  <2>1. <<p, x>> \in Paths(g)
    BY <1>5, EdgesArePaths
  <2>2. Before(p) \subseteq Before(x)
    BY <2>1, PathsTransitive
  <2>3. x \in Before(x)
    BY PathsReflexive
  <2>4. x \notin Before(p)
    BY <1>5, NoWayBack
  <2>5. QED
    BY <1>3, <1>4, <2>2, <2>3, <2>4
<1>6. QED
  BY <1>5

LEMMA DagHasSink ==
  ASSUME NEW g \in Graphs, EdgesMirrored(g), Acyclic(g),
         NEW X, X \subseteq g.members, X # {}
  PROVE  \E x \in X : \A s \in X : s \notin Succs(g, x)
<1> DEFINE T == {After(g, x) : x \in X}
<1>1. g.members \subseteq Node /\ IsFiniteSet(g.members)
  BY NodeAssumption, FS_Subset DEF Graphs
<1>2. T \subseteq SUBSET g.members /\ T # {}
  BY DEF After
<1>3. PICK A \in T : \A B \in T : B \subseteq A => B = A
  <2> HIDE DEF T
  <2>1. QED
    BY <1>1, <1>2, SmallestSet
<1>4. PICK x \in X : A = After(g, x)
  OBVIOUS
<1>5. ASSUME NEW s \in X, s \in Succs(g, x) PROVE FALSE
  <2>1. <<x, s>> \in Paths(g)
    BY <1>5, EdgesArePaths
  <2>2. After(g, s) \subseteq After(g, x)
    BY <2>1, PathsTransitive DEF After
  <2>3. x \in After(g, x)
    BY PathsReflexive DEF After
  <2>4. x \notin After(g, s)
    BY <1>5, NoWayBack DEF After
  <2>5. QED
    BY <1>3, <1>4, <2>2, <2>3, <2>4
<1>6. QED
  BY <1>5

-----------------------------------------------------------------------------
(***************************************************************************)
(* The flavours of contract(): two nodes that are false twins or a         *)
(* sequence become one, and the others neither gain nor lose a path.       *)
(* Each flavour is first shown to leave the edges of the quotient; what    *)
(* follows is shown of the quotient, for all of them.                      *)
(***************************************************************************)
(* What the hint of a contraction asserts of its operands. *)
Mergeable(g, u, v) == AreFalseTwins(g, u, v) \/ AreSequence(g, u, v) \/ AreSequence(g, v, u)

Dag(g) == g \in Graphs /\ EdgesMirrored(g) /\ SimpleEdges(g) /\ Acyclic(g)

(* No two nodes of a DAG lead to each other. *)
LEMMA PathsAntisymmetric ==
  ASSUME NEW g, Dag(g), NEW x, NEW y, <<x, y>> \in Paths(g), <<y, x>> \in Paths(g)
  PROVE  x = y
<1> USE DEF Dag
<1>1. SUFFICES ASSUME x # y PROVE FALSE
  OBVIOUS
<1>2. PICK z \in After(g, x) : y \in Succs(g, z)
  BY <1>1, LastEdge
<1>3. z \in g.members /\ <<x, z>> \in Paths(g)
  BY <1>2 DEF After
<1>4. <<y, z>> \in Paths(g)
  BY <1>3, PathsTransitive
<1>5. QED
  BY <1>2, <1>3, <1>4, NoWayBack

(* w stands for u and v. *)
Now(u, v, w, x) == IF x \in {u, v} THEN w ELSE x

(* h is g with u and v contracted into w. *)
Quotient(g, h, u, v, w) ==
  /\ h \in Graphs /\ EdgesMirrored(h) /\ SimpleEdges(h)
  /\ h.members = (g.members \ {u, v}) \union {w}
  /\ \A x \in g.members \ {u, v} :
       Succs(h, x) = IF u \in Succs(g, x) \/ v \in Succs(g, x)
                     THEN (Succs(g, x) \ {u, v}) \union {w}
                     ELSE Succs(g, x)
  /\ Succs(h, w) = (Succs(g, u) \union Succs(g, v)) \ {u, v}

(* u and v, and the node that takes their place. *)
Contractible(g, u, v, w) ==
  /\ u \in g.members /\ v \in g.members /\ u # v
  /\ w \in Node /\ (w \in {u, v} \/ w \notin g.members)
  /\ Mergeable(g, u, v)

-----------------------------------------------------------------------------
(* No other node can tell two false twins apart, nor the nodes of a sequence. *)
LEMMA TwinsAlike ==
  ASSUME NEW g, Dag(g), NEW u \in g.members, NEW v \in g.members, AreFalseTwins(g, u, v),
         NEW x \in g.members \ {u, v}
  PROVE  /\ <<x, u>> \in Paths(g) => <<x, v>> \in Paths(g)
         /\ <<u, x>> \in Paths(g) => <<v, x>> \in Paths(g)
<1> USE DEF Dag
<1>1. Preds(g, u) = Preds(g, v) /\ Succs(g, u) = Succs(g, v)
  BY DEF AreFalseTwins, Preds, Succs
<1>2. ASSUME <<x, u>> \in Paths(g) PROVE <<x, v>> \in Paths(g)
  <2>1. PICK z \in After(g, x) : u \in Succs(g, z)
    BY <1>2, LastEdge
  <2>2. z \in g.members /\ <<x, z>> \in Paths(g)
    BY <2>1 DEF After
  <2>3. v \in Succs(g, z)
    BY <1>1, <2>1, <2>2, SuccsArePreds
  <2>4. QED
    BY <2>2, <2>3, EdgesArePaths, PathsTransitive
<1>3. ASSUME <<u, x>> \in Paths(g) PROVE <<v, x>> \in Paths(g)
  <2>1. After(g, v) \in Closed(g) /\ v \in After(g, v)
    BY AfterClosed
  <2>2. After(g, v) \union {u} \in Closed(g)
    BY <1>1, <2>1, ClosedSets
  <2>3. x \in After(g, v)
    BY <1>3, <2>2, PathsBySets
  <2>4. QED
    BY <2>3 DEF After
<1>4. QED
  BY <1>2, <1>3

LEMMA SequenceAlike ==
  ASSUME NEW g, Dag(g), NEW u \in g.members, NEW v \in g.members, AreSequence(g, u, v),
         NEW x \in g.members \ {u, v}
  PROVE  /\ <<x, u>> \in Paths(g) <=> <<x, v>> \in Paths(g)
         /\ <<u, x>> \in Paths(g) <=> <<v, x>> \in Paths(g)
<1> USE DEF Dag
<1>1. Succs(g, u) = {v} /\ Preds(g, v) = {u}
  BY DEF AreSequence, Preds, Succs, Just, Graphs
<1>2. <<u, v>> \in Paths(g)
  BY <1>1, EdgesArePaths
<1>3. ASSUME <<x, v>> \in Paths(g) PROVE <<x, u>> \in Paths(g)
  <2>1. PICK z \in After(g, x) : v \in Succs(g, z)
    BY <1>3, LastEdge
  <2>2. z \in g.members /\ <<x, z>> \in Paths(g)
    BY <2>1 DEF After
  <2>3. z = u
    BY <1>1, <2>1, <2>2, SuccsArePreds
  <2>4. QED
    BY <2>2, <2>3
<1>4. ASSUME <<u, x>> \in Paths(g) PROVE <<v, x>> \in Paths(g)
  <2>1. After(g, v) \in Closed(g) /\ v \in After(g, v)
    BY AfterClosed
  <2>2. After(g, v) \union {u} \in Closed(g)
    BY <1>1, <2>1, ClosedSets
  <2>3. x \in After(g, v)
    BY <1>4, <2>2, PathsBySets
  <2>4. QED
    BY <2>3 DEF After
<1>5. QED
  BY <1>2, <1>3, <1>4, PathsTransitive

LEMMA MergeableAlike ==
  ASSUME NEW g, Dag(g), NEW u \in g.members, NEW v \in g.members, Mergeable(g, u, v),
         NEW x \in g.members \ {u, v}
  PROVE  /\ <<x, u>> \in Paths(g) <=> <<x, v>> \in Paths(g)
         /\ <<u, x>> \in Paths(g) <=> <<v, x>> \in Paths(g)
<1>1. AreFalseTwins(g, u, v) => AreFalseTwins(g, v, u)
  BY DEF AreFalseTwins
<1>2. QED
  BY <1>1, TwinsAlike, SequenceAlike DEF Mergeable

-----------------------------------------------------------------------------
(* Every edge of the quotient comes from an edge between other nodes ... *)
LEMMA QuotientEdges ==
  ASSUME NEW g, NEW h, NEW u, NEW v, NEW w, Dag(g), Contractible(g, u, v, w), Quotient(g, h, u, v, w),
         NEW a \in h.members, NEW b \in Succs(h, a)
  PROVE  /\ Now(u, v, w, a) = a /\ a # b
         /\ \E x, y \in g.members : y \in Succs(g, x) /\ Now(u, v, w, x) = a /\ Now(u, v, w, y) = b
<1> USE DEF Dag
<1>1. /\ a = w \/ a \in g.members \ {u, v}
      /\ u \in g.members /\ v \in g.members /\ (w \in {u, v} \/ w \notin g.members)
  BY DEF Quotient, Contractible
<1>2. CASE a = w
  <2>1. b \in (Succs(g, u) \union Succs(g, v)) \ {u, v}
    BY <1>2 DEF Quotient
  <2>2. b \in g.members /\ b # w
    BY <1>1, <2>1, SuccsAreMembers
  <2>3. QED
    BY <1>1, <1>2, <2>1, <2>2 DEF Now
<1>3. CASE a \in g.members \ {u, v}
  <2>1. b \in IF u \in Succs(g, a) \/ v \in Succs(g, a)
              THEN (Succs(g, a) \ {u, v}) \union {w} ELSE Succs(g, a)
    BY <1>3 DEF Quotient
  <2>2. a # w /\ Now(u, v, w, a) = a /\ Succs(g, a) \subseteq g.members /\ a \notin Succs(g, a)
    BY <1>1, <1>3, SuccsAreMembers, NoWayBack DEF Now
  <2>3. QED
    BY <1>1, <1>3, <2>1, <2>2 DEF Now
<1>4. QED
  BY <1>1, <1>2, <1>3

(* ... and every such edge leaves its edge. *)
LEMMA EdgesInQuotient ==
  ASSUME NEW g, NEW h, NEW u, NEW v, NEW w, Dag(g), Contractible(g, u, v, w), Quotient(g, h, u, v, w),
         NEW x \in g.members, NEW y \in Succs(g, x), Now(u, v, w, x) # Now(u, v, w, y)
  PROVE  Now(u, v, w, y) \in Succs(h, Now(u, v, w, x))
<1>1. CASE x \in {u, v}
  BY <1>1 DEF Quotient, Now
<1>2. CASE x \notin {u, v}
  BY <1>2 DEF Quotient, Now
<1>3. QED
  BY <1>1, <1>2

LEMMA PathsInQuotient ==
  ASSUME NEW g, NEW h, NEW u, NEW v, NEW w, Dag(g), Contractible(g, u, v, w), Quotient(g, h, u, v, w),
         NEW x \in g.members, NEW y \in g.members, <<x, y>> \in Paths(g)
  PROVE  <<Now(u, v, w, x), Now(u, v, w, y)>> \in Paths(h)
<1> USE DEF Dag
<1>1. h \in Graphs /\ \A z \in g.members : Now(u, v, w, z) \in h.members
  BY DEF Quotient, Now
<1>2. SUFFICES ASSUME NEW T \in Closed(h), Now(u, v, w, x) \in T PROVE Now(u, v, w, y) \in T
  BY <1>1, PathsBySets
<1> DEFINE S == {z \in g.members : Now(u, v, w, z) \in T}
<1>3. ASSUME NEW z \in S, NEW s \in Succs(g, z) PROVE s \in S
  <2>1. s \in g.members /\ (Now(u, v, w, s) = Now(u, v, w, z) \/ Now(u, v, w, s) \in Succs(h, Now(u, v, w, z)))
    BY SuccsAreMembers, EdgesInQuotient
  <2>2. Succs(h, Now(u, v, w, z)) \subseteq T
    BY <1>1, ClosedSets
  <2>3. QED
    BY <2>1, <2>2
<1>4. S \in Closed(g)
  BY <1>3, ClosedSets
<1>5. QED
  BY <1>2, <1>4, PathsBySets

(* The image of a closed set is closed. *)
LEMMA ImageClosed ==
  ASSUME NEW g, NEW h, NEW u, NEW v, NEW w, Dag(g), Contractible(g, u, v, w), Quotient(g, h, u, v, w),
         NEW S \in Closed(g)
  PROVE  {Now(u, v, w, z) : z \in S} \in Closed(h)
<1> USE DEF Dag
<1> DEFINE T == {Now(u, v, w, z) : z \in S}
<1>1. S \subseteq g.members /\ \A z \in S : Succs(g, z) \subseteq S
  BY ClosedSets
<1>2. T \subseteq h.members /\ h \in Graphs
  BY <1>1 DEF Quotient, Now
<1>3. ASSUME NEW a \in T, NEW b \in Succs(h, a) PROVE b \in T
  <2>1. CASE a \in g.members \ {u, v}
    <3>1. a \in S
      BY <1>3, <2>1 DEF Now, Contractible
    <3>2. b \in IF u \in Succs(g, a) \/ v \in Succs(g, a)
                THEN (Succs(g, a) \ {u, v}) \union {w} ELSE Succs(g, a)
      BY <2>1 DEF Quotient
    <3>3. QED
      BY <1>1, <3>1, <3>2 DEF Now
  <2>2. CASE a = w
    <3>1. b \in (Succs(g, u) \union Succs(g, v)) \ {u, v}
      BY <2>2 DEF Quotient
    <3>2. u \in S \/ v \in S
      BY <1>1, <2>2 DEF Now, Contractible
    <3>3. CASE AreFalseTwins(g, u, v)
      BY <1>1, <3>1, <3>2, <3>3 DEF AreFalseTwins, Succs, Now
    <3>4. CASE AreSequence(g, u, v)
      <4>1. Succs(g, u) = {v}
        BY <3>4 DEF AreSequence, Succs, Just, Contractible, Graphs
      <4>2. QED
        BY <1>1, <3>1, <3>2, <4>1 DEF Now
    <3>5. CASE AreSequence(g, v, u)
      <4>1. Succs(g, v) = {u}
        BY <3>5 DEF AreSequence, Succs, Just, Contractible, Graphs
      <4>2. QED
        BY <1>1, <3>1, <3>2, <4>1 DEF Now
    <3>6. QED
      BY <3>3, <3>4, <3>5 DEF Contractible, Mergeable
  <2>3. QED
    BY <1>2, <2>1, <2>2 DEF Quotient
<1>4. QED
  BY <1>2, <1>3, ClosedSets

LEMMA PathsOfQuotient ==
  ASSUME NEW g, NEW h, NEW u, NEW v, NEW w, Dag(g), Contractible(g, u, v, w), Quotient(g, h, u, v, w),
         NEW x \in g.members, NEW y \in g.members, Now(u, v, w, x) # Now(u, v, w, y),
         <<Now(u, v, w, x), Now(u, v, w, y)>> \in Paths(h)
  PROVE  <<x, y>> \in Paths(g)
<1> USE DEF Dag
<1> DEFINE S == After(g, x)
           T == {Now(u, v, w, z) : z \in S}
<1>1. S \in Closed(g) /\ x \in S
  BY AfterClosed
<1>2. T \in Closed(h) /\ Now(u, v, w, x) \in T
  BY <1>1, ImageClosed
<1>3. h \in Graphs /\ Now(u, v, w, x) \in h.members /\ Now(u, v, w, y) \in h.members
  BY DEF Quotient, Now
<1> HIDE DEF T
<1>4. Now(u, v, w, y) \in T
  BY <1>2, <1>3, PathsBySets
<1>5. PICK z \in S : Now(u, v, w, z) = Now(u, v, w, y)
  BY <1>4 DEF T
<1>6. z \in g.members /\ <<x, z>> \in Paths(g)
  BY <1>5 DEF After
<1>7. CASE z = y
  BY <1>6, <1>7
<1>8. CASE z # y
  <2>1. {y, z} = {u, v} /\ x \notin {u, v}
    BY <1>5, <1>6, <1>8 DEF Now, Contractible
  <2>2. x \in g.members \ {u, v} /\ u \in g.members /\ v \in g.members /\ Mergeable(g, u, v)
    BY <2>1 DEF Contractible
  <2>3. <<x, u>> \in Paths(g) <=> <<x, v>> \in Paths(g)
    BY <2>2, MergeableAlike
  <2>4. (z = u /\ y = v) \/ (z = v /\ y = u)
    BY <2>1
  <2>5. QED
    BY <1>6, <2>3, <2>4
<1>9. QED
  BY <1>7, <1>8

LEMMA QuotientAcyclic ==
  ASSUME NEW g, NEW h, NEW u, NEW v, NEW w, Dag(g), Contractible(g, u, v, w), Quotient(g, h, u, v, w)
  PROVE  Dag(h)
<1>1. ASSUME NEW a \in h.members, NEW b \in Succs(h, a) PROVE <<b, a>> \notin Paths(h)
  <2>1. PICK x, y \in g.members : y \in Succs(g, x) /\ Now(u, v, w, x) = a /\ Now(u, v, w, y) = b
    BY QuotientEdges
  <2>2. a # b
    BY QuotientEdges
  <2>3. <<b, a>> \in Paths(h) => <<y, x>> \in Paths(g)
    BY <2>1, <2>2, PathsOfQuotient
  <2>4. <<y, x>> \notin Paths(g)
    BY <2>1, NoWayBack DEF Dag
  <2>5. QED
    BY <2>3, <2>4
<1>2. QED
  BY <1>1 DEF Acyclic, Dag, Quotient

(* The entry stays the only source and the exit the only sink. *)
LEMMA QuotientCoherent ==
  ASSUME NEW g, NEW h, NEW u \in Inner, NEW v \in Inner, NEW w \in Inner,
         Dag(g), Contractible(g, u, v, w), Quotient(g, h, u, v, w),
         Coherent(g), entry \in g.members, exit \in g.members
  PROVE  Coherent(h)
<1> USE DEF Dag
<1>1. h \in Graphs /\ EdgesMirrored(h) /\ entry \in h.members /\ exit \in h.members /\ h.members \subseteq Node
  BY DEF Quotient, Inner, Graphs
<1>2. /\ Now(u, v, w, entry) = entry
      /\ \A x \in g.members : Now(u, v, w, x) = entry => x = entry
      /\ \A x \in g.members : Now(u, v, w, x) = exit => x = exit
  BY DEF Now, Inner
<1>3. Succs(h, exit) = {}
  <2>1. SUFFICES ASSUME NEW b \in Succs(h, exit) PROVE FALSE
    OBVIOUS
  <2>2. PICK x, y \in g.members : y \in Succs(g, x) /\ Now(u, v, w, x) = exit
    BY <1>1, QuotientEdges
  <2>3. QED
    BY <1>2, <2>2 DEF Coherent
<1>4. Preds(h, entry) = {}
  <2>1. SUFFICES ASSUME NEW p \in Preds(h, entry) PROVE FALSE
    OBVIOUS
  <2>2. p \in h.members /\ entry \in Succs(h, p)
    BY <1>1, SuccsAreMembers, SuccsArePreds
  <2>3. PICK x, y \in g.members : y \in Succs(g, x) /\ Now(u, v, w, y) = entry
    BY <2>2, QuotientEdges
  <2>4. x \in Preds(g, entry)
    BY <1>2, <2>3, SuccsArePreds
  <2>5. QED
    BY <2>4 DEF Coherent
<1>5. ASSUME NEW a \in h.members, <<entry, a>> \in Paths(h), a # entry PROVE Preds(h, a) # {}
  <2>1. PICK z \in After(h, entry) : a \in Succs(h, z)
    BY <1>1, <1>5, LastEdge
  <2>2. z \in Preds(h, a)
    BY <1>1, <2>1, SuccsArePreds DEF After
  <2>3. QED
    BY <2>2
<1>6. ASSUME NEW a \in h.members, <<entry, a>> \in Paths(h), a # exit PROVE Succs(h, a) # {}
  <2>1. PICK x \in g.members : /\ Now(u, v, w, x) = a /\ x # exit
                               /\ AreSequence(g, u, v) => x # u
                               /\ AreSequence(g, v, u) => x # v
    <3>1. CASE a # w
      BY <3>1, <1>6 DEF Quotient, Now
    <3>2. CASE a = w
      <4>1. Now(u, v, w, u) = w /\ Now(u, v, w, v) = w /\ u # exit /\ v # exit
        BY DEF Now, Inner
      <4>2. ~(AreSequence(g, u, v) /\ AreSequence(g, v, u))
        <5>1. SUFFICES ASSUME AreSequence(g, u, v), AreSequence(g, v, u) PROVE FALSE
          OBVIOUS
        <5>2. v \in Succs(g, u) /\ u \in Succs(g, v)
          BY <5>1 DEF AreSequence, Succs, Just, Inner
        <5>3. QED
          BY <5>2, NoWayBack, EdgesArePaths DEF Contractible
      <4>3. QED
        BY <3>2, <4>1, <4>2 DEF Contractible
    <3>3. QED
      BY <3>1, <3>2
  <2>2. <<entry, x>> \in Paths(g)
    <3>1. CASE a = entry
      BY <1>2, <2>1, <3>1, PathsReflexive
    <3>2. CASE a # entry
      BY <1>2, <1>6, <2>1, <3>2, PathsOfQuotient
    <3>3. QED
      BY <3>1, <3>2
  <2>3. PICK y \in Succs(g, x) : TRUE
    BY <2>1, <2>2 DEF Coherent
  <2>4. Now(u, v, w, x) # Now(u, v, w, y)
    <3>1. x # y /\ y \in g.members
      BY <2>3, NoWayBack, SuccsAreMembers
    <3>2. SUFFICES ASSUME x \in {u, v}, y \in {u, v} PROVE FALSE
      BY <3>1 DEF Now, Contractible
    <3>3. CASE AreFalseTwins(g, u, v)
      <4>1. Succs(g, u) = Succs(g, v)
        BY <3>3 DEF AreFalseTwins, Succs
      <4>2. y \in Succs(g, y)
        BY <2>3, <3>2, <4>1
      <4>3. QED
        BY <3>1, <4>2, NoWayBack
    <3>4. CASE AreSequence(g, u, v)
      <4>1. x = v /\ y = u /\ v \in Succs(g, u)
        BY <2>1, <3>1, <3>2, <3>4 DEF AreSequence, Succs, Just, Inner
      <4>2. QED
        BY <2>3, <3>1, <4>1, NoWayBack, EdgesArePaths
    <3>5. CASE AreSequence(g, v, u)
      <4>1. x = u /\ y = v /\ u \in Succs(g, v)
        BY <2>1, <3>1, <3>2, <3>5 DEF AreSequence, Succs, Just, Inner
      <4>2. QED
        BY <2>3, <3>1, <4>1, NoWayBack, EdgesArePaths
    <3>6. QED
      BY <3>3, <3>4, <3>5 DEF Contractible, Mergeable
  <2>5. QED
    BY <2>1, <2>3, <2>4, EdgesInQuotient
<1>7. QED
  BY <1>3, <1>4, <1>5, <1>6 DEF Coherent

-----------------------------------------------------------------------------
(***************************************************************************)
(* The lists of the members of a DAG: a node is in a list once or not.     *)
(***************************************************************************)
LEMMA DagLists ==
  ASSUME NEW g, Dag(g)
  PROVE  /\ g.members \subseteq Node
         /\ \A x, y \in Node : g.successors[x][y] \in Nat /\ g.predecessors[x][y] \in Nat
         /\ \A x \in g.members, y \in Node : g.successors[x][y] \in {0, 1} /\ g.predecessors[x][y] \in {0, 1}
         /\ \A x \in g.members, y \in g.members : g.successors[x][y] = g.predecessors[y][x]
         /\ \A x \in g.members, y \in Node \ g.members : g.successors[x][y] = 0 /\ g.predecessors[x][y] = 0
         /\ \A x \in g.members : g.successors[x][x] = 0 /\ g.predecessors[x][x] = 0
         /\ \A x, y \in g.members : ~(g.successors[x][y] > 0 /\ g.successors[y][x] > 0)
<1> USE DEF Dag
<1>1. g.members \subseteq Node
  BY DEF Graphs
<1>2. \A x, y \in Node : g.successors[x][y] \in Nat /\ g.predecessors[x][y] \in Nat
  BY DEF Graphs, Lists
<1>3. \A x \in g.members, y \in g.members : g.successors[x][y] = g.predecessors[y][x]
  BY <1>1 DEF EdgesMirrored
<1>4. \A x \in g.members, y \in Node \ g.members : g.successors[x][y] = 0 /\ g.predecessors[x][y] = 0
  BY DEF EdgesMirrored
<1>5. \A x \in g.members, y \in Node : g.successors[x][y] \in {0, 1}
  <2>1. \A n \in Nat : n <= 1 => n \in {0, 1}
    OBVIOUS
  <2>2. QED
    BY <1>1, <1>2, <2>1 DEF SimpleEdges
<1>6. \A x \in g.members, y \in Node : g.predecessors[x][y] \in {0, 1}
  BY <1>1, <1>3, <1>4, <1>5
<1>7. ASSUME NEW x \in g.members PROVE g.successors[x][x] = 0
  <2>1. x \notin Succs(g, x)
    BY NoWayBack
  <2>2. QED
    BY <1>1, <1>2, <2>1 DEF Succs
<1>8. ASSUME NEW x \in g.members, NEW y \in g.members, g.successors[x][y] > 0, g.successors[y][x] > 0
      PROVE  FALSE
  <2>1. y \in Succs(g, x) /\ x \in Succs(g, y)
    BY <1>1, <1>8 DEF Succs
  <2>2. QED
    BY <2>1, NoWayBack, EdgesArePaths
<1>9. QED
  BY <1>1, <1>2, <1>3, <1>4, <1>5, <1>6, <1>7, <1>8

(***************************************************************************)
(* A graph is the quotient when its lists are: counted in both directions. *)
(***************************************************************************)
Edge(g, u, v, w, x, y) ==
  IF x = w /\ y = w THEN 0
  ELSE IF x = w THEN IF g.successors[u][y] > 0 \/ g.successors[v][y] > 0 THEN 1 ELSE 0
  ELSE IF y = w THEN IF g.successors[x][u] > 0 \/ g.successors[x][v] > 0 THEN 1 ELSE 0
  ELSE g.successors[x][y]

LEMMA QuotientByLists ==
  ASSUME NEW g, NEW h, NEW u, NEW v, NEW w, Dag(g), Contractible(g, u, v, w),
         h \in Graphs, h.members = (g.members \ {u, v}) \union {w},
         \A x \in h.members, y \in h.members :
           h.successors[x][y] = Edge(g, u, v, w, x, y) /\ h.predecessors[y][x] = Edge(g, u, v, w, x, y),
         \A x \in h.members, y \in Node \ h.members : h.successors[x][y] = 0 /\ h.predecessors[x][y] = 0
  PROVE  Quotient(g, h, u, v, w)
<1>1. g.members \subseteq Node /\ u \in g.members /\ v \in g.members /\ w \in Node /\ u # v
  BY DagLists DEF Contractible
<1>0. \A y \in Node : y \in h.members /\ y # w <=> y \in g.members \ {u, v}
  BY <1>1 DEF Contractible
<1>2. EdgesMirrored(h)
  BY <1>1 DEF EdgesMirrored
<1>3. \A x \in h.members, y \in h.members : Edge(g, u, v, w, x, y) \in {0, 1}
  BY <1>1, DagLists DEF Edge
<1>4. SimpleEdges(h)
  BY <1>1, <1>3 DEF SimpleEdges
<1>5. ASSUME NEW x \in g.members \ {u, v}
      PROVE  Succs(h, x) = IF u \in Succs(g, x) \/ v \in Succs(g, x)
                           THEN (Succs(g, x) \ {u, v}) \union {w} ELSE Succs(g, x)
  <2>1. x \in h.members /\ x # w
    BY DEF Contractible
  <2>2. \A y \in Node : y \in Succs(g, x) <=> y \in g.members /\ g.successors[x][y] > 0
    BY DagLists DEF Succs
  <2>3. \A y \in Node : y \in Succs(h, x) <=> y \in h.members /\ Edge(g, u, v, w, x, y) > 0
    BY <2>1 DEF Succs
  <2>4. \A y \in h.members : Edge(g, u, v, w, x, y) =
          IF y = w THEN IF g.successors[x][u] > 0 \/ g.successors[x][v] > 0 THEN 1 ELSE 0
                   ELSE g.successors[x][y]
    BY <2>1 DEF Edge
  <2>5. ASSUME NEW y \in Node
        PROVE  y \in Succs(h, x) <=> y \in IF u \in Succs(g, x) \/ v \in Succs(g, x)
                                           THEN (Succs(g, x) \ {u, v}) \union {w} ELSE Succs(g, x)
    <3>1. CASE y = w
      <4>1. y \in Succs(h, x) <=> g.successors[x][u] > 0 \/ g.successors[x][v] > 0
        BY <1>1, <2>3, <2>4, <3>1
      <4>2. y \in Succs(g, x) => y \in {u, v}
        BY <2>2, <3>1 DEF Contractible
      <4>3. QED
        BY <1>1, <2>2, <3>1, <4>1, <4>2
    <3>2. CASE y # w
      <4>1. y \in Succs(h, x) <=> y \in g.members \ {u, v} /\ g.successors[x][y] > 0
        BY <1>0, <2>3, <2>4, <3>2
      <4>2. u \in Succs(g, x) \/ v \in Succs(g, x) \/ (u \notin Succs(g, x) /\ v \notin Succs(g, x))
        OBVIOUS
      <4>3. QED
        BY <2>2, <3>2, <4>1, <4>2
    <3>3. QED
      BY <3>1, <3>2
  <2>6. QED
    BY <1>1, <2>5 DEF Succs
<1>6. Succs(h, w) = (Succs(g, u) \union Succs(g, v)) \ {u, v}
  <2>1. w \in h.members
    OBVIOUS
  <2>2. \A y \in Node : y \in Succs(h, w) <=> y \in h.members /\ Edge(g, u, v, w, w, y) > 0
    BY <2>1 DEF Succs
  <2>3. \A y \in h.members : Edge(g, u, v, w, w, y) =
          IF y = w THEN 0 ELSE IF g.successors[u][y] > 0 \/ g.successors[v][y] > 0 THEN 1 ELSE 0
    BY DEF Edge
  <2>4. \A y \in Node : y \in Succs(g, u) \union Succs(g, v) <=>
          y \in g.members /\ (g.successors[u][y] > 0 \/ g.successors[v][y] > 0)
    BY <1>1, DagLists DEF Succs
  <2>5. \A y \in Node : y \in Succs(h, w) <=> y \in (Succs(g, u) \union Succs(g, v)) \ {u, v}
    BY <1>0, <2>2, <2>3, <2>4
  <2>6. QED
    BY <2>5 DEF Succs
<1>7. QED
  BY <1>2, <1>4, <1>5, <1>6 DEF Quotient

(* erase and push_back on a list that is a function to the naturals.       *)
LEMMA ListOperations ==
  ASSUME NEW list \in [Node -> Nat], NEW v \in Node
  PROVE  /\ list[v] > 0 => EraseOne(list, v) \in [Node -> Nat]
         /\ PushBack(list, v) \in [Node -> Nat]
         /\ \A y \in Node : /\ EraseOne(list, v)[y] = IF y = v THEN list[v] - 1 ELSE list[y]
                            /\ PushBack(list, v)[y] = IF y = v THEN list[v] + 1 ELSE list[y]
BY DEF EraseOne, PushBack

(* The neighbours of twins have both of them in their lists, once each.    *)
LEMMA TwinNeighbours ==
  ASSUME NEW g, Dag(g), NEW u \in g.members, NEW v \in g.members, u # v, AreFalseTwins(g, u, v)
  PROVE  /\ \A x \in Node : /\ x \in Preds(g, u) <=> x \in g.members /\ g.successors[x][u] = 1
                            /\ x \in Succs(g, u) <=> x \in g.members /\ g.successors[u][x] = 1
         /\ \A x \in g.members : /\ g.successors[x][v] = g.successors[x][u]
                                 /\ g.successors[v][x] = g.successors[u][x]
                                 /\ g.predecessors[x][v] = g.predecessors[x][u]
                                 /\ g.predecessors[v][x] = g.predecessors[u][x]
         /\ u \notin Preds(g, u) /\ u \notin Succs(g, u) /\ v \notin Preds(g, u) /\ v \notin Succs(g, u)
<1>1. \A x \in Node : g.successors[v][x] = g.successors[u][x] /\ g.predecessors[v][x] = g.predecessors[u][x]
  BY DEF AreFalseTwins
<1>2. \A x \in g.members : g.successors[x][v] = g.successors[x][u] /\ g.predecessors[x][v] = g.predecessors[x][u]
  BY <1>1, DagLists
<1>3. \A x \in Node : /\ x \in Preds(g, u) <=> x \in g.members /\ g.successors[x][u] = 1
                      /\ x \in Succs(g, u) <=> x \in g.members /\ g.successors[u][x] = 1
  BY DagLists DEF Preds, Succs
<1>4. g.successors[u][u] = 0 /\ g.successors[u][v] = 0 /\ g.successors[v][u] = 0
  BY <1>1, <1>2, DagLists
<1>5. QED
  BY <1>1, <1>2, <1>3, <1>4, DagLists

(***************************************************************************)
(* contract<FALSE_TWINS | INPLACE>(u, v).                                  *)
(***************************************************************************)
LEMMA ContractTwinsLists ==
  ASSUME NEW g \in Graphs, NEW u \in Node, NEW v \in Node, NEW h, h = ContractTwins(g, u, v),
         \A p \in Preds(g, u) : g.successors[p][v] > 0,
         \A s \in Succs(g, u) : g.predecessors[s][v] > 0
  PROVE  /\ h \in Graphs /\ h.members = g.members \ {v}
         /\ \A x, y \in Node :
              /\ h.successors[x][y] = IF x \in Preds(g, u) /\ y = v THEN g.successors[x][y] - 1
                                                                    ELSE g.successors[x][y]
              /\ h.predecessors[x][y] = IF x \in Succs(g, u) /\ y = v THEN g.predecessors[x][y] - 1
                                                                      ELSE g.predecessors[x][y]
<1>1. /\ h = [g EXCEPT !.successors = h.successors, !.predecessors = h.predecessors, !.members = h.members]
      /\ h.members = g.members \ {v}
      /\ h.successors = [p \in Node |-> IF p \in Preds(g, u) THEN EraseOne(g.successors[p], v)
                                                             ELSE g.successors[p]]
      /\ h.predecessors = [s \in Node |-> IF s \in Succs(g, u) THEN EraseOne(g.predecessors[s], v)
                                                               ELSE g.predecessors[s]]
  BY DEF ContractTwins, Graphs
<1>2. \A x \in Node : g.successors[x] \in [Node -> Nat] /\ g.predecessors[x] \in [Node -> Nat]
  BY DEF Graphs, Lists
<1>3. ASSUME NEW x \in Node
      PROVE  /\ h.successors[x] \in [Node -> Nat]
             /\ \A y \in Node :
                  h.successors[x][y] = IF x \in Preds(g, u) /\ y = v THEN g.successors[x][y] - 1
                                                                     ELSE g.successors[x][y]
  <2>1. CASE x \in Preds(g, u)
    <3>1. h.successors[x] = EraseOne(g.successors[x], v) /\ g.successors[x][v] > 0
      BY <1>1, <2>1
    <3>2. QED
      BY SMTT(40), <1>2, <2>1, <3>1, ListOperations
  <2>2. CASE x \notin Preds(g, u)
    <3>1. h.successors[x] = g.successors[x]
      BY <1>1, <2>2
    <3>2. QED
      BY SMTT(40), <1>2, <2>2, <3>1
  <2>3. QED
    BY <2>1, <2>2
<1>4. ASSUME NEW x \in Node
      PROVE  /\ h.predecessors[x] \in [Node -> Nat]
             /\ \A y \in Node :
                  h.predecessors[x][y] = IF x \in Succs(g, u) /\ y = v THEN g.predecessors[x][y] - 1
                                                                       ELSE g.predecessors[x][y]
  <2>1. CASE x \in Succs(g, u)
    <3>1. h.predecessors[x] = EraseOne(g.predecessors[x], v) /\ g.predecessors[x][v] > 0
      BY <1>1, <2>1
    <3>2. QED
      BY SMTT(40), <1>2, <2>1, <3>1, ListOperations
  <2>2. CASE x \notin Succs(g, u)
    <3>1. h.predecessors[x] = g.predecessors[x]
      BY ZenonT(60), <1>1, <2>2
    <3>2. QED
      BY SMTT(40), <1>2, <2>2, <3>1
  <2>3. QED
    BY <2>1, <2>2
<1>5. h.successors \in Lists /\ h.predecessors \in Lists
  BY <1>1, <1>3, <1>4 DEF Lists
<1>6. h \in Graphs
  BY ZenonT(60), <1>1, <1>5 DEF Graphs
<1>7. h.members = g.members \ {v}
  BY <1>1
<1>8. QED
  BY <1>3, <1>4, <1>6, <1>7

LEMMA ContractTwinsQuotient ==
  ASSUME NEW g, Dag(g), NEW u \in g.members, NEW v \in g.members, u # v, AreFalseTwins(g, u, v),
         NEW h, h = ContractTwins(g, u, v)
  PROVE  Quotient(g, h, u, v, u)
<1>1. g \in Graphs /\ g.members \subseteq Node /\ u \in Node /\ v \in Node /\ Contractible(g, u, v, u)
  BY DagLists DEF Dag, Contractible, Mergeable
<1>2. /\ \A x \in Preds(g, u) : g.successors[x][v] = 1
      /\ \A x \in Succs(g, u) : g.predecessors[x][v] = 1
  BY TwinNeighbours, DagLists DEF Preds, Succs
<1>3. /\ h \in Graphs /\ h.members = g.members \ {v}
      /\ \A x, y \in Node :
           /\ h.successors[x][y] = IF x \in Preds(g, u) /\ y = v THEN g.successors[x][y] - 1
                                                                 ELSE g.successors[x][y]
           /\ h.predecessors[x][y] = IF x \in Succs(g, u) /\ y = v THEN g.predecessors[x][y] - 1
                                                                   ELSE g.predecessors[x][y]
  BY <1>1, <1>2, ContractTwinsLists
<1>4. ASSUME NEW x \in h.members, NEW y \in h.members
      PROVE  h.successors[x][y] = Edge(g, u, v, u, x, y) /\ h.predecessors[y][x] = Edge(g, u, v, u, x, y)
  <2>1. x \in g.members /\ y \in g.members /\ x # v /\ y # v /\ x \in Node /\ y \in Node
    BY <1>1, <1>3
  <2>2. h.successors[x][y] = g.successors[x][y] /\ h.predecessors[y][x] = g.predecessors[y][x]
    BY <1>3, <2>1
  <2>3. g.successors[x][y] = g.predecessors[y][x] /\ g.successors[x][y] \in {0, 1}
    BY <2>1, DagLists
  <2>4. g.successors[v][y] = g.successors[u][y] /\ g.successors[x][v] = g.successors[x][u]
    BY <2>1, TwinNeighbours
  <2>5. g.successors[u][u] = 0
    BY DagLists
  <2>6. QED
    BY <2>2, <2>3, <2>4, <2>5 DEF Edge
<1>5. ASSUME NEW x \in h.members, NEW y \in Node \ h.members
      PROVE  h.successors[x][y] = 0 /\ h.predecessors[x][y] = 0
  <2>1. x \in g.members /\ x \in Node /\ (y = v \/ y \in Node \ g.members)
    BY <1>1, <1>3
  <2>2. CASE y = v
    <3>1. /\ x \in Preds(g, u) <=> g.successors[x][u] = 1
          /\ x \in Succs(g, u) <=> g.predecessors[x][u] = 1
          /\ g.successors[x][v] = g.successors[x][u] /\ g.predecessors[x][v] = g.predecessors[x][u]
      BY <1>1, <2>1, TwinNeighbours, DagLists
    <3>2. g.successors[x][u] \in {0, 1} /\ g.predecessors[x][u] \in {0, 1}
      BY <1>1, <2>1, DagLists
    <3>3. QED
      BY <1>1, <1>3, <2>1, <2>2, <3>1, <3>2
  <2>3. CASE y \in Node \ g.members
    BY <1>1, <1>3, <2>1, <2>3, DagLists
  <2>4. QED
    BY <2>1, <2>2, <2>3
<1>6. h.members = (g.members \ {u, v}) \union {u}
  BY <1>3
<1>7. QED
  BY <1>1, <1>3, <1>4, <1>5, <1>6, QuotientByLists

(* One occurrence of a gives way to one of b. *)
LEMMA MoveOne ==
  ASSUME NEW list \in [Node -> Nat], NEW a \in Node, NEW b \in Node, a # b, list[a] > 0
  PROVE  /\ PushBack(EraseOne(list, a), b) \in [Node -> Nat]
         /\ \A y \in Node : PushBack(EraseOne(list, a), b)[y] =
              IF y = a THEN list[a] - 1 ELSE IF y = b THEN list[b] + 1 ELSE list[y]
<1>1. /\ EraseOne(list, a) \in [Node -> Nat]
      /\ \A y \in Node : EraseOne(list, a)[y] = IF y = a THEN list[a] - 1 ELSE list[y]
  BY ListOperations
<1>2. /\ PushBack(EraseOne(list, a), b) \in [Node -> Nat]
      /\ \A y \in Node : PushBack(EraseOne(list, a), b)[y] =
           IF y = b THEN EraseOne(list, a)[b] + 1 ELSE EraseOne(list, a)[y]
  BY <1>1, ListOperations
<1>3. QED
  BY <1>1, <1>2

(***************************************************************************)
(* contract<U_V_SEQUENCE | INPLACE>(u, v).                                 *)
(***************************************************************************)
UVLists(g, h, u, v) ==
  /\ h \in Graphs /\ h.members = g.members \ {v}
  /\ \A x, y \in Node :
       /\ h.successors[x][y] = IF x = u THEN g.successors[v][y]
                               ELSE IF x = v THEN 0 ELSE g.successors[x][y]
       /\ h.predecessors[x][y] = IF x \in Succs(g, v) /\ y = v THEN g.predecessors[x][v] - 1
                                 ELSE IF x \in Succs(g, v) /\ y = u THEN g.predecessors[x][u] + 1
                                 ELSE g.predecessors[x][y]

LEMMA ContractUVLists ==
  ASSUME NEW g \in Graphs, NEW u \in Node, NEW v \in Node, u # v, NEW h, h = ContractUV(g, u, v),
         \A s \in Succs(g, v) : g.predecessors[s][v] > 0
  PROVE  UVLists(g, h, u, v)
<1>1. /\ h = [g EXCEPT !.successors = h.successors, !.predecessors = h.predecessors, !.members = h.members]
      /\ h.members = g.members \ {v}
      /\ h.successors = [g.successors EXCEPT ![u] = g.successors[v], ![v] = [x \in Node |-> 0]]
      /\ h.predecessors = [s \in Node |-> IF s \in Succs(g, v) THEN PushBack(EraseOne(g.predecessors[s], v), u)
                                                               ELSE g.predecessors[s]]
  BY DEF ContractUV, Graphs
<1>2. /\ g.successors \in [Node -> [Node -> Nat]]
      /\ \A x \in Node : g.successors[x] \in [Node -> Nat] /\ g.predecessors[x] \in [Node -> Nat]
  BY DEF Graphs, Lists
<1>3. ASSUME NEW x \in Node
      PROVE  /\ h.successors[x] \in [Node -> Nat]
             /\ \A y \in Node : h.successors[x][y] = IF x = u THEN g.successors[v][y]
                                                     ELSE IF x = v THEN 0 ELSE g.successors[x][y]
  <2>1. h.successors[x] = IF x = u THEN g.successors[v]
                          ELSE IF x = v THEN [z \in Node |-> 0] ELSE g.successors[x]
    BY <1>1, <1>2
  <2>2. QED
    BY <1>2, <2>1
<1>4. ASSUME NEW x \in Node
      PROVE  /\ h.predecessors[x] \in [Node -> Nat]
             /\ \A y \in Node :
                  h.predecessors[x][y] = IF x \in Succs(g, v) /\ y = v THEN g.predecessors[x][v] - 1
                                         ELSE IF x \in Succs(g, v) /\ y = u THEN g.predecessors[x][u] + 1
                                         ELSE g.predecessors[x][y]
  <2>1. CASE x \in Succs(g, v)
    <3>1. h.predecessors[x] = PushBack(EraseOne(g.predecessors[x], v), u) /\ g.predecessors[x][v] > 0
      BY <1>1, <2>1
    <3>2. QED
      BY SMTT(40), <1>2, <2>1, <3>1, MoveOne
  <2>2. CASE x \notin Succs(g, v)
    <3>1. h.predecessors[x] = g.predecessors[x]
      BY <1>1, <2>2
    <3>2. QED
      BY SMTT(40), <1>2, <2>2, <3>1
  <2>3. QED
    BY <2>1, <2>2
<1>5. h.successors \in Lists /\ h.predecessors \in Lists
  <2>1. h.successors \in [Node -> [Node -> Nat]]
    <3>1. [x \in Node |-> 0] \in [Node -> Nat] /\ g.successors[v] \in [Node -> Nat]
      BY <1>2
    <3>2. QED
      BY ZenonT(60), <1>1, <1>2, <3>1
  <2>2. h.predecessors \in [Node -> [Node -> Nat]]
    BY <1>1, <1>4
  <2>3. QED
    BY SMTT(40), <2>1, <2>2 DEF Lists
<1>6. h \in Graphs
  BY ZenonT(60), <1>1, <1>5 DEF Graphs
<1>7. h.members = g.members \ {v}
  BY <1>1
<1>8. QED
  BY <1>3, <1>4, <1>6, <1>7 DEF UVLists

(* What the lists of a sequence u -> v hold. *)
LEMMA SequenceNeighbours ==
  ASSUME NEW g, Dag(g), NEW u \in g.members, NEW v \in g.members, u # v, AreSequence(g, u, v)
  PROVE  /\ \A y \in Node : /\ g.successors[u][y] = IF y = v THEN 1 ELSE 0
                            /\ g.predecessors[v][y] = IF y = u THEN 1 ELSE 0
         /\ \A x \in g.members : /\ g.predecessors[x][u] = IF x = v THEN 1 ELSE 0
                                 /\ g.successors[x][v] = IF x = u THEN 1 ELSE 0
         /\ \A x \in Node : /\ x \in Succs(g, v) => x \in g.members /\ x \notin {u, v}
                            /\ x \in Preds(g, u) => x \in g.members /\ x \notin {u, v}
<1>1. \A y \in Node : /\ g.successors[u][y] = IF y = v THEN 1 ELSE 0
                      /\ g.predecessors[v][y] = IF y = u THEN 1 ELSE 0
  BY DEF AreSequence, Just
<1>2. \A x \in g.members : /\ g.predecessors[x][u] = IF x = v THEN 1 ELSE 0
                           /\ g.successors[x][v] = IF x = u THEN 1 ELSE 0
  BY <1>1, DagLists
<1>3. u \in Node /\ v \in Node
  BY DagLists
<1>4. g.successors[v][u] = 0 /\ g.successors[v][v] = 0 /\ g.predecessors[u][v] = 0 /\ g.predecessors[u][u] = 0
  BY <1>1, <1>2, <1>3, DagLists
<1>5. ASSUME NEW x \in Node
      PROVE  /\ x \in Succs(g, v) => x \in g.members /\ x \notin {u, v}
             /\ x \in Preds(g, u) => x \in g.members /\ x \notin {u, v}
  <2>1. x \notin g.members => g.successors[v][x] = 0 /\ g.predecessors[u][x] = 0
    BY DagLists
  <2>2. QED
    BY <1>4, <2>1 DEF Succs, Preds
<1>6. QED
  BY <1>1, <1>2, <1>5

LEMMA ContractUVQuotient ==
  ASSUME NEW g, Dag(g), NEW u \in g.members, NEW v \in g.members, u # v, AreSequence(g, u, v),
         NEW h, h = ContractUV(g, u, v)
  PROVE  Quotient(g, h, u, v, u)
<1>1. g \in Graphs /\ g.members \subseteq Node /\ u \in Node /\ v \in Node /\ Contractible(g, u, v, u)
  BY DagLists DEF Dag, Contractible, Mergeable
<1>2. \A x \in Node : x \in Succs(g, v) <=> x \in g.members /\ g.predecessors[x][v] = 1
  BY <1>1, DagLists DEF Succs
<1>3. /\ h \in Graphs /\ h.members = g.members \ {v}
      /\ \A x, y \in Node :
           /\ h.successors[x][y] = IF x = u THEN g.successors[v][y]
                                   ELSE IF x = v THEN 0 ELSE g.successors[x][y]
           /\ h.predecessors[x][y] = IF x \in Succs(g, v) /\ y = v THEN g.predecessors[x][v] - 1
                                     ELSE IF x \in Succs(g, v) /\ y = u THEN g.predecessors[x][u] + 1
                                     ELSE g.predecessors[x][y]
  <2>1. \A x \in Succs(g, v) : g.predecessors[x][v] > 0
    BY <1>2 DEF Succs
  <2>2. UVLists(g, h, u, v)
    BY <1>1, <2>1, ContractUVLists
  <2>3. QED
    BY <2>2 DEF UVLists
<1>4. ASSUME NEW x \in h.members, NEW y \in h.members
      PROVE  h.successors[x][y] = Edge(g, u, v, u, x, y) /\ h.predecessors[y][x] = Edge(g, u, v, u, x, y)
  <2>1. x \in g.members /\ y \in g.members /\ x # v /\ y # v /\ x \in Node /\ y \in Node
    BY <1>1, <1>3
  <2>2. /\ h.successors[x][y] = IF x = u THEN g.successors[v][y] ELSE g.successors[x][y]
        /\ h.predecessors[y][x] = IF y \in Succs(g, v) /\ x = u THEN g.predecessors[y][u] + 1
                                  ELSE g.predecessors[y][x]
    BY <1>3, <2>1
  <2>3. /\ g.successors[x][y] = g.predecessors[y][x] /\ g.successors[x][y] \in {0, 1}
        /\ g.successors[v][y] = g.predecessors[y][v] /\ g.successors[v][y] \in {0, 1}
    BY <2>1, DagLists
  <2>4. /\ g.successors[u][y] = 0 /\ g.successors[x][v] = (IF x = u THEN 1 ELSE 0)
        /\ g.predecessors[y][u] = 0 /\ g.successors[v][u] = 0
    BY <1>1, <2>1, SequenceNeighbours, DagLists
  <2>5. y \in Succs(g, v) <=> g.successors[v][y] = 1
    BY <1>2, <2>1, <2>3
  <2>6. CASE x = u
    BY <2>2, <2>3, <2>4, <2>5, <2>6 DEF Edge
  <2>7. CASE x # u
    BY <2>2, <2>3, <2>4, <2>7 DEF Edge
  <2>8. QED
    BY <2>6, <2>7
<1>5. ASSUME NEW x \in h.members, NEW y \in Node \ h.members
      PROVE  h.successors[x][y] = 0 /\ h.predecessors[x][y] = 0
  <2>1. x \in g.members /\ x \in Node /\ x # v /\ (y = v \/ y \in Node \ g.members)
    BY <1>1, <1>3
  <2>2. CASE y = v
    <3>1. g.successors[v][v] = 0 /\ g.successors[x][v] = (IF x = u THEN 1 ELSE 0)
      BY <2>1, SequenceNeighbours, DagLists
    <3>2. x \in Succs(g, v) <=> g.predecessors[x][v] = 1
      BY <1>2, <2>1
    <3>3. g.predecessors[x][v] \in {0, 1}
      BY <1>1, <2>1, DagLists
    <3>4. h.successors[x][v] = 0
      BY <1>1, <1>3, <2>1, <3>1
    <3>5. h.predecessors[x][v] = 0
      BY <1>1, <1>3, <2>1, <3>2, <3>3
    <3>6. QED
      BY <2>2, <3>4, <3>5
  <2>3. CASE y \in Node \ g.members
    <3>1. y # u /\ y # v
      BY <2>3
    <3>2. g.successors[v][y] = 0 /\ g.successors[x][y] = 0 /\ g.predecessors[x][y] = 0
      BY <2>1, <2>3, DagLists
    <3>3. QED
      BY <1>3, <2>1, <3>1, <3>2
  <2>4. QED
    BY <2>1, <2>2, <2>3
<1>6. h.members = (g.members \ {u, v}) \union {u}
  BY <1>3
<1>7. QED
  BY <1>1, <1>3, <1>4, <1>5, <1>6, QuotientByLists

(***************************************************************************)
(* contract<V_U_SEQUENCE | INPLACE>(u, v).                                 *)
(***************************************************************************)
VULists(g, h, u, v) ==
  /\ h \in Graphs /\ h.members = g.members \ {v}
  /\ \A x, y \in Node :
       /\ h.predecessors[x][y] = IF x = u THEN g.predecessors[v][y]
                                 ELSE IF x = v THEN 0 ELSE g.predecessors[x][y]
       /\ h.successors[x][y] = IF x \in Preds(g, v) /\ y = v THEN g.successors[x][v] - 1
                               ELSE IF x \in Preds(g, v) /\ y = u THEN g.successors[x][u] + 1
                               ELSE g.successors[x][y]

LEMMA ContractVULists ==
  ASSUME NEW g \in Graphs, NEW u \in Node, NEW v \in Node, u # v, NEW h, h = ContractVU(g, u, v),
         \A p \in Preds(g, v) : g.successors[p][v] > 0
  PROVE  VULists(g, h, u, v)
<1>1. /\ h = [g EXCEPT !.successors = h.successors, !.predecessors = h.predecessors, !.members = h.members]
      /\ h.members = g.members \ {v}
      /\ h.predecessors = [g.predecessors EXCEPT ![u] = g.predecessors[v], ![v] = [x \in Node |-> 0]]
      /\ h.successors = [p \in Node |-> IF p \in Preds(g, v) THEN PushBack(EraseOne(g.successors[p], v), u)
                                                             ELSE g.successors[p]]
  BY DEF ContractVU, Graphs
<1>2. /\ g.predecessors \in [Node -> [Node -> Nat]]
      /\ \A x \in Node : g.successors[x] \in [Node -> Nat] /\ g.predecessors[x] \in [Node -> Nat]
  BY DEF Graphs, Lists
<1>3. ASSUME NEW x \in Node
      PROVE  /\ h.predecessors[x] \in [Node -> Nat]
             /\ \A y \in Node : h.predecessors[x][y] = IF x = u THEN g.predecessors[v][y]
                                                       ELSE IF x = v THEN 0 ELSE g.predecessors[x][y]
  <2>1. h.predecessors[x] = IF x = u THEN g.predecessors[v]
                            ELSE IF x = v THEN [z \in Node |-> 0] ELSE g.predecessors[x]
    BY <1>1, <1>2
  <2>2. QED
    BY SMTT(40), <1>2, <2>1
<1>4. ASSUME NEW x \in Node
      PROVE  /\ h.successors[x] \in [Node -> Nat]
             /\ \A y \in Node :
                  h.successors[x][y] = IF x \in Preds(g, v) /\ y = v THEN g.successors[x][v] - 1
                                       ELSE IF x \in Preds(g, v) /\ y = u THEN g.successors[x][u] + 1
                                       ELSE g.successors[x][y]
  <2>1. CASE x \in Preds(g, v)
    <3>1. h.successors[x] = PushBack(EraseOne(g.successors[x], v), u) /\ g.successors[x][v] > 0
      BY <1>1, <2>1
    <3>2. QED
      BY SMTT(40), <1>2, <2>1, <3>1, MoveOne
  <2>2. CASE x \notin Preds(g, v)
    <3>1. h.successors[x] = g.successors[x]
      BY <1>1, <2>2
    <3>2. QED
      BY SMTT(40), <1>2, <2>2, <3>1
  <2>3. QED
    BY <2>1, <2>2
<1>5. h.successors \in Lists /\ h.predecessors \in Lists
  <2>1. h.predecessors \in [Node -> [Node -> Nat]]
    <3>1. [x \in Node |-> 0] \in [Node -> Nat] /\ g.predecessors[v] \in [Node -> Nat]
      BY <1>2
    <3>2. QED
      BY ZenonT(60), <1>1, <1>2, <3>1
  <2>2. h.successors \in [Node -> [Node -> Nat]]
    BY <1>1, <1>4
  <2>3. QED
    BY SMTT(40), <2>1, <2>2 DEF Lists
<1>6. h \in Graphs
  BY ZenonT(60), <1>1, <1>5 DEF Graphs
<1>7. h.members = g.members \ {v}
  BY <1>1
<1>8. QED
  BY <1>3, <1>4, <1>6, <1>7 DEF VULists

LEMMA ContractVUQuotient ==
  ASSUME NEW g, Dag(g), NEW u \in g.members, NEW v \in g.members, u # v, AreSequence(g, v, u),
         NEW h, h = ContractVU(g, u, v)
  PROVE  Quotient(g, h, u, v, u)
<1>1. g \in Graphs /\ g.members \subseteq Node /\ u \in Node /\ v \in Node /\ Contractible(g, u, v, u)
  BY DagLists DEF Dag, Contractible, Mergeable
<1>2. \A x \in Node : x \in Preds(g, v) <=> x \in g.members /\ g.successors[x][v] = 1
  BY <1>1, DagLists DEF Preds
<1>3. /\ h \in Graphs /\ h.members = g.members \ {v}
      /\ \A x, y \in Node :
           /\ h.predecessors[x][y] = IF x = u THEN g.predecessors[v][y]
                                     ELSE IF x = v THEN 0 ELSE g.predecessors[x][y]
           /\ h.successors[x][y] = IF x \in Preds(g, v) /\ y = v THEN g.successors[x][v] - 1
                                   ELSE IF x \in Preds(g, v) /\ y = u THEN g.successors[x][u] + 1
                                   ELSE g.successors[x][y]
  <2>1. \A x \in Preds(g, v) : g.successors[x][v] > 0
    BY <1>2 DEF Preds
  <2>2. VULists(g, h, u, v)
    BY <1>1, <2>1, ContractVULists
  <2>3. QED
    BY <2>2 DEF VULists
<1>4. ASSUME NEW x \in h.members, NEW y \in h.members
      PROVE  h.successors[x][y] = Edge(g, u, v, u, x, y) /\ h.predecessors[y][x] = Edge(g, u, v, u, x, y)
  <2>1. x \in g.members /\ y \in g.members /\ x # v /\ y # v /\ x \in Node /\ y \in Node
    BY <1>1, <1>3
  <2>2. /\ h.successors[x][y] = IF x \in Preds(g, v) /\ y = u THEN g.successors[x][u] + 1
                                ELSE g.successors[x][y]
        /\ h.predecessors[y][x] = IF y = u THEN g.predecessors[v][x] ELSE g.predecessors[y][x]
    BY <1>3, <2>1
  <2>3. /\ g.successors[x][y] = g.predecessors[y][x] /\ g.successors[x][y] \in {0, 1}
        /\ g.successors[x][v] = g.predecessors[v][x] /\ g.successors[x][v] \in {0, 1}
    BY <2>1, DagLists
  <2>4. /\ g.successors[v][y] = (IF y = u THEN 1 ELSE 0) /\ g.successors[x][u] = 0
        /\ g.successors[u][v] = 0
    BY <1>1, <2>1, SequenceNeighbours, DagLists
  <2>5. x \in Preds(g, v) <=> g.successors[x][v] = 1
    BY <1>2, <2>1, <2>3
  <2>6. CASE y = u
    BY <2>2, <2>3, <2>4, <2>5, <2>6 DEF Edge
  <2>7. CASE y # u
    BY <2>2, <2>3, <2>4, <2>7 DEF Edge
  <2>8. QED
    BY <2>6, <2>7
<1>5. ASSUME NEW x \in h.members, NEW y \in Node \ h.members
      PROVE  h.successors[x][y] = 0 /\ h.predecessors[x][y] = 0
  <2>1. x \in g.members /\ x \in Node /\ x # v /\ (y = v \/ y \in Node \ g.members)
    BY <1>1, <1>3
  <2>2. CASE y = v
    <3>1. g.predecessors[v][v] = 0 /\ g.predecessors[x][v] = (IF x = u THEN 1 ELSE 0)
      BY <2>1, SequenceNeighbours, DagLists
    <3>2. x \in Preds(g, v) <=> g.successors[x][v] = 1
      BY <1>2, <2>1
    <3>3. g.successors[x][v] \in {0, 1}
      BY <1>1, <2>1, DagLists
    <3>4. h.predecessors[x][v] = 0
      BY <1>1, <1>3, <2>1, <3>1
    <3>5. h.successors[x][v] = 0
      BY <1>1, <1>3, <2>1, <3>2, <3>3
    <3>6. QED
      BY <2>2, <3>4, <3>5
  <2>3. CASE y \in Node \ g.members
    <3>1. y # u /\ y # v
      BY <2>3
    <3>2. g.predecessors[v][y] = 0 /\ g.successors[x][y] = 0 /\ g.predecessors[x][y] = 0
      BY <2>1, <2>3, DagLists
    <3>3. QED
      BY <1>3, <2>1, <3>1, <3>2
  <2>4. QED
    BY <2>1, <2>2, <2>3
<1>6. h.members = (g.members \ {u, v}) \union {u}
  BY <1>3
<1>7. QED
  BY <1>1, <1>3, <1>4, <1>5, <1>6, QuotientByLists

(***************************************************************************)
(* contract<U_V_SEQUENCE>(u, v), into a fresh node w.                      *)
(***************************************************************************)
UVIntoLists(g, h, u, v, w) ==
  /\ h \in Graphs /\ h.members = (g.members \ {u, v}) \union {w}
  /\ \A x, y \in Node :
       /\ h.successors[x][y] =
            IF x \in Preds(g, u)
            THEN IF y = u THEN g.successors[x][u] - 1
                 ELSE IF y = w THEN g.successors[x][w] + 1 ELSE g.successors[x][y]
            ELSE IF x = w THEN g.successors[v][y] ELSE g.successors[x][y]
       /\ h.predecessors[x][y] =
            IF x \in Succs(g, v)
            THEN IF y = v THEN g.predecessors[x][v] - 1
                 ELSE IF y = w THEN g.predecessors[x][w] + 1 ELSE g.predecessors[x][y]
            ELSE IF x = w THEN g.predecessors[u][y] ELSE g.predecessors[x][y]

LEMMA ContractUVIntoLists ==
  ASSUME NEW g \in Graphs, NEW u \in Node, NEW v \in Node, NEW w \in Node, u # w, v # w,
         NEW h, h = ContractUVInto(g, u, v, w),
         \A p \in Preds(g, u) : g.successors[p][u] > 0,
         \A s \in Succs(g, v) : g.predecessors[s][v] > 0
  PROVE  UVIntoLists(g, h, u, v, w)
<1>1. /\ h = [g EXCEPT !.successors = h.successors, !.predecessors = h.predecessors,
                       !.type = h.type, !.members = h.members]
      /\ h.members = (g.members \ {u, v}) \union {w}
      /\ h.type = [g.type EXCEPT ![w] = "EMPTY"]
      /\ h.successors = [p \in Node |->
           IF p \in Preds(g, u) THEN PushBack(EraseOne(g.successors[p], u), w)
           ELSE IF p = w THEN g.successors[v]
           ELSE g.successors[p]]
      /\ h.predecessors = [s \in Node |->
           IF s \in Succs(g, v) THEN PushBack(EraseOne(g.predecessors[s], v), w)
           ELSE IF s = w THEN g.predecessors[u]
           ELSE g.predecessors[s]]
  BY DEF ContractUVInto, Graphs
<1>2. \A x \in Node : g.successors[x] \in [Node -> Nat] /\ g.predecessors[x] \in [Node -> Nat]
  BY DEF Graphs, Lists
<1>3. ASSUME NEW x \in Node
      PROVE  /\ h.successors[x] \in [Node -> Nat]
             /\ \A y \in Node : h.successors[x][y] =
                  IF x \in Preds(g, u)
                  THEN IF y = u THEN g.successors[x][u] - 1
                       ELSE IF y = w THEN g.successors[x][w] + 1 ELSE g.successors[x][y]
                  ELSE IF x = w THEN g.successors[v][y] ELSE g.successors[x][y]
  <2>1. CASE x \in Preds(g, u)
    <3>1. h.successors[x] = PushBack(EraseOne(g.successors[x], u), w) /\ g.successors[x][u] > 0
      BY ZenonT(60), <1>1, <2>1
    <3>2. QED
      BY SMTT(40), <1>2, <2>1, <3>1, MoveOne
  <2>2. CASE x \notin Preds(g, u)
    <3>1. h.successors[x] = IF x = w THEN g.successors[v] ELSE g.successors[x]
      BY <1>1, <2>2
    <3>2. QED
      BY SMTT(40), <1>2, <2>2, <3>1
  <2>3. QED
    BY <2>1, <2>2
<1>4. ASSUME NEW x \in Node
      PROVE  /\ h.predecessors[x] \in [Node -> Nat]
             /\ \A y \in Node : h.predecessors[x][y] =
                  IF x \in Succs(g, v)
                  THEN IF y = v THEN g.predecessors[x][v] - 1
                       ELSE IF y = w THEN g.predecessors[x][w] + 1 ELSE g.predecessors[x][y]
                  ELSE IF x = w THEN g.predecessors[u][y] ELSE g.predecessors[x][y]
  <2>1. CASE x \in Succs(g, v)
    <3>1. h.predecessors[x] = PushBack(EraseOne(g.predecessors[x], v), w) /\ g.predecessors[x][v] > 0
      BY ZenonT(60), <1>1, <2>1
    <3>2. QED
      BY SMTT(40), <1>2, <2>1, <3>1, MoveOne
  <2>2. CASE x \notin Succs(g, v)
    <3>1. h.predecessors[x] = IF x = w THEN g.predecessors[u] ELSE g.predecessors[x]
      BY ZenonT(60), <1>1, <2>2
    <3>2. QED
      BY SMTT(40), <1>2, <2>2, <3>1
  <2>3. QED
    BY <2>1, <2>2
<1>5. h.successors \in Lists /\ h.predecessors \in Lists
  BY ZenonT(60), <1>1, <1>3, <1>4 DEF Lists
<1>6. h.type \in [Node -> NodeType] /\ h.members \in SUBSET Node
  <2>1. h.type = [g.type EXCEPT ![w] = "EMPTY"] /\ h.members = (g.members \ {u, v}) \union {w}
    BY <1>1
  <2>2. g.type \in [Node -> NodeType] /\ g.members \subseteq Node
    BY DEF Graphs
  <2>3. QED
    BY <2>1, <2>2 DEF NodeType
<1>7. h \in Graphs
  BY ZenonT(60), <1>1, <1>5, <1>6 DEF Graphs
<1>8. h.members = (g.members \ {u, v}) \union {w}
  BY <1>1
<1>9. QED
  BY <1>3, <1>4, <1>7, <1>8 DEF UVIntoLists

LEMMA ContractUVIntoQuotient ==
  ASSUME NEW g, Dag(g), NEW u \in g.members, NEW v \in g.members, u # v, AreSequence(g, u, v),
         NEW w \in Node \ g.members, NEW h, h = ContractUVInto(g, u, v, w)
  PROVE  Quotient(g, h, u, v, w)
<1>1. /\ g \in Graphs /\ g.members \subseteq Node /\ u \in Node /\ v \in Node /\ w \in Node
      /\ u # w /\ v # w /\ Contractible(g, u, v, w)
  BY DagLists DEF Dag, Contractible, Mergeable
<1>2. \A x \in Node : /\ x \in Succs(g, v) <=> x \in g.members /\ g.predecessors[x][v] = 1
                      /\ x \in Preds(g, u) <=> x \in g.members /\ g.successors[x][u] = 1
  BY <1>1, DagLists DEF Succs, Preds
<1>3. /\ h \in Graphs /\ h.members = (g.members \ {u, v}) \union {w}
      /\ \A x, y \in Node :
           /\ h.successors[x][y] =
                IF x \in Preds(g, u)
                THEN IF y = u THEN g.successors[x][u] - 1
                     ELSE IF y = w THEN g.successors[x][w] + 1 ELSE g.successors[x][y]
                ELSE IF x = w THEN g.successors[v][y] ELSE g.successors[x][y]
           /\ h.predecessors[x][y] =
                IF x \in Succs(g, v)
                THEN IF y = v THEN g.predecessors[x][v] - 1
                     ELSE IF y = w THEN g.predecessors[x][w] + 1 ELSE g.predecessors[x][y]
                ELSE IF x = w THEN g.predecessors[u][y] ELSE g.predecessors[x][y]
  <2>1. /\ \A p \in Preds(g, u) : g.successors[p][u] > 0
        /\ \A s \in Succs(g, v) : g.predecessors[s][v] > 0
    BY <1>2 DEF Preds, Succs
  <2>2. UVIntoLists(g, h, u, v, w)
    BY <1>1, <2>1, ContractUVIntoLists
  <2>3. QED
    BY <2>2 DEF UVIntoLists
<1>4. ASSUME NEW x \in h.members, NEW y \in h.members
      PROVE  h.successors[x][y] = Edge(g, u, v, w, x, y) /\ h.predecessors[y][x] = Edge(g, u, v, w, x, y)
  <2>1. /\ x \in Node /\ y \in Node /\ x \notin {u, v} /\ y \notin {u, v}
        /\ x = w \/ x \in g.members
        /\ y = w \/ y \in g.members
    BY <1>1, <1>3
  <2>2. w \notin Preds(g, u) /\ w \notin Succs(g, v) /\ u \notin Succs(g, v) /\ v \notin Preds(g, u)
    BY <1>1, <1>2, SequenceNeighbours
  <2>3. CASE x = w /\ y = w
    <3>1. g.successors[v][w] = 0 /\ g.predecessors[u][w] = 0
      BY <1>1, DagLists
    <3>2. QED
      BY <1>3, <2>1, <2>2, <2>3, <3>1 DEF Edge
  <2>4. CASE x = w /\ y # w
    <3>1. /\ g.successors[v][y] = g.predecessors[y][v] /\ g.successors[v][y] \in {0, 1}
          /\ g.successors[u][y] = 0 /\ g.predecessors[y][w] = 0
      BY <1>1, <2>1, <2>4, SequenceNeighbours, DagLists
    <3>2. y \in Succs(g, v) <=> g.successors[v][y] = 1
      BY <1>2, <2>1, <2>4, <3>1
    <3>3. h.successors[x][y] = g.successors[v][y]
      BY <1>3, <2>1, <2>2, <2>4
    <3>4. h.predecessors[y][x] = IF y \in Succs(g, v) THEN 1 ELSE 0
      BY <1>1, <1>3, <2>1, <2>2, <2>4, <3>1
    <3>5. QED
      BY <2>4, <3>1, <3>2, <3>3, <3>4 DEF Edge
  <2>5. CASE x # w /\ y = w
    <3>1. /\ g.successors[x][u] = g.predecessors[u][x] /\ g.successors[x][u] \in {0, 1}
          /\ g.successors[x][v] = 0 /\ g.successors[x][w] = 0
      BY <1>1, <2>1, <2>5, SequenceNeighbours, DagLists
    <3>2. x \in Preds(g, u) <=> g.successors[x][u] = 1
      BY <1>2, <2>1, <2>5
    <3>3. h.predecessors[y][x] = g.predecessors[u][x]
      BY <1>3, <2>1, <2>2, <2>5
    <3>4. h.successors[x][y] = IF x \in Preds(g, u) THEN 1 ELSE 0
      BY <1>1, <1>3, <2>1, <2>2, <2>5, <3>1
    <3>5. QED
      BY <2>5, <3>1, <3>2, <3>3, <3>4 DEF Edge
  <2>6. CASE x # w /\ y # w
    <3>1. h.successors[x][y] = g.successors[x][y] /\ h.predecessors[y][x] = g.predecessors[y][x]
      BY <1>3, <2>1, <2>6
    <3>2. g.successors[x][y] = g.predecessors[y][x]
      BY <2>1, <2>6, DagLists
    <3>3. QED
      BY <2>6, <3>1, <3>2 DEF Edge
  <2>7. QED
    BY <2>3, <2>4, <2>5, <2>6
<1>5. ASSUME NEW x \in h.members, NEW y \in Node \ h.members
      PROVE  h.successors[x][y] = 0 /\ h.predecessors[x][y] = 0
  <2>1. /\ x \in Node /\ x \notin {u, v} /\ (x = w \/ x \in g.members)
        /\ y # w /\ (y \in {u, v} \/ y \in Node \ g.members)
    BY <1>1, <1>3
  <2>2. CASE x = w
    <3>1. w \notin Preds(g, u) /\ w \notin Succs(g, v)
      BY <1>1, <1>2
    <3>2. h.successors[x][y] = g.successors[v][y] /\ h.predecessors[x][y] = g.predecessors[u][y]
      BY <1>3, <2>1, <2>2, <3>1
    <3>3. u \notin Succs(g, v) /\ v \notin Succs(g, v) /\ u \notin Preds(g, u) /\ v \notin Preds(g, u)
      BY <1>1, SequenceNeighbours
    <3>4. y \notin Succs(g, v) /\ y \notin Preds(g, u)
      BY <1>1, <1>2, <2>1, <3>3
    <3>5. g.successors[v][y] \in Nat /\ g.predecessors[u][y] \in Nat
      BY <1>1, DagLists
    <3>6. QED
      BY <3>2, <3>4, <3>5 DEF Succs, Preds
  <2>3. CASE x # w
    <3>1. x \in g.members /\ g.successors[x][v] = 0 /\ g.predecessors[x][u] = 0
      BY <2>1, <2>3, SequenceNeighbours
    <3>2. /\ x \in Succs(g, v) <=> g.predecessors[x][v] = 1
          /\ x \in Preds(g, u) <=> g.successors[x][u] = 1
          /\ g.predecessors[x][v] \in {0, 1} /\ g.successors[x][u] \in {0, 1}
      BY <1>1, <1>2, <2>1, <3>1, DagLists
    <3>3. CASE y = u
      BY <1>1, <1>3, <2>1, <2>3, <3>1, <3>2, <3>3
    <3>4. CASE y = v
      BY <1>1, <1>3, <2>1, <2>3, <3>1, <3>2, <3>4
    <3>5. CASE y \notin {u, v}
      <4>1. g.successors[x][y] = 0 /\ g.predecessors[x][y] = 0
        BY <2>1, <3>1, <3>5, DagLists
      <4>2. QED
        BY <1>3, <2>1, <2>3, <3>5, <4>1
    <3>6. QED
      BY <3>3, <3>4, <3>5
  <2>4. QED
    BY <2>2, <2>3
<1>6. h \in Graphs /\ h.members = (g.members \ {u, v}) \union {w}
  BY <1>3
<1>7. QED
  BY <1>1, <1>4, <1>5, <1>6, QuotientByLists

(***************************************************************************)
(* contract<FALSE_TWINS>(u, v), into a fresh node w.                       *)
(***************************************************************************)
(* Two nodes give way to one. *)
LEMMA MoveTwo ==
  ASSUME NEW list \in [Node -> Nat], NEW a \in Node, NEW b \in Node, NEW c \in Node,
         a # b, a # c, b # c, list[a] > 0, list[b] > 0
  PROVE  /\ PushBack(EraseOne(EraseOne(list, a), b), c) \in [Node -> Nat]
         /\ \A y \in Node : PushBack(EraseOne(EraseOne(list, a), b), c)[y] =
              IF y = c THEN list[c] + 1 ELSE IF y \in {a, b} THEN list[y] - 1 ELSE list[y]
<1>1. /\ EraseOne(list, a) \in [Node -> Nat]
      /\ \A y \in Node : EraseOne(list, a)[y] = IF y = a THEN list[a] - 1 ELSE list[y]
  BY ListOperations
<1>2. /\ PushBack(EraseOne(EraseOne(list, a), b), c) \in [Node -> Nat]
      /\ \A y \in Node : PushBack(EraseOne(EraseOne(list, a), b), c)[y] =
           IF y = b THEN EraseOne(list, a)[b] - 1
           ELSE IF y = c THEN EraseOne(list, a)[c] + 1 ELSE EraseOne(list, a)[y]
  BY <1>1, MoveOne
<1>3. QED
  BY <1>1, <1>2

TwinsIntoLists(g, h, u, v, w) ==
  /\ h \in Graphs /\ h.members = (g.members \ {u, v}) \union {w}
  /\ \A x, y \in Node :
       /\ h.successors[x][y] =
            IF x \in Preds(g, u)
            THEN IF y = w THEN g.successors[x][w] + 1
                 ELSE IF y \in {u, v} THEN g.successors[x][y] - 1 ELSE g.successors[x][y]
            ELSE IF x = w THEN g.successors[u][y] ELSE g.successors[x][y]
       /\ h.predecessors[x][y] =
            IF x \in Succs(g, u)
            THEN IF y = w THEN g.predecessors[x][w] + 1
                 ELSE IF y \in {u, v} THEN g.predecessors[x][y] - 1 ELSE g.predecessors[x][y]
            ELSE IF x = w THEN g.predecessors[u][y] ELSE g.predecessors[x][y]

LEMMA ContractTwinsIntoLists ==
  ASSUME NEW g \in Graphs, NEW u \in Node, NEW v \in Node, NEW w \in Node, u # v, u # w, v # w,
         NEW h, h = ContractTwinsInto(g, u, v, w),
         \A p \in Preds(g, u) : g.successors[p][u] > 0 /\ g.successors[p][v] > 0,
         \A s \in Succs(g, u) : g.predecessors[s][u] > 0 /\ g.predecessors[s][v] > 0
  PROVE  TwinsIntoLists(g, h, u, v, w)
<1>1. /\ h = [g EXCEPT !.successors = h.successors, !.predecessors = h.predecessors,
                       !.type = h.type, !.members = h.members]
      /\ h.members = (g.members \ {u, v}) \union {w}
      /\ h.type = [g.type EXCEPT ![w] = "EMPTY"]
      /\ h.successors = [p \in Node |->
           IF p \in Preds(g, u) THEN PushBack(EraseOne(EraseOne(g.successors[p], u), v), w)
           ELSE IF p = w THEN g.successors[u]
           ELSE g.successors[p]]
      /\ h.predecessors = [s \in Node |->
           IF s \in Succs(g, u) THEN PushBack(EraseOne(EraseOne(g.predecessors[s], u), v), w)
           ELSE IF s = w THEN g.predecessors[u]
           ELSE g.predecessors[s]]
  BY DEF ContractTwinsInto, Graphs
<1>2. \A x \in Node : g.successors[x] \in [Node -> Nat] /\ g.predecessors[x] \in [Node -> Nat]
  BY DEF Graphs, Lists
<1>3. ASSUME NEW x \in Node
      PROVE  /\ h.successors[x] \in [Node -> Nat]
             /\ \A y \in Node : h.successors[x][y] =
                  IF x \in Preds(g, u)
                  THEN IF y = w THEN g.successors[x][w] + 1
                       ELSE IF y \in {u, v} THEN g.successors[x][y] - 1 ELSE g.successors[x][y]
                  ELSE IF x = w THEN g.successors[u][y] ELSE g.successors[x][y]
  <2>1. CASE x \in Preds(g, u)
    <3>1. /\ h.successors[x] = PushBack(EraseOne(EraseOne(g.successors[x], u), v), w)
          /\ g.successors[x][u] > 0 /\ g.successors[x][v] > 0
      BY ZenonT(60), <1>1, <2>1
    <3>2. /\ h.successors[x] \in [Node -> Nat]
          /\ \A y \in Node : h.successors[x][y] =
               IF y = w THEN g.successors[x][w] + 1
               ELSE IF y \in {u, v} THEN g.successors[x][y] - 1 ELSE g.successors[x][y]
      BY <1>2, <3>1, MoveTwo, SMTT(60)
    <3>3. QED
      BY SMTT(40), <2>1, <3>2
  <2>2. CASE x \notin Preds(g, u)
    <3>1. h.successors[x] = IF x = w THEN g.successors[u] ELSE g.successors[x]
      BY ZenonT(60), <1>1, <2>2
    <3>2. QED
      BY <1>2, <2>2, <3>1
  <2>3. QED
    BY <2>1, <2>2
<1>4. ASSUME NEW x \in Node
      PROVE  /\ h.predecessors[x] \in [Node -> Nat]
             /\ \A y \in Node : h.predecessors[x][y] =
                  IF x \in Succs(g, u)
                  THEN IF y = w THEN g.predecessors[x][w] + 1
                       ELSE IF y \in {u, v} THEN g.predecessors[x][y] - 1 ELSE g.predecessors[x][y]
                  ELSE IF x = w THEN g.predecessors[u][y] ELSE g.predecessors[x][y]
  <2>1. CASE x \in Succs(g, u)
    <3>1. /\ h.predecessors[x] = PushBack(EraseOne(EraseOne(g.predecessors[x], u), v), w)
          /\ g.predecessors[x][u] > 0 /\ g.predecessors[x][v] > 0
      BY ZenonT(60), <1>1, <2>1
    <3>2. /\ h.predecessors[x] \in [Node -> Nat]
          /\ \A y \in Node : h.predecessors[x][y] =
               IF y = w THEN g.predecessors[x][w] + 1
               ELSE IF y \in {u, v} THEN g.predecessors[x][y] - 1 ELSE g.predecessors[x][y]
      BY <1>2, <3>1, MoveTwo, SMTT(60)
    <3>3. QED
      BY <2>1, <3>2
  <2>2. CASE x \notin Succs(g, u)
    <3>1. h.predecessors[x] = IF x = w THEN g.predecessors[u] ELSE g.predecessors[x]
      BY ZenonT(60), <1>1, <2>2
    <3>2. QED
      BY <1>2, <2>2, <3>1
  <2>3. QED
    BY <2>1, <2>2
<1>5. h.successors \in Lists /\ h.predecessors \in Lists
  BY ZenonT(60), <1>1, <1>3, <1>4 DEF Lists
<1>6. h.type \in [Node -> NodeType] /\ h.members \in SUBSET Node
  <2>1. h.type = [g.type EXCEPT ![w] = "EMPTY"] /\ h.members = (g.members \ {u, v}) \union {w}
    BY ZenonT(60), <1>1
  <2>2. g.type \in [Node -> NodeType] /\ g.members \subseteq Node
    BY SMTT(40) DEF Graphs
  <2>3. QED
    BY <2>1, <2>2 DEF NodeType
<1>7. h \in Graphs
  BY ZenonT(60), <1>1, <1>5, <1>6 DEF Graphs
<1>8. h.members = (g.members \ {u, v}) \union {w}
  BY ZenonT(60), <1>1
<1>9. QED
  BY <1>3, <1>4, <1>7, <1>8 DEF TwinsIntoLists

LEMMA ContractTwinsIntoQuotient ==
  ASSUME NEW g, Dag(g), NEW u \in g.members, NEW v \in g.members, u # v, AreFalseTwins(g, u, v),
         NEW w \in Node \ g.members, NEW h, h = ContractTwinsInto(g, u, v, w)
  PROVE  Quotient(g, h, u, v, w)
<1>1. /\ g \in Graphs /\ g.members \subseteq Node /\ u \in Node /\ v \in Node /\ w \in Node
      /\ u # w /\ v # w /\ Contractible(g, u, v, w)
  BY DagLists DEF Dag, Contractible, Mergeable
<1>2. \A x \in g.members : /\ x \in Preds(g, u) <=> g.successors[x][u] = 1
                           /\ x \in Succs(g, u) <=> g.predecessors[x][u] = 1
                           /\ g.successors[x][v] = g.successors[x][u]
                           /\ g.predecessors[x][v] = g.predecessors[x][u]
                           /\ g.successors[v][x] = g.successors[u][x]
  BY <1>1, TwinNeighbours, DagLists
<1>3. w \notin Preds(g, u) /\ w \notin Succs(g, u) /\ Preds(g, u) \subseteq g.members /\ Succs(g, u) \subseteq g.members
  BY <1>1, TwinNeighbours DEF Preds, Succs
<1>4. TwinsIntoLists(g, h, u, v, w)
  <2>1. /\ \A p \in Preds(g, u) : g.successors[p][u] > 0 /\ g.successors[p][v] > 0
        /\ \A s \in Succs(g, u) : g.predecessors[s][u] > 0 /\ g.predecessors[s][v] > 0
    BY <1>2, <1>3
  <2>2. QED
    BY <1>1, <2>1, ContractTwinsIntoLists
<1>5. ASSUME NEW x \in h.members, NEW y \in h.members
      PROVE  h.successors[x][y] = Edge(g, u, v, w, x, y) /\ h.predecessors[y][x] = Edge(g, u, v, w, x, y)
  <2>1. /\ x \in Node /\ y \in Node /\ x \notin {u, v} /\ y \notin {u, v}
        /\ x = w \/ x \in g.members
        /\ y = w \/ y \in g.members
    BY <1>1, <1>4 DEF TwinsIntoLists
  <2>2. /\ h.successors[x][y] =
             IF x \in Preds(g, u) THEN IF y = w THEN g.successors[x][w] + 1 ELSE g.successors[x][y]
             ELSE IF x = w THEN g.successors[u][y] ELSE g.successors[x][y]
        /\ h.predecessors[y][x] =
             IF y \in Succs(g, u) THEN IF x = w THEN g.predecessors[y][w] + 1 ELSE g.predecessors[y][x]
             ELSE IF y = w THEN g.predecessors[u][x] ELSE g.predecessors[y][x]
    BY <1>4, <2>1 DEF TwinsIntoLists
  <2>3. CASE x = w /\ y = w
    <3>1. g.successors[u][w] = 0 /\ g.predecessors[u][w] = 0
      BY <1>1, DagLists
    <3>2. QED
      BY <1>3, <2>2, <2>3, <3>1 DEF Edge
  <2>4. CASE x = w /\ y # w
    <3>1. /\ g.successors[u][y] = g.predecessors[y][u] /\ g.successors[u][y] \in {0, 1}
          /\ g.successors[v][y] = g.successors[u][y] /\ g.predecessors[y][w] = 0
      BY <1>1, <1>2, <2>1, <2>4, DagLists
    <3>2. y \in Succs(g, u) <=> g.successors[u][y] = 1
      BY <1>2, <2>1, <2>4, <3>1
    <3>3. h.successors[x][y] = g.successors[u][y]
      BY <1>3, <2>2, <2>4
    <3>4. h.predecessors[y][x] = IF y \in Succs(g, u) THEN 1 ELSE 0
      BY <2>2, <2>4, <3>1
    <3>5. QED
      BY <2>4, <3>1, <3>2, <3>3, <3>4 DEF Edge
  <2>5. CASE x # w /\ y = w
    <3>1. /\ g.successors[x][u] = g.predecessors[u][x] /\ g.successors[x][u] \in {0, 1}
          /\ g.successors[x][v] = g.successors[x][u] /\ g.successors[x][w] = 0
      BY <1>1, <1>2, <2>1, <2>5, DagLists
    <3>2. x \in Preds(g, u) <=> g.successors[x][u] = 1
      BY <1>2, <2>1, <2>5
    <3>3. h.predecessors[y][x] = g.predecessors[u][x]
      BY <1>3, <2>2, <2>5
    <3>4. h.successors[x][y] = IF x \in Preds(g, u) THEN 1 ELSE 0
      BY <2>2, <2>5, <3>1
    <3>5. QED
      BY <2>5, <3>1, <3>2, <3>3, <3>4 DEF Edge
  <2>6. CASE x # w /\ y # w
    <3>1. h.successors[x][y] = g.successors[x][y] /\ h.predecessors[y][x] = g.predecessors[y][x]
      BY <2>2, <2>6
    <3>2. g.successors[x][y] = g.predecessors[y][x]
      BY <2>1, <2>6, DagLists
    <3>3. QED
      BY <2>6, <3>1, <3>2 DEF Edge
  <2>7. QED
    BY <2>3, <2>4, <2>5, <2>6
<1>6. ASSUME NEW x \in h.members, NEW y \in Node \ h.members
      PROVE  h.successors[x][y] = 0 /\ h.predecessors[x][y] = 0
  <2>1. /\ x \in Node /\ x \notin {u, v} /\ (x = w \/ x \in g.members)
        /\ y # w /\ (y \in {u, v} \/ y \in Node \ g.members)
    BY <1>1, <1>4 DEF TwinsIntoLists
  <2>2. /\ h.successors[x][y] =
             IF x \in Preds(g, u) THEN IF y \in {u, v} THEN g.successors[x][y] - 1 ELSE g.successors[x][y]
             ELSE IF x = w THEN g.successors[u][y] ELSE g.successors[x][y]
        /\ h.predecessors[x][y] =
             IF x \in Succs(g, u) THEN IF y \in {u, v} THEN g.predecessors[x][y] - 1 ELSE g.predecessors[x][y]
             ELSE IF x = w THEN g.predecessors[u][y] ELSE g.predecessors[x][y]
    BY <1>4, <2>1 DEF TwinsIntoLists
  <2>3. CASE x = w
    <3>1. g.successors[u][y] = 0 /\ g.predecessors[u][y] = 0
      <4>1. g.successors[u][u] = 0 /\ g.successors[u][v] = 0 /\ g.predecessors[u][u] = 0 /\ g.predecessors[u][v] = 0
        BY <1>1, <1>2, DagLists
      <4>2. QED
        BY <2>1, <4>1, DagLists
    <3>2. QED
      BY <1>3, <2>2, <2>3, <3>1
  <2>4. CASE x # w
    <3>1. x \in g.members
      BY <2>1, <2>4
    <3>2. g.successors[x][u] \in {0, 1} /\ g.predecessors[x][u] \in {0, 1}
      BY <1>1, <3>1, DagLists
    <3>3. CASE y \in {u, v}
      <4>1. g.successors[x][y] = g.successors[x][u] /\ g.predecessors[x][y] = g.predecessors[x][u]
        BY <1>2, <3>1, <3>3
      <4>2. /\ x \in Preds(g, u) <=> g.successors[x][u] = 1
            /\ x \in Succs(g, u) <=> g.predecessors[x][u] = 1
        BY <1>2, <3>1
      <4>3. h.successors[x][y] = 0
        BY <2>2, <2>4, <3>2, <3>3, <4>1, <4>2
      <4>4. h.predecessors[x][y] = 0
        BY <2>2, <2>4, <3>2, <3>3, <4>1, <4>2
      <4>5. QED
        BY <4>3, <4>4
    <3>4. CASE y \notin {u, v}
      <4>1. g.successors[x][y] = 0 /\ g.predecessors[x][y] = 0
        BY <2>1, <3>1, <3>4, DagLists
      <4>2. QED
        BY <2>2, <2>4, <3>4, <4>1
    <3>5. QED
      BY <3>3, <3>4
  <2>5. QED
    BY <2>3, <2>4
<1>7. h \in Graphs /\ h.members = (g.members \ {u, v}) \union {w}
  BY <1>4 DEF TwinsIntoLists
<1>8. QED
  BY <1>1, <1>5, <1>6, <1>7, QuotientByLists
-----------------------------------------------------------------------------
(***************************************************************************)
(* Arithmetic modulo A.                                                    *)
(***************************************************************************)
LEMMA ModRange ==
  ASSUME NEW A \in Nat \ {0}, NEW x \in Int
  PROVE  x % A \in 0 .. A - 1 /\ x \div A \in Int /\ x = A * (x \div A) + (x % A)
<1>1. x % A \in 0 .. A - 1
  OBVIOUS
<1>2. x \div A \in Int /\ x = A * (x \div A) + (x % A)
  OBVIOUS
<1>3. QED
  BY <1>1, <1>2

LEMMA SmallMultiple ==
  ASSUME NEW A \in Nat \ {0}, NEW k \in Int, NEW r \in Int, -A < r, r < A, r = A * k
  PROVE  k = 0
<1>1. CASE k >= 1
  <2>1. A * k = A + A * (k - 1)
    BY <1>1
  <2>2. A * (k - 1) >= 0
    BY <1>1
  <2>3. QED
    BY <1>1, <2>1, <2>2
<1>2. CASE k <= -1
  <2>1. A * k = -A - A * (-k - 1)
    BY <1>2
  <2>2. A * (-k - 1) >= 0
    BY <1>2
  <2>3. QED
    BY <1>2, <2>1, <2>2
<1>3. QED
  BY <1>1, <1>2

(* Quotient and remainder are unique. *)
LEMMA ModUnique ==
  ASSUME NEW A \in Nat \ {0}, NEW x \in Int, NEW q \in Int, NEW r \in 0 .. A - 1, x = A * q + r
  PROVE  x % A = r
<1> DEFINE p == x \div A
           s == x % A
<1>1. p \in Int /\ s \in 0 .. A - 1 /\ x = A * p + s
  BY ModRange
<1> HIDE DEF p, s
<1>2. s - r = A * (q - p)
  BY <1>1
<1>3. q - p = 0
  <2>1. q - p \in Int /\ s - r \in Int /\ -A < s - r /\ s - r < A
    BY <1>1
  <2>2. QED
    BY <1>2, <2>1, SmallMultiple
<1>4. s = r
  BY <1>1, <1>2, <1>3
<1>5. QED
  BY <1>4 DEF s

LEMMA ModSmall ==
  ASSUME NEW A \in Nat \ {0}, NEW x \in 0 .. A - 1
  PROVE  x % A = x
<1>1. x = A * 0 + x
  OBVIOUS
<1>2. QED
  BY <1>1, ModUnique

(* Multiples of the modulus may be left out. *)
LEMMA ModOfSum ==
  ASSUME NEW A \in Nat \ {0}, NEW x \in Int, NEW k \in Int
  PROVE  (x + A * k) % A = x % A
<1> DEFINE p == x \div A
           s == x % A
<1>1. p \in Int /\ s \in 0 .. A - 1 /\ x = A * p + s
  BY ModRange
<1> HIDE DEF p, s
<1>2. x + A * k = A * (p + k) + s
  BY <1>1
<1>3. (x + A * k) % A = s
  BY <1>1, <1>2, ModUnique
<1>4. QED
  BY <1>3 DEF s

LEMMA ModOfProduct ==
  ASSUME NEW A \in Nat \ {0}, NEW x \in Int, NEW j \in Int, NEW y \in Int
  PROVE  (x + j * (y % A)) % A = (x + j * y) % A
<1> DEFINE p == y \div A
           s == y % A
<1>1. p \in Int /\ s \in 0 .. A - 1 /\ y = A * p + s
  BY ModRange
<1> HIDE DEF p, s
<1>2. j * p \in Int /\ j * s \in Int
  BY <1>1
<1>3. x + j * y = (x + j * s) + A * (j * p)
  <2>1. j * y = j * (A * p) + j * s
    BY <1>1
  <2>2. j * (A * p) = A * (j * p)
    BY <1>1
  <2>3. QED
    BY <1>1, <1>2, <2>1, <2>2
<1>4. ((x + j * s) + A * (j * p)) % A = (x + j * s) % A
  <2>1. x + j * s \in Int
    BY <1>2
  <2>2. QED
    BY <1>2, <2>1, ModOfSum
<1>5. QED
  BY <1>3, <1>4 DEF s

LEMMA NatProduct ==
  ASSUME NEW x \in Nat, NEW y \in Nat
  PROVE  x * y \in Nat
OBVIOUS

LEMMA MonotoneProduct ==
  ASSUME NEW x \in Nat, NEW y \in Nat, NEW z \in Nat, y <= z
  PROVE  x * y <= x * z
<1>1. z - y \in Nat
  OBVIOUS
<1>2. x * (z - y) \in Nat
  BY <1>1, NatProduct
<1>3. x * z = x * y + x * (z - y)
  BY <1>1
<1>4. x * y \in Nat
  BY NatProduct
<1>5. QED
  BY <1>2, <1>3, <1>4

(* The numbers below w * n are the positions in n columns of w. *)
LEMMA Columns ==
  ASSUME NEW w \in Nat, NEW n \in Nat
  PROVE  /\ \A i \in 0 .. w - 1, j \in 0 .. n - 1 : w * j + i \in 0 .. w * n - 1
         /\ \A k \in 0 .. w * n - 1 :
              \E i \in 0 .. w - 1, j \in 0 .. n - 1 : k = w * j + i
<1>1. ASSUME NEW i \in 0 .. w - 1, NEW j \in 0 .. n - 1
      PROVE  w * j + i \in 0 .. w * n - 1
  <2>1. w * (j + 1) <= w * n /\ w * (j + 1) = w * j + w /\ w * j \in Nat /\ w * n \in Nat
    BY MonotoneProduct, NatProduct
  <2>2. QED
    BY <2>1
<1>2. ASSUME NEW k \in 0 .. w * n - 1
      PROVE  \E i \in 0 .. w - 1, j \in 0 .. n - 1 : k = w * j + i
  <2>1. w \in Nat \ {0} /\ w * n \in Nat
    BY NatProduct
  <2> DEFINE j == k \div w
             i == k % w
  <2>2. j \in Int /\ i \in 0 .. w - 1 /\ k = w * j + i
    BY <2>1, ModRange
  <2> HIDE DEF i, j
  <2>3. j >= 0
    <3>1. CASE j <= -1
      <4>1. w * (-j - 1) >= 0
        BY <2>1, <2>2, <3>1
      <4>2. w * j = -w - w * (-j - 1)
        BY <2>1, <2>2, <3>1
      <4>3. QED
        BY <2>1, <2>2, <4>1, <4>2
    <3>2. QED
      BY <2>2, <3>1
  <2>4. j < n
    <3>1. CASE n <= j
      <4>1. w * n <= w * j
        BY <2>1, <2>2, <3>1, MonotoneProduct
      <4>2. w * j \in Nat
        BY <2>1, <2>2, <2>3, NatProduct
      <4>3. QED
        BY <2>1, <2>2, <4>1, <4>2
    <3>2. QED
      BY <2>2, <3>1
  <2>5. i \in 0 .. w - 1 /\ j \in 0 .. n - 1
    BY <2>2, <2>3, <2>4
  <2>6. QED
    BY <2>2, <2>5
<1>3. QED
  BY <1>1, <1>2
-----------------------------------------------------------------------------
(***************************************************************************)
(* Copies.                                                                 *)
(***************************************************************************)
LEMMA CopyFields ==
  /\ Addresses \in Nat \ {0} /\ 1 \in Word /\ 0 \in Word
  /\ \A x \in Int : x % Addresses \in Word
  /\ \A c \in CopyType :
       /\ c.dim \in 0 .. 2 /\ c.src \in Nat /\ c.dst \in Nat /\ c.size \in Nat /\ c.m \in Nat
       /\ c.n \in Nat /\ c.srcLd \in Nat /\ c.dstLd \in Nat /\ c.el \in Nat
       /\ c.src < Addresses /\ c.dst < Addresses
<1>1. Addresses \in Nat \ {0, 1}
  BY WidthAssumption DEF Addresses
<1>2. Word \subseteq Nat /\ \A x \in Word : x < Addresses
  BY <1>1 DEF Word
<1>3. \A x \in Int : x % Addresses \in Word
  BY <1>1, ModRange DEF Word
<1>4. QED
  BY <1>1, <1>2, <1>3 DEF CopyType, Word

(* Strides in bytes modulo the number of addresses lead to the same places. *)
LEMMA Strides ==
  ASSUME NEW A \in Nat \ {0}, NEW a \in Nat, NEW i \in Nat, NEW j \in Nat, NEW l \in Nat, NEW e \in Nat
  PROVE  (a + j * ((l * e) % A) * 1 + i) % A = (a + j * l * e + i) % A
<1>1. l * e \in Nat /\ j * l \in Nat
  BY NatProduct
<1> DEFINE y == l * e
           r == y % A
<1>2. y \in Nat /\ r \in Nat
  BY <1>1, ModRange
<1>3. j * y = j * l * e
  OBVIOUS
<1> HIDE DEF y
<1> DEFINE x == a + i
<1>4. x \in Int /\ y \in Int /\ j \in Int
  BY <1>2
<1> HIDE DEF x
<1>5. (x + j * r) % A = (x + j * y) % A
  BY <1>4, ModOfProduct
<1> HIDE DEF r
<1>6. j * r \in Nat /\ j * y \in Nat
  BY <1>2, NatProduct
<1>7. a + i + j * r = a + j * r * 1 + i /\ a + i + j * y = a + j * l * e + i
  BY <1>3, <1>6
<1>8. QED
  BY <1>5, <1>7 DEF r, x, y

LEMMA InBytesMoves ==
  ASSUME NEW c \in CopyType, c.dim = 2, Fits(c)
  PROVE  /\ InBytes(c) \in CopyType /\ Transfers(InBytes(c)) = Transfers(c) /\ InBytes(c).dim = 2
         /\ Fits(InBytes(c))
<1> DEFINE d == InBytes(c)
           A == Addresses
<1>1. /\ A \in Nat \ {0} /\ c.src \in Nat /\ c.dst \in Nat /\ c.m \in Nat /\ c.n \in Nat
      /\ c.srcLd \in Nat /\ c.dstLd \in Nat /\ c.el \in Nat
  BY CopyFields
<1>2. /\ d.dim = 2 /\ d.link = c.link /\ d.src = c.src /\ d.dst = c.dst /\ d.n = c.n /\ d.el = 1
      /\ d.m = (c.m * c.el) % A /\ d.srcLd = (c.srcLd * c.el) % A /\ d.dstLd = (c.dstLd * c.el) % A
  BY DEF InBytes, CopyType
<1>3. c.m * c.el \in Nat /\ c.srcLd * c.el \in Nat /\ c.dstLd * c.el \in Nat
  BY <1>1, NatProduct
<1>4. d \in CopyType
  <2>1. (c.m * c.el) % A \in Word /\ (c.srcLd * c.el) % A \in Word /\ (c.dstLd * c.el) % A \in Word /\ 1 \in Word
    BY <1>3, CopyFields
  <2>2. QED
    BY <2>1 DEF InBytes, CopyType
<1>5. CASE c.n = 0
  <2>1. 0 .. d.n - 1 = {} /\ 0 .. c.n - 1 = {}
    BY <1>2, <1>5
  <2>2. Transfers(d) = {} /\ Transfers(c) = {}
    BY <1>2, <2>1 DEF Transfers
  <2>3. Fits(d)
    <3>1. d.m \in Nat /\ d.m * d.n * d.el = 0
      BY <1>2, <1>4, <1>5, CopyFields
    <3>2. QED
      BY <1>2, <3>1, CopyFields DEF Fits, Bytes
  <2>4. QED
    BY <1>2, <1>4, <2>2, <2>3
<1>6. CASE c.n # 0
  <2>1. d.m * d.el = c.m * c.el
    <3>1. c.m * c.el <= c.m * c.n * c.el
      <4>1. (c.m * c.el) * 1 <= (c.m * c.el) * c.n
        BY <1>1, <1>3, <1>6, MonotoneProduct
      <4>2. (c.m * c.el) * c.n = c.m * c.n * c.el
        BY <1>1
      <4>3. QED
        BY <1>3, <4>1, <4>2
    <3>2. c.m * c.n * c.el \in Nat
      BY <1>1, NatProduct
    <3>3. c.m * c.el \in 0 .. A - 1
      BY <1>1, <1>3, <3>1, <3>2 DEF Fits, Bytes
    <3>4. QED
      BY <1>1, <1>2, <1>3, <3>3, ModSmall
  <2>2. ASSUME NEW i \in Nat, NEW j \in Nat
        PROVE  /\ (d.src + j * d.srcLd * d.el + i) % A = (c.src + j * c.srcLd * c.el + i) % A
               /\ (d.dst + j * d.dstLd * d.el + i) % A = (c.dst + j * c.dstLd * c.el + i) % A
    BY <1>1, <1>2, Strides
  <2> DEFINE At(e, i, j) == <<e.link, (e.src + j * e.srcLd * e.el + i) % A,
                                      (e.dst + j * e.dstLd * e.el + i) % A>>
  <2>3. \A i \in 0 .. c.m * c.el - 1, j \in 0 .. c.n - 1 : At(d, i, j) = At(c, i, j)
    BY <1>1, <1>2, <1>3, <2>2
  <2>4. Transfers(c) = {At(c, i, j) : i \in 0 .. c.m * c.el - 1, j \in 0 .. c.n - 1}
    BY DEF Transfers
  <2>5. Transfers(d) = {At(d, i, j) : i \in 0 .. c.m * c.el - 1, j \in 0 .. c.n - 1}
    BY <1>2, <2>1 DEF Transfers
  <2> HIDE DEF At
  <2>6. \A x : x \in Transfers(d) <=> x \in Transfers(c)
    BY <2>3, <2>4, <2>5
  <2>7. Fits(d)
    <3>1. d.m = c.m * c.el /\ d.m \in Nat
      <4>1. d.m \in Nat
        BY <1>4, CopyFields
      <4>2. QED
        BY <1>2, <2>1, <4>1
    <3>2. d.m * d.n * d.el = c.m * c.n * c.el
      <4>1. d.m * d.n * d.el = d.m * c.n
        BY <1>1, <1>2, <3>1
      <4>2. (c.m * c.el) * c.n = c.m * c.n * c.el
        BY <1>1
      <4>3. QED
        BY <3>1, <4>1, <4>2
    <3>3. QED
      BY <1>2, <3>2 DEF Fits, Bytes
  <2>8. QED
    BY <1>2, <1>4, <2>6, <2>7
<1>7. QED
  BY <1>5, <1>6

(* A 2D copy without gaps is one range. *)
LEMMA FlattenedMoves ==
  ASSUME NEW c \in CopyType, c.dim = 2, Fits(c), Contiguous(c)
  PROVE  /\ Flattened(c) \in CopyType /\ Transfers(Flattened(c)) = Transfers(c) /\ Flattened(c).dim = 1
         /\ Fits(Flattened(c))
<1> DEFINE d == Flattened(c)
           A == Addresses
           w == c.m * c.el
<1>1. /\ A \in Nat \ {0} /\ c.src \in Nat /\ c.dst \in Nat /\ c.m \in Nat /\ c.n \in Nat /\ c.el \in Nat
  BY CopyFields
<1>2. w \in Nat /\ w * c.n \in Nat /\ w * c.n = c.m * c.n * c.el
  BY <1>1, NatProduct
<1>3. w * c.n \in 0 .. A - 1
  BY <1>1, <1>2 DEF Fits, Bytes
<1>4. /\ d.dim = 1 /\ d.link = c.link /\ d.src = c.src /\ d.dst = c.dst
      /\ d.size = (c.m * c.n * c.el) % A
  BY DEF Flattened, NotACopy
<1>5. d.size = w * c.n
  BY <1>1, <1>2, <1>3, <1>4, ModSmall
<1>6. d \in CopyType
  <2>1. d.size \in Word /\ 0 \in Word
    BY <1>3, <1>5, CopyFields DEF Word
  <2>2. c.link \in {"none", "h2d", "d2d"} /\ c.src \in Word /\ c.dst \in Word
    BY DEF CopyType
  <2>3. NotACopy \in CopyType
    BY <2>1 DEF NotACopy, CopyType
  <2>4. (c.m * c.n * c.el) % A \in Word
    BY <1>4, <2>1
  <2> DEFINE links == {"none", "h2d", "d2d"}
  <2>5. ASSUME NEW e \in CopyType, NEW l \in links, NEW x \in Word, NEW y \in Word, NEW z \in Word
        PROVE  [e EXCEPT !.dim = 1, !.link = l, !.src = x, !.dst = y, !.size = z] \in CopyType
    <3>1. [e EXCEPT !.dim = 1] \in CopyType
      BY DEF CopyType
    <3>2. \A f \in CopyType : [f EXCEPT !.link = l, !.src = x, !.dst = y, !.size = z] \in CopyType
      BY DEF CopyType
    <3>3. QED
      BY <3>1, <3>2
  <2>6. [NotACopy EXCEPT !.dim = 1, !.link = c.link, !.src = c.src, !.dst = c.dst,
                         !.size = (c.m * c.n * c.el) % A] \in CopyType
    BY <2>2, <2>3, <2>4, <2>5
  <2>7. QED
    BY <2>6 DEF Flattened
<1> HIDE DEF d, w
<1> DEFINE At(k) == <<c.link, (c.src + k) % A, (c.dst + k) % A>>
<1>7. Transfers(d) = {At(k) : k \in 0 .. w * c.n - 1}
  BY <1>4, <1>5 DEF Transfers
<1>8. ASSUME NEW i \in Nat, NEW j \in Nat
      PROVE  /\ c.src + j * c.srcLd * c.el + i = c.src + (w * j + i)
             /\ c.dst + j * c.dstLd * c.el + i = c.dst + (w * j + i)
  <2>1. j * c.m * c.el = w * j /\ w * j \in Nat
    BY <1>1, <1>2, NatProduct DEF w
  <2>2. QED
    BY <1>1, <2>1 DEF Contiguous
<1>9. Transfers(c) = {At(w * j + i) : i \in 0 .. w - 1, j \in 0 .. c.n - 1}
  <2>1. Transfers(c) = {<<c.link, (c.src + j * c.srcLd * c.el + i) % A,
                              (c.dst + j * c.dstLd * c.el + i) % A>> :
                       i \in 0 .. w - 1, j \in 0 .. c.n - 1}
    BY DEF Transfers, w
  <2>2. ASSUME NEW i \in 0 .. w - 1, NEW j \in 0 .. c.n - 1
        PROVE  <<c.link, (c.src + j * c.srcLd * c.el + i) % A, (c.dst + j * c.dstLd * c.el + i) % A>>
                 = At(w * j + i)
    <3>1. i \in Nat /\ j \in Nat
      BY <1>1, <1>2
    <3>2. /\ c.src + j * c.srcLd * c.el + i = c.src + (w * j + i)
          /\ c.dst + j * c.dstLd * c.el + i = c.dst + (w * j + i)
      BY <1>8, <3>1
    <3>3. QED
      BY <3>2
  <2>3. QED
    BY <2>1, <2>2
<1>10. /\ \A i \in 0 .. w - 1, j \in 0 .. c.n - 1 : w * j + i \in 0 .. w * c.n - 1
       /\ \A k \in 0 .. w * c.n - 1 : \E i \in 0 .. w - 1, j \in 0 .. c.n - 1 : k = w * j + i
  BY <1>1, <1>2, Columns
<1> HIDE DEF At
<1>11. Transfers(d) = Transfers(c)
  BY <1>7, <1>9, <1>10
<1>12. Fits(d)
  BY <1>2, <1>4, <1>5 DEF Fits, Bytes
<1>13. QED
  BY <1>4, <1>6, <1>11, <1>12 DEF d

(* copy-normalize moves what it moved, and stays within the addresses. *)
LEMMA NormalizedMoves ==
  ASSUME NEW c \in CopyType, Fits(c)
  PROVE  /\ Normalized(c) \in CopyType /\ Fits(Normalized(c))
         /\ Transfers(Normalized(c)) = Transfers(c)
BY InBytesMoves, FlattenedMoves DEF Normalized

(* A 1D copy moves the bytes of a range, all of them equally far. *)
LEMMA MovedRange ==
  ASSUME NEW c \in CopyType, c.dim = 1, Fits(c)
  PROVE  Transfers(c) = {<<c.link, s, s - (c.src - c.dst)>> : s \in c.src .. c.src + c.size - 1}
<1> DEFINE A == Addresses
<1>1. A \in Nat \ {0} /\ c.src \in Nat /\ c.dst \in Nat /\ c.size \in Nat
  BY CopyFields
<1>2. c.src + c.size < A /\ c.dst + c.size < A
  BY DEF Fits, Bytes
<1>3. ASSUME NEW i \in 0 .. c.size - 1
      PROVE  (c.src + i) % A = c.src + i /\ (c.dst + i) % A = c.dst + i
  <2>1. c.src + i \in 0 .. A - 1 /\ c.dst + i \in 0 .. A - 1
    BY <1>1, <1>2
  <2>2. QED
    BY <1>1, <2>1, ModSmall
<1> DEFINE At(s) == <<c.link, s, s - (c.src - c.dst)>>
<1>4. Transfers(c) = {At(c.src + i) : i \in 0 .. c.size - 1}
  <2>1. Transfers(c) = {<<c.link, (c.src + i) % A, (c.dst + i) % A>> : i \in 0 .. c.size - 1}
    BY DEF Transfers
  <2>2. \A i \in 0 .. c.size - 1 : (c.src + i) - (c.src - c.dst) = c.dst + i
    BY <1>1
  <2>3. \A i \in 0 .. c.size - 1 : <<c.link, (c.src + i) % A, (c.dst + i) % A>> = At(c.src + i)
    BY <1>3, <2>2
  <2> HIDE DEF At, A
  <2>4. QED
    BY <2>1, <2>3
<1> HIDE DEF At
<1>5. /\ \A i \in 0 .. c.size - 1 : c.src + i \in c.src .. c.src + c.size - 1
      /\ \A s \in c.src .. c.src + c.size - 1 : s - c.src \in 0 .. c.size - 1 /\ c.src + (s - c.src) = s
  BY <1>1
<1>6. Transfers(c) = {At(s) : s \in c.src .. c.src + c.size - 1}
  BY <1>4, <1>5
<1>7. QED
  BY <1>6 DEF At

(* Ranges that touch and go equally far modulo the number of addresses go  *)
(* equally far: otherwise one of them would wrap around.                   *)
LEMMA SameDistance ==
  ASSUME NEW c \in CopyType, NEW d \in CopyType, c.dim = 1, d.dim = 1, Fits(c), Fits(d),
         SameMapping(c, d), Touch(c, d)
  PROVE  /\ c.src - c.dst = d.src - d.dst /\ c.link = d.link
         /\ SrcEnd(c) = c.src + c.size /\ SrcEnd(d) = d.src + d.size
         /\ c.src <= d.src + d.size /\ d.src <= c.src + c.size
<1> DEFINE A == Addresses
<1>1. /\ A \in Nat \ {0} /\ c.src \in Nat /\ c.dst \in Nat /\ c.size \in Nat
      /\ d.src \in Nat /\ d.dst \in Nat /\ d.size \in Nat
  BY CopyFields
<1>2. c.src + c.size < A /\ c.dst + c.size < A /\ d.src + d.size < A /\ d.dst + d.size < A
  BY DEF Fits, Bytes
<1>3. SrcEnd(c) = c.src + c.size /\ SrcEnd(d) = d.src + d.size
  <2>1. c.src + c.size \in 0 .. A - 1 /\ d.src + d.size \in 0 .. A - 1
    BY <1>1, <1>2
  <2>2. QED
    BY <1>1, <2>1, ModSmall DEF SrcEnd
<1>4. c.src <= d.src + d.size /\ d.src <= c.src + c.size
  BY <1>3 DEF Touch
<1> DEFINE b == c.src - c.dst
           e == d.src - d.dst
<1>5. PICK k \in Int : b = e + A * k
  <2>1. b \in Int /\ e \in Int /\ b % A = e % A
    BY <1>1 DEF SameMapping, Bias
  <2> HIDE DEF b, e
  <2> DEFINE p == b \div A
             q == e \div A
             r == b % A
  <2>2. p \in Int /\ q \in Int /\ r \in Int /\ b = A * p + r /\ e = A * q + r
    BY <1>1, <2>1, ModRange
  <2> HIDE DEF p, q, r
  <2>3. b = e + A * (p - q) /\ p - q \in Int
    BY <1>1, <2>2
  <2>4. QED
    BY <2>3
<1>6. CASE k >= 1
  <2>1. A * k >= A
    <3>1. k \in Nat /\ A * 1 <= A * k
      BY <1>1, <1>6, MonotoneProduct
    <3>2. QED
      BY <1>1, <3>1
  <2>2. QED
    BY <1>1, <1>2, <1>4, <1>5, <2>1
<1>7. CASE k <= -1
  <2>1. A * k <= -A
    <3>1. -k \in Nat /\ A * 1 <= A * (-k)
      BY <1>1, <1>7, MonotoneProduct
    <3>2. A * (-k) = -(A * k)
      BY <1>1
    <3>3. QED
      BY <1>1, <3>1, <3>2
  <2>2. QED
    BY <1>1, <1>2, <1>4, <1>5, <2>1
<1>8. CASE k = 0
  <2>1. A * k = 0
    BY <1>1, <1>8
  <2>2. QED
    BY <1>1, <1>3, <1>4, <1>5, <2>1 DEF SameMapping
<1>9. QED
  BY <1>6, <1>7, <1>8

(* The union of two ranges that touch moves the bytes of both and no other. *)
LEMMA UnionMoves ==
  ASSUME NEW c \in CopyType, NEW d \in CopyType, c.dim = 1, d.dim = 1, Fits(c), Fits(d),
         SameMapping(c, d), Touch(c, d)
  PROVE  /\ Union(c, d) \in CopyType /\ Union(c, d).dim = 1 /\ Fits(Union(c, d))
         /\ Transfers(Union(c, d)) = Transfers(c) \union Transfers(d)
<1> DEFINE A == Addresses
           b == c.src - c.dst
           bgn == IF c.src < d.src THEN c.src ELSE d.src
           end == IF c.src + c.size > d.src + d.size THEN c.src + c.size ELSE d.src + d.size
           u == Union(c, d)
<1>1. /\ A \in Nat \ {0} /\ c.src \in Nat /\ c.dst \in Nat /\ c.size \in Nat
      /\ d.src \in Nat /\ d.dst \in Nat /\ d.size \in Nat
  BY CopyFields
<1>2. c.src + c.size < A /\ c.dst + c.size < A /\ d.src + d.size < A /\ d.dst + d.size < A
  BY DEF Fits, Bytes
<1>3. /\ b = d.src - d.dst /\ c.link = d.link
      /\ SrcEnd(c) = c.src + c.size /\ SrcEnd(d) = d.src + d.size
      /\ c.src <= d.src + d.size /\ d.src <= c.src + c.size
  BY SameDistance
<1>4. /\ bgn \in 0 .. A - 1 /\ end - bgn \in 0 .. A - 1 /\ bgn - b \in 0 .. A - 1
      /\ bgn <= end /\ end < A /\ end - b < A /\ b \in Int /\ end \in Nat
  BY <1>1, <1>2, <1>3
<1>5. (bgn - Bias(c)) % A = bgn - b
  <2>0. b \in Int /\ bgn - b \in 0 .. A - 1 /\ bgn \in Int /\ Bias(c) = b % A
    BY <1>4 DEF Bias
  <2> HIDE DEF b, bgn
  <2> DEFINE r == b % A
             q == b \div A
             x == bgn - b
  <2>1. r \in Int /\ q \in Int /\ b = A * q + r
    BY <1>1, <2>0, ModRange
  <2>2. x \in 0 .. A - 1
    BY <2>0
  <2> HIDE DEF r, q
  <2>3. bgn - r = x + A * q
    BY <1>1, <2>0, <2>1
  <2> HIDE DEF x
  <2>4. (x + A * q) % A = x
    <3>1. x \in Int
      BY <1>1, <2>2
    <3>2. (x + A * q) % A = x % A
      BY <1>1, <2>1, <3>1, ModOfSum
    <3>3. QED
      BY <1>1, <2>2, <3>2, ModSmall
  <2>5. Bias(c) = r
    BY <2>0 DEF r
  <2>6. QED
    BY <2>3, <2>4, <2>5 DEF x
<1>6. (end - bgn) % A = end - bgn
  <2> DEFINE x == end - bgn
  <2>1. x \in 0 .. A - 1
    BY <1>4
  <2> HIDE DEF x
  <2>2. x % A = x
    BY <1>1, <2>1, ModSmall
  <2>3. QED
    BY <2>2 DEF x
<1>7. u = [c EXCEPT !.src = bgn, !.dst = bgn - b, !.size = end - bgn]
  BY <1>3, <1>5, <1>6 DEF Union
<1> HIDE DEF u, bgn, end, b
<1>8. u \in CopyType /\ u.dim = 1 /\ u.link = c.link /\ u.src = bgn /\ u.dst = bgn - b /\ u.size = end - bgn
  <2> DEFINE from == bgn - b
             size == end - bgn
  <2>1. bgn \in Word /\ from \in Word /\ size \in Word
    BY <1>4 DEF Word
  <2>2. u = [c EXCEPT !.src = bgn, !.dst = from, !.size = size]
    BY <1>7
  <2> HIDE DEF from, size
  <2>3. u \in CopyType /\ u.dim = 1 /\ u.link = c.link /\ u.src = bgn /\ u.dst = from /\ u.size = size
    BY <2>1, <2>2 DEF CopyType
  <2>4. QED
    BY <2>3 DEF from, size
<1>9. u.src + u.size = end /\ u.src - u.dst = b /\ Fits(u)
  BY <1>1, <1>4, <1>8 DEF Fits, Bytes
<1> DEFINE At(s) == <<c.link, s, s - b>>
<1>10. Transfers(c) = {At(s) : s \in c.src .. c.src + c.size - 1}
  BY MovedRange DEF b
<1>11. Transfers(d) = {At(s) : s \in d.src .. d.src + d.size - 1}
  BY <1>3, MovedRange
<1>12. Transfers(u) = {At(s) : s \in bgn .. end - 1}
  <2>1. Transfers(u) = {<<u.link, s, s - (u.src - u.dst)>> : s \in u.src .. u.src + u.size - 1}
    BY <1>8, <1>9, MovedRange
  <2>2. u.src .. u.src + u.size - 1 = bgn .. end - 1
    BY <1>1, <1>4, <1>8, <1>9
  <2>3. \A s : <<u.link, s, s - (u.src - u.dst)>> = At(s)
    BY <1>8, <1>9
  <2> HIDE DEF At
  <2>4. QED
    BY <2>1, <2>2, <2>3
<1> HIDE DEF At
<1>13. bgn .. end - 1 = (c.src .. c.src + c.size - 1) \union (d.src .. d.src + d.size - 1)
  BY <1>1, <1>3, <1>4 DEF bgn, end
<1>14. Transfers(u) = Transfers(c) \union Transfers(d)
  BY <1>10, <1>11, <1>12, <1>13
<1>15. QED
  BY <1>8, <1>9, <1>14 DEF u

-----------------------------------------------------------------------------
(***************************************************************************)
(* A fold over a finite set: the recursive function that folds exists, on  *)
(* all the subsets.  step[<<x, r>>] is the result r with x taken in, and   *)
(* pick[s] the element of s that is taken in last.                         *)
(***************************************************************************)
FoldingBy(D, V, pick, base, step, f) ==
  /\ f \in [D -> V]
  /\ \A s \in D : IF s = {} THEN f[s] = base
                  ELSE s \ {pick[s]} \in D /\ f[s] = step[<<pick[s], f[s \ {pick[s]}]>>]

LEMMA FoldByExists ==
  ASSUME NEW S, IsFiniteSet(S), NEW V, NEW base \in V, NEW step \in [S \X V -> V],
         NEW pick, \A s \in SUBSET S : s # {} => pick[s] \in s
  PROVE  \E f : FoldingBy(SUBSET S, V, pick, base, step, f)
<1> DEFINE P == SUBSET S
           Can(D) == \E f : FoldingBy(D, V, pick, base, step, f)
           T == {A \in SUBSET P : Can(P \ A)}
<1>0. SUFFICES Can(P)
  OBVIOUS
<1> HIDE DEF Can
<1>1. IsFiniteSet(P) /\ T \subseteq SUBSET P
  BY FS_SUBSET
<1>2. P \in T
  <2> DEFINE f == [s \in {} |-> base]
  <2>1. FoldingBy({}, V, pick, base, step, f)
    BY DEF FoldingBy
  <2>2. P \ P = {}
    OBVIOUS
  <2> HIDE DEF f
  <2>3. Can({})
    BY <2>1 DEF Can
  <2>4. QED
    BY <2>2, <2>3
<1>3. PICK A \in T : \A B \in T : B \subseteq A => B = A
  <2> HIDE DEF T, P
  <2>1. QED
    BY <1>1, <1>2, SmallestSet
<1>4. SUFFICES ASSUME A # {} PROVE FALSE
  <2>1. P \ {} = P
    OBVIOUS
  <2>2. QED
    BY <1>0, <1>3, <1>4, <2>1
<1>5. PICK x \in A : \A y \in A : y \subseteq x => y = x
  <2>1. A \subseteq SUBSET S
    BY <1>3
  <2>2. QED
    BY <1>4, <2>1, SmallestSet
<1>6. PICK f : FoldingBy(P \ A, V, pick, base, step, f)
  BY <1>3 DEF Can
<1> DEFINE D == P \ (A \ {x})
           y == x \ {pick[x]}
           value == IF x = {} THEN base ELSE step[<<pick[x], f[y]>>]
           h == [s \in D |-> IF s = x THEN value ELSE f[s]]
<1>7. D = (P \ A) \union {x} /\ x \in P /\ x \notin P \ A
  BY <1>3, <1>5
<1>8. x # {} => pick[x] \in x /\ y \in P \ A
  <2>1. x # {} => pick[x] \in x
    BY <1>5, <1>7
  <2>2. QED
    BY <1>5, <1>7, <2>1
<1>9. value \in V
  <2>1. x # {} => pick[x] \in S /\ f[y] \in V
    BY <1>6, <1>7, <1>8 DEF FoldingBy
  <2> HIDE DEF y
  <2>2. x # {} => <<pick[x], f[y]>> \in S \X V
    BY <2>1
  <2>3. QED
    BY <2>2
<1> HIDE DEF value
<1>10. h \in [D -> V]
  BY <1>6, <1>7, <1>9 DEF FoldingBy
<1>11. ASSUME NEW s \in D
       PROVE  IF s = {} THEN h[s] = base
              ELSE s \ {pick[s]} \in D /\ h[s] = step[<<pick[s], h[s \ {pick[s]}]>>]
  <2>1. CASE s = x
    BY <1>7, <1>8, <2>1 DEF value
  <2>2. CASE s # x
    <3>1. s \in P \ A /\ h[s] = f[s]
      BY <1>7, <2>2
    <3>2. s # {} => s \ {pick[s]} \in P \ A /\ f[s] = step[<<pick[s], f[s \ {pick[s]}]>>]
      BY <1>6, <3>1 DEF FoldingBy
    <3>3. s # {} => h[s \ {pick[s]}] = f[s \ {pick[s]}]
      BY <1>7, <3>2
    <3>4. s = {} => f[s] = base
      BY <1>6, <3>1 DEF FoldingBy
    <3>5. QED
      BY <1>7, <3>1, <3>2, <3>3, <3>4
  <2>3. QED
    BY <2>1, <2>2
<1>12. FoldingBy(D, V, pick, base, step, h)
  <2> HIDE DEF h, D
  <2>1. QED
    BY <1>10, <1>11 DEF FoldingBy
<1>13. A \ {x} \in T
  <2>1. Can(D)
    BY <1>12 DEF Can
  <2>2. QED
    BY <1>3, <2>1
<1>14. A \ {x} \subseteq A /\ A \ {x} # A
  BY <1>5
<1> HIDE DEF T, D, P
<1>15. QED
  BY <1>3, <1>13, <1>14

(* The elements may be taken in in any order. *)
Any(s) == CHOOSE x \in s : TRUE

Folding(D, V, base, step, f) ==
  /\ f \in [D -> V]
  /\ \A s \in D : IF s = {} THEN f[s] = base
                  ELSE s \ {Any(s)} \in D /\ f[s] = step[<<Any(s), f[s \ {Any(s)}]>>]

LEMMA FoldExists ==
  ASSUME NEW S, IsFiniteSet(S), NEW V, NEW base \in V, NEW step \in [S \X V -> V]
  PROVE  \E f : Folding(SUBSET S, V, base, step, f)
<1> DEFINE pick == [s \in SUBSET S |-> Any(s)]
<1>1. \A s \in SUBSET S : pick[s] = Any(s) /\ (s # {} => pick[s] \in s)
  BY DEF Any
<1> HIDE DEF pick
<1>2. PICK f : FoldingBy(SUBSET S, V, pick, base, step, f)
  BY <1>1, FoldByExists
<1>3. Folding(SUBSET S, V, base, step, f)
  BY <1>1, <1>2 DEF Folding, FoldingBy
<1>4. QED
  BY <1>3

(* The sum of naturals, taken in one by one. *)
Summing(f, S, sum) ==
  /\ SumFunction(f) = sum[S]
  /\ \A s \in SUBSET S :
       sum[s] = IF s = {} THEN 0 ELSE f[Any(s)] + sum[s \ {Any(s)}]

LEMMA SumByOne ==
  ASSUME NEW S, IsFiniteSet(S), NEW f \in [S -> Nat]
  PROVE  \E sum : Summing(f, S, sum)
<1> DEFINE F(iter) == iter = [s \in SUBSET S |->
                         IF s = {} THEN 0
                         ELSE LET x == CHOOSE x \in s : TRUE IN f[x] + iter[s \ {x}]]
           sum == CHOOSE iter : F(iter)
           step == [p \in S \X Nat |-> f[p[1]] + p[2]]
<1>1. \E iter : F(iter)
  <2>1. step \in [S \X Nat -> Nat] /\ 0 \in Nat
    OBVIOUS
  <2>2. PICK h : Folding(SUBSET S, Nat, 0, step, h)
    <3> HIDE DEF step
    <3>1. QED
      BY <2>1, FoldExists
  <2>3. ASSUME NEW s \in SUBSET S
        PROVE  h[s] = IF s = {} THEN 0 ELSE LET x == CHOOSE x \in s : TRUE IN f[x] + h[s \ {x}]
    <3>1. CASE s = {}
      BY <2>2, <3>1 DEF Folding
    <3>2. CASE s # {}
      <4>1. Any(s) \in S /\ s \ {Any(s)} \in SUBSET S
        BY <3>2 DEF Any
      <4>2. h[s \ {Any(s)}] \in Nat
        BY <2>2, <4>1 DEF Folding
      <4>3. h[s] = step[<<Any(s), h[s \ {Any(s)}]>>]
        BY <2>2, <3>2 DEF Folding
      <4>4. h[s] = f[Any(s)] + h[s \ {Any(s)}]
        BY <4>1, <4>2, <4>3
      <4>5. QED
        BY <3>2, <4>4 DEF Any
    <3>3. QED
      BY <3>1, <3>2
  <2>4. DOMAIN h = SUBSET S /\ h = [s \in DOMAIN h |-> h[s]]
    BY <2>2 DEF Folding
  <2>5. F(h)
    BY <2>3, <2>4
  <2>6. QED
    BY <2>5
<1>2. F(sum)
  BY <1>1
<1>3. SumFunction(f) = sum[S]
  <2>1. DOMAIN f = S
    OBVIOUS
  <2>2. QED
    BY <2>1 DEF SumFunction, SumFunctionOnSet, FoldFunctionOnSet, MapThenFoldSet
<1> HIDE DEF sum
<1>4. ASSUME NEW s \in SUBSET S
      PROVE  sum[s] = IF s = {} THEN 0 ELSE f[Any(s)] + sum[s \ {Any(s)}]
  BY <1>2 DEF Any
<1>5. Summing(f, S, sum)
  BY <1>3, <1>4 DEF Summing
<1>6. QED
  BY <1>5

(* What a sum of naturals tells of them. *)
IsSum(f, S, n) ==
  /\ n \in Nat
  /\ n = 0 <=> \A x \in S : f[x] = 0
  /\ \A x \in S : f[x] <= n
  /\ \A x, y \in S : x # y => f[x] + f[y] <= n
  /\ \A x \in S : S = {x} => n = f[x]

LEMMA SumOf ==
  ASSUME NEW S, IsFiniteSet(S), NEW f \in [S -> Nat]
  PROVE  IsSum(f, S, SumFunction(f))
<1>2. PICK sum : Summing(f, S, sum)
  BY SumByOne
<1>3. SumFunction(f) = sum[S]
  BY <1>2 DEF Summing
<1>4. ASSUME NEW s \in SUBSET S
      PROVE  sum[s] = IF s = {} THEN 0 ELSE f[Any(s)] + sum[s \ {Any(s)}]
  BY <1>2 DEF Summing
<1> DEFINE T == {s \in SUBSET S : ~IsSum(f, s, sum[s])}
<1>5. SUFFICES ASSUME T # {} PROVE FALSE
  BY <1>3
<1>6. PICK s \in T : \A t \in T : t \subseteq s => t = s
  <2> HIDE DEF T
  <2>0. T \subseteq SUBSET S
    BY DEF T
  <2>1. QED
    BY <1>5, <2>0, SmallestSet
<1>7. CASE s = {}
  <2>1. sum[s] = 0
    BY <1>4, <1>7
  <2>2. IsSum(f, s, 0)
    BY <1>7 DEF IsSum
  <2>3. QED
    BY <1>6, <2>1, <2>2
<1>8. CASE s # {}
  <2> DEFINE a == Any(s)
             t == s \ {a}
             n == sum[t]
  <2>1. a \in s /\ t \in SUBSET S /\ t \subseteq s /\ t # s
    BY <1>6, <1>8 DEF Any
  <2>2. IsSum(f, t, n)
    BY <1>6, <2>1
  <2>3. sum[s] = f[a] + n
    BY <1>4, <1>6, <1>8
  <2>4. s = t \union {a} /\ a \notin t /\ f[a] \in Nat /\ \A x \in t : f[x] \in Nat
    BY <1>6, <2>1
  <2> HIDE DEF a, t, n
  <2>5. n \in Nat /\ (n = 0 <=> \A x \in t : f[x] = 0) /\ \A x \in t : f[x] <= n
    BY <2>2 DEF IsSum
  <2>6. ASSUME NEW x \in s, NEW y \in s, x # y PROVE f[x] + f[y] <= f[a] + n
    <3>1. CASE x = a
      BY <2>4, <2>5, <2>6, <3>1
    <3>2. CASE y = a
      BY <2>4, <2>5, <2>6, <3>2
    <3>3. CASE x # a /\ y # a
      <4>1. f[x] + f[y] <= n /\ f[x] \in Nat /\ f[y] \in Nat
        BY <2>2, <2>4, <2>6, <3>3 DEF IsSum
      <4>2. QED
        BY <2>4, <2>5, <4>1
    <3>4. QED
      BY <3>1, <3>2, <3>3
  <2>7. ASSUME NEW x \in s, s = {x} PROVE f[a] + n = f[x]
    <3>1. t = {} /\ a = x
      BY <2>4, <2>7
    <3>2. n = 0
      BY <2>5, <3>1
    <3>3. QED
      BY <2>4, <3>1, <3>2
  <2>8. f[a] + n \in Nat /\ (f[a] + n = 0 <=> f[a] = 0 /\ n = 0)
    BY <2>4, <2>5
  <2>9. \A x \in s : f[x] <= f[a] + n
    <3>1. ASSUME NEW x \in t PROVE f[x] <= f[a] + n
      <4>1. f[x] <= n /\ f[x] \in Nat
        BY <2>4, <2>5
      <4>2. QED
        BY <2>4, <2>5, <4>1
    <3>2. f[a] <= f[a] + n
      BY <2>4, <2>5
    <3>3. QED
      BY <2>4, <3>1, <3>2
  <2>10. f[a] + n = 0 <=> \A x \in s : f[x] = 0
    BY <2>4, <2>5, <2>8
  <2>11. IsSum(f, s, f[a] + n)
    BY <2>6, <2>7, <2>8, <2>9, <2>10 DEF IsSum
  <2>12. QED
    BY <1>6, <2>3, <2>11
<1>9. QED
  BY <1>7, <1>8

(* A list in which no node is twice is as long as the set of its nodes. *)
LEMMA SumOfOnes ==
  ASSUME NEW S, IsFiniteSet(S), NEW f \in [S -> Nat], \A x \in S : f[x] <= 1
  PROVE  SumFunction(f) = Cardinality({x \in S : f[x] > 0})
<1> DEFINE Of(s) == {x \in s : f[x] > 0}
<1>1. PICK sum : Summing(f, S, sum)
  BY SumByOne
<1> DEFINE T == {s \in SUBSET S : sum[s] # Cardinality(Of(s))}
<1>2. SUFFICES ASSUME T # {} PROVE FALSE
  BY <1>1 DEF Summing
<1>3. PICK s \in T : \A t \in T : t \subseteq s => t = s
  <2>1. T \subseteq SUBSET S
    OBVIOUS
  <2> HIDE DEF T
  <2>2. QED
    BY <1>2, <2>1, SmallestSet
<1>4. CASE s = {}
  <2>1. sum[s] = 0 /\ Of(s) = {}
    BY <1>1, <1>4 DEF Summing
  <2>2. QED
    BY <1>3, <2>1, FS_EmptySet
<1>5. CASE s # {}
  <2> DEFINE a == Any(s)
             t == s \ {a}
  <2>1. a \in s /\ a \in S /\ t \in SUBSET S /\ t \subseteq s /\ t # s
    BY <1>3, <1>5 DEF Any
  <2>2. sum[t] = Cardinality(Of(t))
    BY <1>3, <2>1
  <2>3. sum[s] = f[a] + sum[t]
    BY <1>1, <1>3, <1>5 DEF Summing
  <2>4. f[a] \in Nat /\ f[a] <= 1
    BY <2>1
  <2>5. IsFiniteSet(Of(t))
    BY <2>1, FS_Subset
  <2>6. Of(s) = IF f[a] > 0 THEN Of(t) \union {a} ELSE Of(t)
    BY <2>1
  <2>7. a \notin Of(t)
    OBVIOUS
  <2> HIDE DEF a, t, Of
  <2>8. Cardinality(Of(t)) \in Nat
    BY <2>5, FS_CardinalityType
  <2>9. Cardinality(Of(s)) = f[a] + Cardinality(Of(t))
    <3>1. Cardinality(Of(t) \union {a}) = Cardinality(Of(t)) + 1
      BY <2>5, <2>7, FS_AddElement
    <3>2. QED
      BY <2>4, <2>6, <2>8, <3>1
  <2>10. QED
    BY <1>3, <2>2, <2>3, <2>9
<1>6. QED
  BY <1>4, <1>5
-----------------------------------------------------------------------------
(***************************************************************************)
(* The number of edges, which the passes reduce-node and reduce-edge are   *)
(* there to lower.                                                         *)
(***************************************************************************)
EdgeSet(g) == {e \in g.members \X g.members : g.successors[e[1]][e[2]] > 0}

LEMMA EdgeSetFinite ==
  ASSUME NEW g \in Graphs
  PROVE  /\ IsFiniteSet(EdgeSet(g))
         /\ EdgeCount(g) = Cardinality(EdgeSet(g))
         /\ EdgeCount(g) \in Nat
         /\ \A p, s : <<p, s>> \in EdgeSet(g) <=>
                        p \in g.members /\ s \in g.members /\ s \in Succs(g, p)
<1>1. IsFiniteSet(g.members)
  BY NodeAssumption, FS_Subset DEF Graphs
<1>2. IsFiniteSet(g.members \X g.members)
  BY <1>1, FS_Product
<1>3. IsFiniteSet(EdgeSet(g))
  BY <1>2, FS_Subset DEF EdgeSet
<1>4. EdgeCount(g) = Cardinality(EdgeSet(g))
  BY DEF EdgeCount, EdgeSet
<1>5. Cardinality(EdgeSet(g)) \in Nat
  BY <1>3, FS_CardinalityType
<1>6. \A p, s : <<p, s>> \in EdgeSet(g) <=>
                  p \in g.members /\ s \in g.members /\ s \in Succs(g, p)
  BY DEF EdgeSet, Succs, Graphs
<1>7. QED
  BY <1>3, <1>4, <1>5, <1>6

(* size() of the lists of a member. *)
LEMMA ListLengths ==
  ASSUME NEW g \in Graphs, EdgesMirrored(g), SimpleEdges(g), NEW u \in g.members
  PROVE  /\ Length(g.successors[u]) = Cardinality(Succs(g, u))
         /\ Length(g.predecessors[u]) = Cardinality(Preds(g, u))
<1>1. u \in Node /\ g.successors[u] \in [Node -> Nat] /\ g.predecessors[u] \in [Node -> Nat]
  BY DEF Graphs, Lists
<1>2. \A v \in Node : g.successors[u][v] <= 1
  BY DEF SimpleEdges
<1>3. \A p \in Node : g.predecessors[u][p] <= 1
  BY <1>1, <1>2 DEF SimpleEdges, EdgesMirrored, Graphs
<1>4. ASSUME NEW list \in [Node -> Nat], \A x \in Node : list[x] <= 1
      PROVE  Length(list) = Cardinality({x \in Node : list[x] > 0})
  BY <1>4, NodeAssumption, SumOfOnes DEF Length
<1>5. QED
  BY <1>1, <1>2, <1>3, <1>4 DEF Succs, Preds

(* Removing u costs an edge per neighbour and adds one at most per pair of *)
(* a predecessor and a successor.                                          *)
LEMMA RemoveCounts ==
  ASSUME NEW g \in Graphs, EdgesMirrored(g), SimpleEdges(g), Acyclic(g),
         NEW u \in g.members,
         Length(g.predecessors[u]) * Length(g.successors[u])
           < 1 + Length(g.predecessors[u]) + Length(g.successors[u])
  PROVE  EdgeCount(Remove(g, u)) <= EdgeCount(g)
<1> DEFINE P == Preds(g, u)
           S == Succs(g, u)
           E == EdgeSet(g)
           H == EdgeSet(Remove(g, u))
           In == P \X {u}
           Out == {u} \X S
<1>1. P \subseteq g.members /\ S \subseteq g.members /\ u \notin P /\ u \notin S
  BY SuccsAreMembers, SuccsArePreds, NoWayBack
<1>2. Remove(g, u) \in Graphs /\ Remove(g, u).members = g.members \ {u}
  BY RemoveType, RemoveKeepsType
<1>3. H \subseteq (E \ (In \union Out)) \union (P \X S)
  <2> SUFFICES ASSUME NEW e \in H
               PROVE  e \in (E \ (In \union Out)) \union (P \X S)
    OBVIOUS
  <2>1. PICK p \in g.members \ {u}, s \in g.members \ {u} :
          e = <<p, s>> /\ s \in Succs(Remove(g, u), p)
    <3>1. PICK p \in g.members \ {u}, s \in g.members \ {u} : e = <<p, s>>
      BY <1>2 DEF EdgeSet
    <3>2. s \in Succs(Remove(g, u), p)
      BY <1>2, <3>1, EdgeSetFinite
    <3>3. QED
      BY <3>1, <3>2
  <2>2. CASE s \in Succs(g, p)
    <3>1. e \in E
      BY <2>1, <2>2, EdgeSetFinite
    <3>2. QED
      BY <2>1, <3>1
  <2>3. CASE s \notin Succs(g, p)
    <3>1. u \in Succs(g, p) /\ s \in S
      BY <2>1, <2>3, RemoveEdges
    <3>2. p \in P
      BY <2>1, <3>1, SuccsArePreds
    <3>3. QED
      BY <2>1, <3>1, <3>2
  <2>4. QED
    BY <2>2, <2>3
<1>4. In \subseteq E /\ Out \subseteq E /\ In \intersect Out = {}
  <2>1. \A p \in P : u \in Succs(g, p)
    BY <1>1, SuccsArePreds
  <2>2. In \subseteq E
    BY <1>1, <2>1, EdgeSetFinite
  <2>3. Out \subseteq E
    BY <1>1, EdgeSetFinite
  <2>4. QED
    BY <1>1, <2>2, <2>3
<1>5. /\ Length(g.predecessors[u]) = Cardinality(P)
      /\ Length(g.successors[u]) = Cardinality(S)
  BY ListLengths
<1>6. IsFiniteSet(P) /\ IsFiniteSet(S)
  BY NodeAssumption, FS_Subset DEF Preds, Succs
<1> DEFINE m == Cardinality(P)
           n == Cardinality(S)
<1>7. m \in Nat /\ n \in Nat
  BY <1>6, FS_CardinalityType
<1>8. IsFiniteSet(In) /\ Cardinality(In) = m
  <2> DEFINE U == {u}
  <2>1. IsFiniteSet(U) /\ Cardinality(U) = 1 /\ In = P \X U
    BY FS_Singleton
  <2> HIDE DEF U, In, P
  <2>2. IsFiniteSet(In) /\ Cardinality(In) = Cardinality(P) * 1
    BY <1>6, <2>1, FS_Product
  <2>3. QED
    BY <1>7, <2>2
<1>9. IsFiniteSet(Out) /\ Cardinality(Out) = n
  <2> DEFINE U == {u}
  <2>1. IsFiniteSet(U) /\ Cardinality(U) = 1 /\ Out = U \X S
    BY FS_Singleton
  <2> HIDE DEF U, Out, S
  <2>2. IsFiniteSet(Out) /\ Cardinality(Out) = 1 * Cardinality(S)
    BY <1>6, <2>1, FS_Product
  <2>3. QED
    BY <1>7, <2>2
<1>10. IsFiniteSet(P \X S) /\ Cardinality(P \X S) = m * n
  BY <1>6, FS_Product
<1>11. IsFiniteSet(E) /\ EdgeCount(g) = Cardinality(E) /\ Cardinality(E) \in Nat
  BY EdgeSetFinite, FS_CardinalityType
<1>12. EdgeCount(Remove(g, u)) = Cardinality(H)
  BY <1>2, EdgeSetFinite
<1>13. m * n < 1 + m + n
  BY <1>5
<1> HIDE DEF P, S, E, H, In, Out, m, n
<1>14. IsFiniteSet(In \union Out) /\ Cardinality(In \union Out) = m + n
  <2>1. Cardinality(In \union Out) = m + n - 0
    BY <1>4, <1>8, <1>9, FS_Union, FS_EmptySet
  <2>2. IsFiniteSet(In \union Out)
    BY <1>8, <1>9, FS_Union
  <2>3. m + n - 0 = m + n
    BY <1>7
  <2>4. QED
    BY <2>1, <2>2, <2>3
<1> DEFINE K == E \ (In \union Out)
<1>15. IsFiniteSet(K) /\ Cardinality(K) = Cardinality(E) - (m + n) /\ Cardinality(K) \in Nat
  <2>1. E \intersect (In \union Out) = In \union Out
    BY <1>4
  <2>2. /\ IsFiniteSet(K)
        /\ Cardinality(K) = Cardinality(E) - Cardinality(E \intersect (In \union Out))
    BY <1>11, FS_Difference
  <2>3. Cardinality(K) = Cardinality(E) - (m + n)
    BY <1>14, <2>1, <2>2
  <2> HIDE DEF K
  <2>4. QED
    BY <2>2, <2>3, FS_CardinalityType
<1> HIDE DEF K
<1> DEFINE PS == P \X S
<1>16. PS = P \X S
  OBVIOUS
<1> HIDE DEF PS
<1>17. IsFiniteSet(K \union PS) /\ Cardinality(K \union PS) <= Cardinality(K) + m * n
  <2>1. IsFiniteSet(K \intersect PS) /\ Cardinality(K \intersect PS) \in Nat
    BY <1>15, FS_Intersection, FS_CardinalityType
  <2>2. /\ IsFiniteSet(K \union PS)
        /\ Cardinality(K \union PS) = Cardinality(K) + Cardinality(PS) - Cardinality(K \intersect PS)
    BY <1>10, <1>15, <1>16, FS_Union
  <2>3. Cardinality(PS) = m * n /\ m * n \in Nat
    BY <1>7, <1>10, <1>16, NatProduct
  <2>4. QED
    BY <1>15, <2>1, <2>2, <2>3
<1>18. Cardinality(H) <= Cardinality(K \union PS) /\ Cardinality(H) \in Nat
       /\ Cardinality(K \union PS) \in Nat
  <2>1. H \subseteq K \union PS
    BY <1>3, <1>16 DEF K
  <2>2. QED
    BY <1>17, <2>1, FS_Subset, FS_CardinalityType
<1>19. m * n \in Nat
  BY <1>7, NatProduct
<1>20. QED
  BY <1>7, <1>11, <1>12, <1>13, <1>15, <1>17, <1>18, <1>19

(* Erasing an edge adds none. *)
LEMMA EraseCounts ==
  ASSUME NEW g \in Graphs, EdgesMirrored(g), SimpleEdges(g),
         NEW u \in g.members, NEW v \in Succs(g, u)
  PROVE  EdgeCount(Erase(g, u, v)) <= EdgeCount(g)
<1> DEFINE h == Erase(g, u, v)
<1>1. h \in Graphs /\ h.members = g.members
      /\ \A x \in Node : Succs(h, x) \subseteq Succs(g, x)
  BY EraseLists
<1> HIDE DEF h
<1>2. EdgeSet(h) \subseteq EdgeSet(g)
  BY <1>1, EdgeSetFinite DEF EdgeSet, Graphs, Succs
<1>3. Cardinality(EdgeSet(h)) <= Cardinality(EdgeSet(g))
  BY <1>2, EdgeSetFinite, FS_Subset
<1>4. EdgeCount(h) <= EdgeCount(g)
  BY <1>1, <1>3, EdgeSetFinite
<1>5. QED
  BY <1>4 DEF h
=============================================================================
