--------------------------- MODULE Session_proofs ---------------------------
(***************************************************************************)
(* What outlives a call of optimize(): the walk id of a graph and the      *)
(* marks of its walks, and what the calls of all threads share.            *)
(***************************************************************************)
EXTENDS Walks, Dispatcher, FiniteSetTheorems, TLAPS

-----------------------------------------------------------------------------
(***************************************************************************)
(* Walks.  Marks are never reset, and yet every walk of the top graph sees *)
(* all of it until its walk id wraps around: for any number of nodes,      *)
(* sub-graphs and walks, and any width of the walk id.                     *)
(***************************************************************************)
Ids == 2 ^ Bits

LEMMA NextId == ASSUME NEW i \in Id PROVE /\ (i + 1) % Ids \in Id
                                          /\ i + 1 < Ids => (i + 1) % Ids = i + 1
<1> DEFINE M == Ids
<1>1. M \in Nat \ {0} /\ i \in 0 .. M - 1 /\ Id = 0 .. M - 1
  BY WalksAssumption DEF Id, Ids
<1> HIDE DEF M
<1>2. (i + 1) % M \in 0 .. M - 1
  BY <1>1
<1>3. i + 1 < M => (i + 1) % M = i + 1
  BY <1>1
<1>4. QED
  BY <1>1, <1>2, <1>3 DEF M

LEMMA IdTypes == /\ Ids \in Nat \ {0}
                 /\ Id = 0 .. Ids - 1
                 /\ 0 \in Id
  BY WalksAssumption DEF Id, Ids

-----------------------------------------------------------------------------
(* What is unused has no edges; the edges to follow leave nodes that were seen. *)
Unrecorded == \A n \in Node \ nodes : next[n] = {}

Following ==
  /\ running = no_graph => pending = {}
  /\ \A n, s \in Node : <<n, s>> \in pending => n \in seen /\ s \in next[n]

Typed == WalksTypeOK /\ Unrecorded /\ Following

LEMMA InitTyped == WalksInit => Typed
  BY WalksAssumption, IdTypes DEF WalksInit, Typed, WalksTypeOK, Unrecorded, Following

LEMMA StepTyped == ASSUME Typed, [WalksNext]_walksVars PROVE Typed'
<1> USE WalksAssumption, IdTypes DEF Typed, WalksTypeOK, Unrecorded, Following
<1>1. ASSUME NEW p \in Node, NEW n \in Node, Record(p, n) PROVE Typed'
  BY <1>1 DEF Record, Reach, ReachFrom
<1>2. ASSUME NEW p \in Node, NEW s \in Node, Link(p, s) PROVE Typed'
  BY <1>2, SMTT(30) DEF Link, Reach, ReachFrom
<1>3. ASSUME NEW G \in Graph, StartWalk(G) PROVE Typed'
  <2>1. walk_id[G] \in Id /\ root[G] \in nodes /\ walks[G] \in 0 .. MaxWalks
    BY <1>3 DEF StartWalk
  <2>2. walk_id' = [walk_id EXCEPT ![G] = (walk_id[G] + 1) % Ids] /\ (walk_id[G] + 1) % Ids \in Id
    BY <1>3, <2>1, NextId DEF StartWalk, Ids
  <2>3. walk_id'[G] \in Id /\ walk_id' \in [DOMAIN root -> Id]
    BY <1>3, <2>2 DEF StartWalk
  <2>4. walks' \in [DOMAIN root -> 0 .. MaxWalks]
    BY <1>3, <2>1 DEF StartWalk
  <2>5. mark' \in [Node -> Id]
    BY <1>3, <2>1, <2>3 DEF StartWalk
  <2>6. /\ pending' \subseteq Node \X Node
        /\ \A n, s \in Node : <<n, s>> \in pending' => n \in seen' /\ s \in next'[n]
    BY <1>3, <2>1 DEF StartWalk, OutOf
  <2>7. QED
    BY <1>3, <2>1, <2>3, <2>4, <2>5, <2>6 DEF StartWalk
<1>4. ASSUME NEW n \in Node, NEW s \in Node, Follow(n, s) PROVE Typed'
  <2>1. running # no_graph /\ walk_id[running] \in Id /\ n \in seen /\ s \in next[n]
    BY <1>4 DEF Follow
  <2>2. /\ pending' \subseteq Node \X Node
        /\ \A m, t \in Node : <<m, t>> \in pending' => m \in seen' /\ t \in next'[m]
    BY <1>4, SMTT(30) DEF Follow, OutOf
  <2>3. mark' \in [Node -> Id]
    BY <1>4, <2>1 DEF Follow
  <2>4. seen' \subseteq nodes'
    BY <1>4, <2>1 DEF Follow
  <2>5. /\ next' = next /\ nodes' = nodes /\ root' = root /\ walk_id' = walk_id
        /\ walks' = walks /\ running' = running /\ listed' = listed
    BY <1>4 DEF Follow
  <2>6. QED
    BY <2>1, <2>2, <2>3, <2>4, <2>5
<1>5. CASE End
  BY <1>5 DEF End
<1>6. ASSUME NEW u \in Node, NEW v \in Node, NEW B \in Node, NEW G \in Graph, Split(u, v, B, G)
      PROVE  Typed'
  BY <1>6, SMTT(30) DEF Split, Before
<1>7. CASE UNCHANGED walksVars
  BY <1>7 DEF walksVars
<1>8. QED
  BY <1>1, <1>2, <1>3, <1>4, <1>5, <1>6, <1>7 DEF WalksNext

(***************************************************************************)
(* command_graph_t: walk ids and the marks they leave on the nodes have    *)
(* the type the code gives them, and what a walk has seen, what it has to  *)
(* look at and what a pass has listed are nodes.                           *)
(***************************************************************************)
THEOREM WalksTypeCorrect == WalksSpec => []WalksTypeOK
<1>1. Typed => WalksTypeOK
  BY DEF Typed
<1>2. QED
  BY <1>1, InitTyped, StepTyped, PTL DEF WalksSpec

-----------------------------------------------------------------------------
(* No edge leads back: along every edge, a rank grows. *)
Ranks(r) == /\ r \in [Node -> Nat]
            /\ \A n, s \in Node : s \in next[n] => r[n] < r[s]

Ranked == \E r : Ranks(r)

(* The nodes of a sub-graph; those of the top graph are all others. *)
ChainOf(G) == {root[G]} \union next[root[G]]

Own == {n \in nodes : \A G \in DOMAIN root \ {top} : n \notin ChainOf(G)}

(* No edge leads from the one to the other. *)
Apart ==
  /\ root[top] = entry
  /\ entry \in Own
  /\ \A n \in Own : next[n] \subseteq Own
  /\ \A G \in DOMAIN root \ {top} : \A n \in ChainOf(G) : next[n] \subseteq ChainOf(G)
  /\ listed \subseteq Own

LEMMA ReachSteps == ASSUME NEW m, NEW n \in ReachFrom(m), NEW s \in next[n], s \in nodes
                    PROVE  s \in ReachFrom(m)
  BY DEF ReachFrom

LEMMA ReachStarts == ASSUME NEW m \in nodes PROVE m \in ReachFrom(m)
  BY DEF ReachFrom

LEMMA ReachWithin == ASSUME NEW m, NEW S, S \subseteq nodes, m \in S,
                            \A x \in S : next[x] \subseteq S
                     PROVE  ReachFrom(m) \subseteq S
  BY DEF ReachFrom

LEMMA ReachOwn == ASSUME Typed, Apart PROVE Reach(top) \subseteq Own
<1>1. Own \subseteq nodes /\ entry \in Own /\ (\A x \in Own : next[x] \subseteq Own)
  BY DEF Own, Apart
<1>2. QED
  BY <1>1, ReachWithin DEF Reach, Apart

LEMMA ReachChain == ASSUME Typed, Apart, NEW G \in DOMAIN root \ {top}
                    PROVE  Reach(G) \subseteq ChainOf(G)
<1>1. ChainOf(G) \subseteq nodes /\ root[G] \in ChainOf(G)
  BY DEF ChainOf, Typed, WalksTypeOK
<1>2. QED
  BY <1>1, ReachWithin DEF Reach, Apart

LEMMA InitRanked == WalksInit => Ranked
<1> SUFFICES ASSUME WalksInit PROVE Ranked
  OBVIOUS
<1> DEFINE r == [n \in Node |-> IF n = exit THEN 1 ELSE 0]
<1>1. Ranks(r)
  BY WalksAssumption DEF WalksInit, Ranks
<1>2. QED
  BY <1>1 DEF Ranked

LEMMA InitApart == WalksInit => Apart
  BY WalksAssumption DEF WalksInit, Apart, Own, ChainOf

LEMMA RecordRanked == ASSUME Typed, Ranked, NEW p \in Node, NEW n \in Node, Record(p, n)
                      PROVE  Ranked'
<1>1. PICK r : Ranks(r)
  BY DEF Ranked
<1> DEFINE q == [r EXCEPT ![n] = r[p] + 1]
<1>2. p \in nodes /\ n \notin nodes /\ p # n /\ next' = [next EXCEPT ![p] = next[p] \union {n}]
  BY DEF Record, Reach, ReachFrom
<1>3. q \in [Node -> Nat] /\ q[n] = r[p] + 1 /\ \A x \in Node \ {n} : q[x] = r[x]
  BY <1>1 DEF Ranks
<1>4. ASSUME NEW x \in Node, NEW s \in Node, s \in next'[x] PROVE q[x] < q[s]
  <2>1. x # n /\ (s = n => x = p) /\ (s # n => s \in next[x])
    BY <1>2, <1>4 DEF Typed, WalksTypeOK, Unrecorded
  <2>2. QED
    BY <1>1, <1>3, <2>1 DEF Ranks
<1> HIDE DEF q
<1>5. QED
  BY <1>3, <1>4 DEF Ranked, Ranks

(* The nodes behind the new edge are lifted above the others. *)
LEMMA LinkRanked == ASSUME Typed, Ranked, NEW p \in Node, NEW s \in Node, Link(p, s)
                    PROVE  Ranked'
<1>1. PICK r : Ranks(r)
  BY DEF Ranked
<1> DEFINE R == ReachFrom(s)
           q == [x \in Node |-> IF x \in R THEN r[x] + r[p] + 1 ELSE r[x]]
<1>2. p \notin R /\ s \in R /\ next' = [next EXCEPT ![p] = next[p] \union {s}]
  BY ReachStarts DEF Link, Reach, ReachFrom
<1>3. \A x, y \in Node : x \in R /\ y \in next[x] => y \in R
  BY ReachSteps DEF Typed, WalksTypeOK
<1> HIDE DEF R
<1>4. ASSUME NEW x \in Node, NEW y \in Node, y \in next'[x] PROVE q[x] < q[y]
  <2>1. (x = p /\ y = s) \/ y \in next[x]
    BY <1>2, <1>4 DEF Typed, WalksTypeOK
  <2>2. r[x] \in Nat /\ r[y] \in Nat /\ r[p] \in Nat
    BY <1>1 DEF Ranks
  <2>3. CASE x = p /\ y = s
    BY <1>2, <2>2, <2>3
  <2>4. CASE y \in next[x]
    <3>1. r[x] < r[y] /\ (x \in R => y \in R)
      BY <1>1, <1>3, <2>4 DEF Ranks
    <3>2. QED
      BY <2>2, <3>1
  <2>5. QED
    BY <2>1, <2>3, <2>4
<1>5. q \in [Node -> Nat]
  BY <1>1 DEF Ranks
<1> HIDE DEF q
<1>6. QED
  BY <1>4, <1>5 DEF Ranked, Ranks

-----------------------------------------------------------------------------
(***************************************************************************)
(* The edges after a split: u leads to v only and v nowhere; who led to u  *)
(* leads to B, which leads where v led.                                    *)
(***************************************************************************)
LEMMA SplitEdges ==
  ASSUME Typed, Ranked, Apart, NEW u \in Node, NEW v \in Node, NEW B \in Node, NEW G \in Graph,
         Split(u, v, B, G)
  PROVE  /\ u \in Own \ {entry} /\ v \in Own \ {entry} /\ u # v /\ B \notin nodes
         /\ next'[u] = {v} /\ next'[v] = {}
         /\ next'[B] = next[v] /\ u \notin next[v] /\ v \notin next[v]
         /\ \A x \in Node \ {u, v, B} : /\ v \notin next[x]
                                        /\ u \in next[x] => next'[x] = (next[x] \ {u}) \union {B}
                                        /\ u \notin next[x] => next'[x] = next[x]
<1>1. PICK r : Ranks(r)
  BY DEF Ranked
<1>2. /\ u \in Own \ {entry} /\ v \in Own \ {entry} /\ B \notin nodes
      /\ next[u] = {v} /\ Before(v) = {u}
      /\ u \in nodes /\ v \in nodes
  BY DEF Split, Apart, Typed, WalksTypeOK
<1>3. \A x \in Node : x \notin next[x] /\ ~(\E y \in next[x] : x \in next[y])
  <2> SUFFICES ASSUME NEW x \in Node PROVE x \notin next[x] /\ \A y \in next[x] : x \notin next[y]
    OBVIOUS
  <2>1. x \notin next[x]
    BY <1>1 DEF Ranks
  <2>2. ASSUME NEW y \in next[x], x \in next[y] PROVE FALSE
    <3>1. y \in Node
      BY DEF Typed, WalksTypeOK
    <3>2. r[x] < r[y] /\ r[y] < r[x] /\ r[x] \in Nat /\ r[y] \in Nat
      BY <1>1, <2>2, <3>1 DEF Ranks
    <3>3. QED
      BY <3>2
  <2>3. QED
    BY <2>1, <2>2
<1>4. u # v /\ u \notin next[u] /\ u \notin next[v] /\ v \notin next[v]
  BY <1>2, <1>3
<1>5. next[B] = {} /\ B # u /\ B # v
  BY <1>2 DEF Typed, Unrecorded
<1>6. next' = [p \in Node |-> CASE u \in next[p] -> (next[p] \ {u}) \union {B}
                                [] p = B         -> next[v]
                                [] p = v         -> {}
                                [] OTHER         -> next[p]]
  BY DEF Split
<1>7. next'[u] = {v} /\ next'[v] = {} /\ next'[B] = next[v]
  BY <1>2, <1>4, <1>5, <1>6
<1>8. ASSUME NEW x \in Node \ {u, v, B}
      PROVE  /\ v \notin next[x]
             /\ u \in next[x] => next'[x] = (next[x] \ {u}) \union {B}
             /\ u \notin next[x] => next'[x] = next[x]
  <2>1. v \in next[x] => x \in nodes
    BY DEF Typed, Unrecorded
  <2>2. v \notin next[x]
    BY <1>2, <2>1 DEF Before
  <2>3. QED
    BY <1>6, <2>2
<1>9. QED
  BY <1>2, <1>4, <1>7, <1>8

LEMMA SplitRanked ==
  ASSUME Typed, Ranked, Apart, NEW u \in Node, NEW v \in Node, NEW B \in Node, NEW G \in Graph,
         Split(u, v, B, G)
  PROVE  Ranked'
<1>1. PICK r : Ranks(r)
  BY DEF Ranked
<1> DEFINE q == [r EXCEPT ![B] = r[u]]
<1>2. /\ next[u] = {v} /\ B \notin nodes /\ u \in nodes /\ v \in nodes
  BY DEF Split, Typed, WalksTypeOK
<1>3. q \in [Node -> Nat] /\ q[B] = r[u] /\ \A x \in Node \ {B} : q[x] = r[x]
  BY <1>1 DEF Ranks
<1>4. \A x \in Node : next[x] \subseteq Node \ {B}
  BY <1>2 DEF Typed, WalksTypeOK
<1>5. r[u] < r[v] /\ r[u] \in Nat /\ r[v] \in Nat
  BY <1>1, <1>2 DEF Ranks
<1>6. ASSUME NEW x \in Node, NEW s \in Node, s \in next'[x] PROVE q[x] < q[s]
  <2>1. CASE x = u
    BY <1>2, <1>3, <1>5, <1>6, <2>1, SplitEdges
  <2>2. CASE x = B
    <3>1. s \in next[v] /\ s # B
      BY <1>4, <1>6, <2>2, SplitEdges
    <3>2. r[v] < r[s] /\ r[s] \in Nat
      BY <1>1, <3>1 DEF Ranks
    <3>3. QED
      BY <1>3, <1>5, <2>2, <3>1, <3>2
  <2>3. CASE x \notin {u, v, B}
    <3>1. (s = B /\ u \in next[x]) \/ (s # B /\ s \in next[x])
      BY <1>4, <1>6, <2>3, SplitEdges
    <3>2. QED
      BY <1>1, <1>3, <2>3, <3>1 DEF Ranks
  <2>4. QED
    BY <1>6, <2>1, <2>2, <2>3, SplitEdges
<1> HIDE DEF q
<1>7. QED
  BY <1>3, <1>6 DEF Ranked, Ranks

(* The nodes of the new sub-graph are u and v; the top graph keeps the others. *)
LEMMA SplitOwn ==
  ASSUME Typed, Ranked, Apart, NEW u \in Node, NEW v \in Node, NEW B \in Node, NEW G \in Graph,
         Split(u, v, B, G)
  PROVE  /\ Own' = (Own \ {u, v}) \union {B}
         /\ ChainOf(G)' = {u, v}
         /\ \A H \in DOMAIN root \ {top} : ChainOf(H)' = ChainOf(H)
<1>1. /\ nodes' = nodes \union {B} /\ G \notin DOMAIN root /\ top \in DOMAIN root
      /\ DOMAIN root' = DOMAIN root \union {G}
      /\ root'[G] = u /\ \A H \in DOMAIN root : root'[H] = root[H]
  BY DEF Split, Typed, WalksTypeOK
<1>2. ChainOf(G)' = {u, v}
  BY <1>1, SplitEdges DEF ChainOf
<1>3. ASSUME NEW H \in DOMAIN root \ {top} PROVE ChainOf(H)' = ChainOf(H)
  <2>1. root[H] \in nodes /\ root[H] \notin {u, v, B} /\ u \notin next[root[H]]
    BY SplitEdges DEF Own, ChainOf, Typed, WalksTypeOK
  <2>2. next'[root[H]] = next[root[H]]
    BY <2>1, SplitEdges DEF Typed, WalksTypeOK
  <2>3. QED
    BY <1>1, <2>2 DEF ChainOf
<1>4. \A H \in DOMAIN root \ {top} : B \notin ChainOf(H)
  BY SplitEdges DEF ChainOf, Typed, WalksTypeOK
<1>5. Own' = {n \in nodes \union {B} : n \notin {u, v} /\ \A H \in DOMAIN root \ {top} : n \notin ChainOf(H)}
  BY <1>1, <1>2, <1>3 DEF Own
<1>6. QED
  BY <1>2, <1>3, <1>4, <1>5, SplitEdges DEF Own

LEMMA SplitApart ==
  ASSUME Typed, Ranked, Apart, NEW u \in Node, NEW v \in Node, NEW B \in Node, NEW G \in Graph,
         Split(u, v, B, G)
  PROVE  Apart'
<1>1. /\ root'[top] = entry /\ listed' = {} /\ DOMAIN root' = DOMAIN root \union {G}
      /\ entry \in Own /\ Own \subseteq nodes /\ nodes \subseteq Node
  BY DEF Split, Apart, Own, Typed, WalksTypeOK
<1>2. ASSUME NEW n \in Own' PROVE next'[n] \subseteq Own'
  <2>1. CASE n = B
    <3>1. next[v] \subseteq Own
      BY SplitEdges DEF Apart
    <3>2. QED
      BY <2>1, <3>1, SplitOwn, SplitEdges
  <2>2. CASE n # B
    <3>1. n \in Own /\ n \notin {u, v, B} /\ n \in Node /\ next[n] \subseteq Own
      BY <1>1, <2>2, SplitOwn DEF Apart
    <3>2. QED
      BY <3>1, SplitOwn, SplitEdges
  <2>3. QED
    BY <2>1, <2>2
<1>3. ASSUME NEW H \in DOMAIN root' \ {top}, NEW n \in ChainOf(H)' PROVE next'[n] \subseteq ChainOf(H)'
  <2>1. CASE H = G
    BY <1>3, <2>1, SplitOwn, SplitEdges
  <2>2. CASE H # G
    <3>1. H \in DOMAIN root \ {top} /\ ChainOf(H)' = ChainOf(H) /\ n \in ChainOf(H)
      BY <1>1, <1>3, <2>2, SplitOwn
    <3>2. next[n] \subseteq ChainOf(H) /\ ChainOf(H) \subseteq nodes
      BY <3>1 DEF Apart, ChainOf, Typed, WalksTypeOK
    <3>3. u \notin ChainOf(H) /\ v \notin ChainOf(H) /\ B \notin ChainOf(H)
      BY <3>1, <3>2, SplitEdges DEF Own
    <3>4. next'[n] = next[n]
      BY <1>1, <3>1, <3>2, <3>3, SplitEdges
    <3>5. QED
      BY <3>1, <3>2, <3>4
  <2>3. QED
    BY <2>1, <2>2
<1>4. entry \in Own'
  BY <1>1, SplitOwn, SplitEdges
<1>5. QED
  BY <1>1, <1>2, <1>3, <1>4 DEF Apart

-----------------------------------------------------------------------------
(* What has been passed to the callback was reached from the root. *)
Passed == running # no_graph => root[running] \in seen /\ seen \subseteq Reach(running)

Shape == Typed /\ Ranked /\ Apart /\ Passed

LEMMA InitShape == WalksInit => Shape
  BY InitTyped, InitRanked, InitApart DEF WalksInit, Shape, Passed

LEMMA GrowApart == ASSUME Typed, Apart, NEW p \in Own, NEW s, s \in nodes' /\ (s \in Own \/ s \notin nodes),
                          next' = [next EXCEPT ![p] = next[p] \union {s}],
                          nodes' \in {nodes, nodes \union {s}},
                          s \in Node, root' = root, listed' = {}
                   PROVE  Apart'
<1>1. p \in nodes /\ p \in Node /\ next'[p] = next[p] \union {s} /\ \A x \in Node \ {p} : next'[x] = next[x]
  BY DEF Own, Typed, WalksTypeOK
<1>2. ASSUME NEW G \in DOMAIN root \ {top} PROVE ChainOf(G)' = ChainOf(G) /\ p \notin ChainOf(G) /\ s \notin ChainOf(G)
  <2>1. ChainOf(G) \subseteq nodes /\ root[G] \in Node
    BY DEF ChainOf, Typed, WalksTypeOK
  <2>2. p \notin ChainOf(G) /\ s \notin ChainOf(G)
    BY <2>1 DEF Own
  <2>3. QED
    BY <1>1, <2>1, <2>2 DEF ChainOf
<1>3. Own' = Own \union {s}
  BY <1>2 DEF Own
<1>4. ASSUME NEW n \in Own' PROVE next'[n] \subseteq Own'
  <2>1. CASE n \in Own
    BY <1>1, <1>3, <2>1 DEF Apart, Own, Typed, WalksTypeOK
  <2>2. CASE n = s /\ s \notin nodes
    BY <1>1, <2>2 DEF Typed, Unrecorded
  <2>3. QED
    BY <1>3, <2>1, <2>2
<1>5. ASSUME NEW G \in DOMAIN root \ {top}, NEW n \in ChainOf(G) PROVE next'[n] \subseteq ChainOf(G)
  <2>1. n \in Node /\ n # p
    BY <1>2 DEF ChainOf, Typed, WalksTypeOK
  <2>2. QED
    BY <1>1, <2>1 DEF Apart
<1>6. QED
  BY <1>2, <1>3, <1>4, <1>5 DEF Apart

LEMMA StepShape == ASSUME Shape, [WalksNext]_walksVars PROVE Shape'
<1> USE DEF Shape
<1>0. Typed'
  BY StepTyped
<1>1. ASSUME NEW p \in Node, NEW n \in Node, Record(p, n) PROVE Shape'
  <2>1. p \in Own /\ n \notin nodes
    BY <1>1, ReachOwn DEF Record
  <2>2. Apart'
    BY <1>1, <2>1, GrowApart DEF Record
  <2>3. QED
    BY <1>0, <1>1, <2>2, RecordRanked DEF Record, Passed
<1>2. ASSUME NEW p \in Node, NEW s \in Node, Link(p, s) PROVE Shape'
  <2>1. p \in Own /\ s \in Own /\ s \in nodes
    BY <1>2, ReachOwn DEF Link, Own
  <2>2. Apart'
    BY <1>2, <2>1, GrowApart DEF Link
  <2>3. QED
    BY <1>0, <1>2, <2>2, LinkRanked DEF Link, Passed
<1>3. ASSUME NEW G \in Graph, StartWalk(G) PROVE Shape'
  <2>1. root[G] \in Reach(G)
    BY <1>3, ReachStarts DEF StartWalk, Reach, Typed, WalksTypeOK
  <2>2. next' = next /\ nodes' = nodes /\ root' = root /\ listed' = listed /\ running' = G /\ seen' = {root[G]}
    BY <1>3 DEF StartWalk
  <2>3. QED
    BY <1>0, <2>1, <2>2 DEF Passed, Reach, ReachFrom, Ranked, Ranks, Apart, Own, ChainOf
<1>4. ASSUME NEW n \in Node, NEW s \in Node, Follow(n, s) PROVE Shape'
  <2>1. next' = next /\ nodes' = nodes /\ root' = root /\ listed' = listed /\ running' = running
    BY <1>4 DEF Follow
  <2>2. running # no_graph /\ n \in seen /\ s \in next[n] /\ s \in nodes
    BY <1>4 DEF Follow, Typed, WalksTypeOK, Following
  <2>3. s \in Reach(running)
    BY <2>2, ReachSteps DEF Passed, Reach
  <2>4. seen \subseteq seen' /\ seen' \subseteq seen \union {s}
    BY <1>4 DEF Follow
  <2>5. Passed'
    BY <2>1, <2>2, <2>3, <2>4 DEF Passed, Reach, ReachFrom
  <2>6. QED
    BY <1>0, <2>1, <2>5 DEF Ranked, Ranks, Apart, Own, ChainOf
<1>5. CASE End
  <2>1. next' = next /\ nodes' = nodes /\ root' = root /\ running' = no_graph
    BY <1>5 DEF End
  <2>2. listed' \subseteq Own
    BY <1>5, ReachOwn DEF End, Passed, Apart
  <2>3. QED
    BY <1>0, <2>1, <2>2 DEF Passed, Ranked, Ranks, Apart, Own, ChainOf
<1>6. ASSUME NEW u \in Node, NEW v \in Node, NEW B \in Node, NEW G \in Graph, Split(u, v, B, G)
      PROVE  Shape'
  <2>1. running' = no_graph
    BY <1>6 DEF Split
  <2>2. Ranked' /\ Apart'
    BY <1>6, SplitRanked, SplitApart
  <2>3. QED
    BY <1>0, <2>1, <2>2 DEF Passed
<1>7. CASE UNCHANGED walksVars
  BY <1>0, <1>7 DEF walksVars, Passed, Reach, ReachFrom, Ranked, Ranks, Apart, Own, ChainOf
<1>8. QED
  BY <1>1, <1>2, <1>3, <1>4, <1>5, <1>6, <1>7 DEF WalksNext

-----------------------------------------------------------------------------
(***************************************************************************)
(* No node of the top graph has a mark of the walks to come, and during a  *)
(* walk of it, only what was seen has the mark of the walk.  Walks of      *)
(* sub-graphs mark nodes of other graphs.                                  *)
(***************************************************************************)
Marked ==
  walks[top] < Ids =>
    /\ walk_id[top] = walks[top]
    /\ \A n \in Own : mark[n] <= walk_id[top]
    /\ running = top =>
         /\ \A n \in Own : mark[n] = walk_id[top] => n \in seen
         /\ \A n, s \in Node : n \in seen /\ s \in next[n] => s \in seen \/ <<n, s>> \in pending

LEMMA InitMarked == WalksInit => Marked
  BY WalksAssumption, IdTypes DEF WalksInit, Marked, Own

LEMMA StepMarked == ASSUME Shape, Marked, [WalksNext]_walksVars PROVE Marked'
<1> USE WalksAssumption, IdTypes
<1> HIDE DEF Ids
<1>0. /\ Typed /\ Apart /\ Ranked /\ Passed /\ Own \subseteq nodes /\ nodes \subseteq Node /\ Ids' = Ids
      /\ walk_id[top] \in Id /\ walks[top] \in Nat /\ top \in DOMAIN root
      /\ mark \in [Node -> Id] /\ \A n \in Node : mark[n] \in Int
  BY DEF Shape, Own, Typed, WalksTypeOK, Ids
<1>1. ASSUME NEW p \in Node, NEW n \in Node, Record(p, n) PROVE Marked'
  <2>1. p \in Own /\ n \notin nodes /\ running' # top
    BY <1>0, <1>1, ReachOwn DEF Record
  <2>2. Own' \subseteq Own \union {n}
    <3>1. \A G \in DOMAIN root \ {top} : root[G] # p
      BY <2>1 DEF Own, ChainOf
    <3>2. \A G \in DOMAIN root \ {top} : ChainOf(G)' = ChainOf(G)
      BY <1>0, <1>1, <3>1 DEF Record, ChainOf, Typed, WalksTypeOK
    <3>3. QED
      BY <1>1, <3>2 DEF Record, Own
  <2>3. mark' = [mark EXCEPT ![n] = 0] /\ walk_id' = walk_id /\ walks' = walks
    BY <1>1 DEF Record
  <2>4. \A x \in Own' : mark'[x] = 0 \/ (x \in Own /\ mark'[x] = mark[x])
    BY <1>0, <2>2, <2>3
  <2>5. QED
    BY <1>0, <2>1, <2>3, <2>4 DEF Marked
<1>2. ASSUME NEW p \in Node, NEW s \in Node, Link(p, s) PROVE Marked'
  <2>1. p \in Own /\ running' # top
    BY <1>0, <1>2, ReachOwn DEF Link
  <2>2. Own' = Own
    <3>1. \A G \in DOMAIN root \ {top} : root[G] # p
      BY <2>1 DEF Own, ChainOf
    <3>2. \A G \in DOMAIN root \ {top} : ChainOf(G)' = ChainOf(G)
      BY <1>0, <1>2, <3>1 DEF Link, ChainOf, Typed, WalksTypeOK
    <3>3. QED
      BY <1>2, <3>2 DEF Link, Own
  <2>3. QED
    BY <1>2, <2>1, <2>2 DEF Link, Marked
<1>3. ASSUME NEW G \in Graph, StartWalk(G) PROVE Marked'
  <2>1. /\ next' = next /\ nodes' = nodes /\ root' = root /\ running' = G /\ running = no_graph
        /\ seen' = {root[G]} /\ pending' = OutOf(root[G]) /\ G \in DOMAIN root /\ root[G] \in Node
        /\ walk_id' = [walk_id EXCEPT ![G] = (walk_id[G] + 1) % Ids]
        /\ walks' = [walks EXCEPT ![G] = walks[G] + 1]
        /\ mark' = [mark EXCEPT ![root[G]] = walk_id'[G]]
    BY <1>0, <1>3 DEF StartWalk, Ids, Typed, WalksTypeOK
  <2>2. Own' = Own
    BY <2>1 DEF Own, ChainOf
  <2>3. CASE G # top
    <3>1. root[G] \notin Own /\ walk_id'[top] = walk_id[top] /\ walks'[top] = walks[top]
      BY <1>0, <2>1, <2>3 DEF Own, ChainOf, Typed, WalksTypeOK
    <3>2. \A n \in Own : mark'[n] = mark[n]
      BY <1>0, <2>1, <3>1
    <3>3. QED
      BY <2>1, <2>2, <2>3, <3>1, <3>2 DEF Marked
  <2>4. CASE G = top
    <3>1. walks'[top] = walks[top] + 1 /\ walk_id'[top] = (walk_id[top] + 1) % Ids
      BY <1>0, <2>1, <2>4 DEF Typed, WalksTypeOK
    <3> SUFFICES ASSUME walks'[top] < Ids PROVE Marked'
      BY <1>0 DEF Marked
    <3>2. walks[top] < Ids /\ walk_id[top] = walks[top]
      BY <1>0, <3>1 DEF Marked
    <3>3. walk_id'[top] = walk_id[top] + 1
      BY <1>0, <3>1, <3>2, NextId
    <3>4. \A n \in Own : IF n = root[top] THEN mark'[n] = walk_id'[top] ELSE mark'[n] < walk_id'[top]
      BY <1>0, <2>1, <2>4, <3>2, <3>3 DEF Marked
    <3>5. \A n, s \in Node : n \in seen' /\ s \in next'[n] => <<n, s>> \in pending'
      BY <2>1 DEF OutOf
    <3>6. walk_id'[top] \in Int
      BY <1>0, <3>3
    <3>7. QED
      BY <1>0, <2>1, <2>2, <2>4, <3>1, <3>2, <3>3, <3>4, <3>5, <3>6, SMTT(30) DEF Marked
  <2>5. QED
    BY <2>3, <2>4
<1>4. ASSUME NEW n \in Node, NEW s \in Node, Follow(n, s) PROVE Marked'
  <2>1. /\ next' = next /\ nodes' = nodes /\ root' = root /\ running' = running
        /\ walk_id' = walk_id /\ walks' = walks
    BY <1>4 DEF Follow
  <2>2. Own' = Own
    BY <2>1 DEF Own, ChainOf
  <2>3. running # no_graph /\ running \in DOMAIN root /\ n \in seen /\ s \in next[n] /\ s \in Node
    BY <1>0, <1>4 DEF Follow, Typed, WalksTypeOK, Following
  <2>4. CASE running # top
    <3>1. s \in ChainOf(running)
      <4>1. n \in ChainOf(running)
        BY <1>0, <2>3, <2>4, ReachChain DEF Passed
      <4>2. QED
        BY <1>0, <2>3, <2>4, <4>1 DEF Apart
    <3>2. s \notin Own
      BY <2>3, <2>4, <3>1 DEF Own
    <3>3. \A m \in Own : mark'[m] = mark[m]
      BY <1>0, <1>4, <3>2 DEF Follow
    <3>4. QED
      BY <2>1, <2>2, <2>4, <3>3 DEF Marked
  <2>5. CASE running = top
    <3> SUFFICES ASSUME walks[top] < Ids PROVE Marked'
      BY <1>0, <2>1 DEF Marked
    <3>1. /\ walk_id[top] = walks[top]
          /\ \A m \in Own : mark[m] <= walk_id[top]
          /\ \A m \in Own : mark[m] = walk_id[top] => m \in seen
          /\ \A m, t \in Node : m \in seen /\ t \in next[m] => t \in seen \/ <<m, t>> \in pending
      BY <2>5 DEF Marked
    <3>2. n \in Own /\ s \in Own
      <4>1. n \in Own
        BY <1>0, <2>3, <2>5, ReachOwn DEF Passed
      <4>2. QED
        BY <1>0, <2>3, <4>1 DEF Apart
    <3>3. CASE mark[s] = walk_id[top]
      <4>1. pending' = pending \ {<<n, s>>} /\ mark' = mark /\ seen' = seen
        BY <1>4, <2>5, <3>3 DEF Follow
      <4>2. s \in seen
        BY <3>1, <3>2, <3>3
      <4>3. \A m, t \in Node : m \in seen' /\ t \in next'[m] => t \in seen' \/ <<m, t>> \in pending'
        BY <2>1, <3>1, <4>1, <4>2
      <4>4. QED
        BY <2>1, <2>2, <3>1, <4>1, <4>3 DEF Marked
    <3>4. CASE mark[s] # walk_id[top]
      <4>1. /\ pending' = (pending \ {<<n, s>>}) \union OutOf(s)
            /\ mark' = [mark EXCEPT ![s] = walk_id[top]] /\ seen' = seen \union {s}
        BY <1>4, <2>5, <3>4 DEF Follow
      <4>2. \A m, t \in Node : m \in seen' /\ t \in next'[m] => t \in seen' \/ <<m, t>> \in pending'
        BY <2>1, <3>1, <4>1 DEF OutOf
      <4>3. \A m \in Own : mark'[m] <= walk_id[top] /\ (mark'[m] = walk_id[top] => m \in seen')
        BY <1>0, <3>1, <4>1
      <4>4. QED
        BY <2>1, <2>2, <3>1, <4>2, <4>3 DEF Marked
    <3>5. QED
      BY <3>3, <3>4
  <2>6. QED
    BY <2>4, <2>5
<1>5. CASE End
  BY <1>0, <1>5 DEF End, Marked, Own, ChainOf
<1>6. ASSUME NEW u \in Node, NEW v \in Node, NEW B \in Node, NEW G \in Graph, Split(u, v, B, G)
      PROVE  Marked'
  <2>1. Own' = (Own \ {u, v}) \union {B} /\ B \notin nodes
    BY <1>0, <1>6, SplitOwn, SplitEdges
  <2>2. /\ running' = no_graph /\ no_graph # top /\ mark' = [mark EXCEPT ![B] = 0]
        /\ walk_id'[top] = walk_id[top] /\ walks'[top] = walks[top]
    BY <1>0, <1>6 DEF Split
  <2>3. \A x \in Own' : mark'[x] = 0 \/ (x \in Own /\ mark'[x] = mark[x])
    BY <1>0, <2>1, <2>2
  <2>4. QED
    BY <1>0, <2>2, <2>3 DEF Marked
<1>7. CASE UNCHANGED walksVars
  BY <1>0, <1>7 DEF walksVars, Marked, Own, ChainOf
<1>8. QED
  BY <1>1, <1>2, <1>3, <1>4, <1>5, <1>6, <1>7 DEF WalksNext

(* When no edge is left to follow, what was seen is closed. *)
LEMMA MarkedSeesAll == Shape /\ Marked => TopWalksSeeAll
<1> SUFFICES ASSUME Shape, Marked, Over(top), walks[top] < 2 ^ Bits PROVE seen = Reach(top)
  BY DEF TopWalksSeeAll
<1>1. running = top /\ running # no_graph /\ pending = {} /\ seen \subseteq nodes /\ nodes \subseteq Node
  BY WalksAssumption DEF Over, Shape, Typed, WalksTypeOK
<1>2. root[top] \in seen /\ seen \subseteq Reach(top)
  BY <1>1 DEF Shape, Passed
<1>3. \A x \in seen : next[x] \subseteq seen
  BY <1>1 DEF Marked, Ids, Shape, Typed, WalksTypeOK
<1>4. Reach(top) \subseteq seen
  BY <1>1, <1>2, <1>3, ReachWithin DEF Reach
<1>5. QED
  BY <1>2, <1>4

(***************************************************************************)
(* command_graph_t::walk: however many nodes are recorded or split off     *)
(* between the walks, and however many sub-graphs are walked, a walk of    *)
(* the top graph visits all of its nodes and no others, until the id wraps *)
(* around.                                                                 *)
(***************************************************************************)
THEOREM WalksSeeAll == WalksSpec => []TopWalksSeeAll
<1> DEFINE IInv == Shape /\ Marked
<1>1. WalksInit => IInv
  BY InitShape, InitMarked
<1>2. IInv /\ [WalksNext]_walksVars => IInv'
  BY StepShape, StepMarked
<1>3. IInv => TopWalksSeeAll
  BY MarkedSeesAll
<1> HIDE DEF IInv
<1>4. QED
  BY <1>1, <1>2, <1>3, PTL DEF WalksSpec

-----------------------------------------------------------------------------
(***************************************************************************)
(* The dispatcher.  For any number of threads, passes and processes, the   *)
(* CSV file has one header, no call writes over the dumps of another, and  *)
(* the rows and the dumps tell of the passes in the order they ran in.     *)
(***************************************************************************)
(* The locals of the calls have their types. *)
CallsOK ==
  /\ call \in [Thread -> Calls]
  /\ \A t \in Thread : call[t].number = 0 \/ call[t].number < seq
  /\ \A t \in Thread : call[t].dumped # {} => base = "made"

LEMMA StepCallsOK == ASSUME TypeOK, NEW t \in Thread, Step(t) PROVE CallsOK'
<1> USE DEF statics, files
<1>1. call[t] \in Calls /\ call \in [Thread -> Calls]
  BY DEF TypeOK
<1>2. \A u \in Thread : /\ call[u].number = 0 \/ call[u].number < seq
                        /\ call[u].dumped # {} => base = "made"
  BY DEF TypeOK
<1>3. seq \in Nat /\ settings.dump \in BOOLEAN /\ path \in BOOLEAN /\ inited \in BOOLEAN /\ version[t] \in Nat
  BY DEF TypeOK
<1>4. Idle \in Calls
  BY DEF Idle, Calls
<1>5. CASE Enter(t)
  <2>1. PICK p \in Pass : call' = [call EXCEPT ![t] = [Idle EXCEPT !.pass = p, !.dump = settings.dump,
                                                                 !.stats = inited /\ path]]
    BY <1>5 DEF Enter, TypeOK
  <2>2. [Idle EXCEPT !.pass = p, !.dump = settings.dump, !.stats = inited /\ path] \in Calls
    BY <1>3 DEF Idle, Calls
  <2>3. QED
    BY <1>1, <1>2, <1>5, <2>1, <2>2 DEF CallsOK, Enter, Idle
<1>6. CASE Cache(t)
  <2>1. \/ call' = call
        \/ call' = [call EXCEPT ![t] = [call[t] EXCEPT !.stats = path]]
    BY <1>6 DEF Cache
  <2>2. [call[t] EXCEPT !.stats = path] \in Calls
    BY <1>1, <1>3 DEF Calls
  <2>3. seq' = seq /\ base' = base
    BY <1>6 DEF Cache
  <2>4. QED
    BY <1>1, <1>2, <2>1, <2>2, <2>3 DEF CallsOK, Calls
<1>7. CASE Number(t)
  <2> DEFINE n == IF Numbered(call[t]) THEN seq ELSE 0
  <2>1. /\ n \in Nat /\ (n = 0 \/ n < seq')
        /\ call' = [call EXCEPT ![t] = [call[t] EXCEPT !.number = n]]
    BY <1>3, <1>7 DEF Number
  <2> HIDE DEF n
  <2>2. [call[t] EXCEPT !.number = n] \in Calls
    BY <1>1, <2>1 DEF Calls
  <2>3. seq' \in Nat /\ seq' >= seq /\ base' = base
    BY <1>3, <1>7 DEF Number
  <2>4. QED
    BY <1>1, <1>2, <1>3, <2>1, <2>2, <2>3 DEF CallsOK, Calls
<1>8. CASE Resolve(t)
  BY <1>1, <1>2, <1>8 DEF CallsOK, Resolve
<1>9. CASE DumpBefore(t)
  <2>1. PICK written \in BOOLEAN :
          /\ written => base = "made"
          /\ call' = [call EXCEPT ![t] = Dumped(call[t], "before", written)]
    BY <1>9 DEF DumpBefore, Dump
  <2>2. Dumped(call[t], "before", written) \in Calls
    BY <1>1 DEF Dumped, Calls
  <2>3. /\ Dumped(call[t], "before", written).number = call[t].number
        /\ ~written => Dumped(call[t], "before", written).dumped = call[t].dumped
    BY <1>1 DEF Dumped, Calls
  <2>4. seq' = seq /\ base' = base
    BY <1>9 DEF DumpBefore
  <2>5. QED
    BY <1>1, <1>2, <2>1, <2>2, <2>3, <2>4 DEF CallsOK
<1>10. CASE RunPass(t)
  <2>1. call' = [call EXCEPT ![t] = [call[t] EXCEPT !.before = version[t], !.after = version[t] + 1]]
    BY <1>10 DEF RunPass
  <2>2. \A m, n \in Nat : [call[t] EXCEPT !.before = m, !.after = n] \in Calls
    BY <1>1 DEF Calls
  <2> version[t] + 1 \in Nat
    BY <1>3
  <2>3. seq' = seq /\ base' = base
    BY <1>10 DEF RunPass
  <2>4. [call[t] EXCEPT !.before = version[t], !.after = version[t] + 1] \in Calls
    BY <1>3, <2>2
  <2>5. QED
    BY <1>1, <1>2, <2>1, <2>3, <2>4 DEF CallsOK, Calls
<1>11. CASE Lock(t)
  BY <1>1, <1>2, <1>11 DEF CallsOK, Lock
<1>12. CASE Stat(t)
  <2>1. PICK needed \in BOOLEAN : call' = [call EXCEPT ![t] = [call[t] EXCEPT !.header = needed]]
    BY <1>12 DEF Stat
  <2>2. [call[t] EXCEPT !.header = needed] \in Calls
    BY <1>1 DEF Calls
  <2>3. seq' = seq /\ base' = base
    BY <1>12 DEF Stat
  <2>4. QED
    BY <1>1, <1>2, <2>1, <2>2, <2>3 DEF CallsOK, Calls
<1>13. CASE AppendRow(t)
  <2>1. \/ call' = call
        \/ call' = [call EXCEPT ![t] = [call[t] EXCEPT !.failed = TRUE]]
    BY <1>13 DEF AppendRow
  <2>2. [call[t] EXCEPT !.failed = TRUE] \in Calls
    BY <1>1 DEF Calls
  <2>3. seq' = seq /\ base' = base
    BY <1>13 DEF AppendRow
  <2>4. CASE call' = call
    BY <1>1, <1>2, <2>3, <2>4 DEF CallsOK
  <2>5. CASE call' = [call EXCEPT ![t] = [call[t] EXCEPT !.failed = TRUE]]
    BY <1>1, <1>2, <2>2, <2>3, <2>5 DEF CallsOK, Calls
  <2>6. QED
    BY <2>1, <2>4, <2>5
<1>14. CASE DumpAfter(t)
  BY <1>1, <1>2, <1>4, <1>14 DEF CallsOK, DumpAfter, Idle
<1>15. QED
  BY <1>5, <1>6, <1>7, <1>8, <1>9, <1>10, <1>11, <1>12, <1>13, <1>14 DEF Step

LEMMA DumpTyped ==
  ASSUME TypeOK, NEW t \in Thread, NEW phase, NEW written \in BOOLEAN, Dump(t, phase, written)
  PROVE  disk' \in [DOMAIN disk' -> Graphs]
<1>1. Picture(t, version[t]) \in Graphs
  BY DEF Picture, Graphs, TypeOK
<1>2. disk \in [DOMAIN disk -> Graphs]
  BY DEF TypeOK
<1> DEFINE name == FileName(call[t], phase)
<1>3. disk' = disk \/ disk' = Written(name, Picture(t, version[t]))
  BY DEF Dump
<1> HIDE DEF name
<1>4. QED
  BY <1>1, <1>2, <1>3 DEF Written

LEMMA NextTypeOK == TypeOK /\ [Next]_vars => TypeOK'
<1> SUFFICES ASSUME TypeOK, [Next]_vars PROVE TypeOK'
  OBVIOUS
<1> USE DispatcherAssumption DEF TypeOK, statics, files
<1>1. CASE UNCHANGED vars
  BY <1>1 DEF vars
<1>2. CASE Restart
  <2>1. Idle \in Calls
    BY DEF Idle, Calls
  <2>2. call' \in [Thread -> Calls] /\ run' \in 1 .. MaxRuns
    BY <1>2, <2>1 DEF Restart, Start
  <2>3. \A t \in Thread : call'[t].number = 0 /\ call'[t].dumped = {}
    BY <1>2 DEF Restart, Start, Idle
  <2>4. csv' = csv /\ disk' = disk
    BY <1>2 DEF Restart
  <2>5. QED
    BY <1>2, <2>2, <2>3, <2>4 DEF Restart, Start, Places
<1>3. ASSUME NEW t \in Thread, Optimize(t) PROVE TypeOK'
  BY <1>3 DEF Optimize
<1>4. ASSUME NEW t \in Thread, Step(t) PROVE TypeOK'
  <2>1. CallsOK'
    BY <1>4, StepCallsOK
  <2> USE <2>1 DEF CallsOK
  <2>2. CASE Enter(t)
    <3>1. todo' \in [Thread -> SUBSET Pass]
      BY <2>2 DEF Enter
    <3>2. \/ pc' = [pc EXCEPT ![t] = "number"] /\ stores' = stores
          \/ /\ pc' = [pc EXCEPT ![t] = "cache"]
             /\ stores' = [stores EXCEPT ![t] = {"path", "inited"}]
      BY <2>2 DEF Enter
    <3>3. pc' \in [Thread -> Places] /\ stores' \in [Thread -> SUBSET {"path", "inited"}]
      <4>1. pc' = [pc EXCEPT ![t] = "number"] \/ pc' = [pc EXCEPT ![t] = "cache"]
        BY <3>2
      <4>2. stores' = stores \/ stores' = [stores EXCEPT ![t] = {"path", "inited"}]
        BY <3>2
      <4>3. pc' \in [Thread -> Places]
        BY <4>1 DEF Places
      <4>4. CASE stores' = stores
        BY <4>3, <4>4
      <4>5. CASE stores' = [stores EXCEPT ![t] = {"path", "inited"}]
        BY <4>3, <4>5
      <4>6. QED
        BY <4>2, <4>4, <4>5
    <3>4. QED
      BY <2>2, <3>1, <3>3 DEF Enter
  <2>3. CASE Cache(t)
    <3>1. pc' \in [Thread -> Places]
      BY <2>3 DEF Cache, Places
    <3>2. stores' \in [Thread -> SUBSET {"path", "inited"}]
      BY <2>3 DEF Cache
    <3>3. inited' \in BOOLEAN /\ path' \in BOOLEAN
      BY <2>3 DEF Cache
    <3>4. QED
      BY <2>3, <3>1, <3>2, <3>3 DEF Cache
  <2>4. CASE Number(t)
    BY <2>4 DEF Number, Places
  <2>5. CASE Resolve(t)
    BY <2>5 DEF Resolve
  <2>6. CASE DumpBefore(t)
    <3>1. Dump(t, "before", TRUE) \/ Dump(t, "before", FALSE)
      BY <2>6 DEF DumpBefore
    <3>2. disk' \in [DOMAIN disk' -> Graphs]
      BY <3>1, DumpTyped
    <3>3. QED
      BY <2>6, <3>2 DEF DumpBefore, Places
  <2>7. CASE RunPass(t)
    BY <2>7 DEF RunPass, Places
  <2>8. CASE Lock(t)
    BY <2>8 DEF Lock, Places
  <2>9. CASE Stat(t)
    BY <2>9 DEF Stat, Places
  <2>10. CASE AppendRow(t)
    <3>1. Row(t) \in Rows
      <4>1. call[t].before \in Nat /\ call[t].after \in Nat /\ call[t].number \in Nat
              /\ call[t].pass \in Pass \cup {0}
        BY DEF Calls
      <4>2. Picture(t, call[t].before) \in Graphs /\ Picture(t, call[t].after) \in Graphs
        BY <4>1 DEF Picture, Graphs
      <4>3. QED
        BY <4>1, <4>2 DEF Row, Rows
    <3>2. Lines(t) \in Seq({Header} \cup Rows)
      <4>1. <<Row(t)>> \in Seq({Header} \cup Rows) /\ <<Header, Row(t)>> \in Seq({Header} \cup Rows)
        BY <3>1
      <4>2. QED
        BY <4>1 DEF Lines
    <3>3. csv' \in Seq({Header} \cup Rows)
      <4>1. csv' = csv \/ csv' = csv \o Lines(t)
        BY <2>10 DEF AppendRow
      <4>2. csv \o Lines(t) \in Seq({Header} \cup Rows)
        BY <3>2
      <4>3. QED
        BY <4>1, <4>2
    <3>4. QED
      BY <2>10, <3>3 DEF AppendRow, Places
  <2>11. CASE DumpAfter(t)
    <3>1. PICK written \in BOOLEAN :
            /\ Dump(t, "after", written)
            /\ log' = log \cup {[thread |-> t, nth |-> version[t],
                                call |-> Dumped(call[t], "after", written)]}
      BY <2>11 DEF DumpAfter
    <3>2. disk' \in [DOMAIN disk' -> Graphs]
      BY <3>1, DumpTyped
    <3>3. Dumped(call[t], "after", written) \in Calls
      <4>1. call[t] \in Calls
        OBVIOUS
      <4>2. QED
        BY <4>1 DEF Dumped, Calls
    <3>4. log' \subseteq [thread : Thread, nth : Nat, call : Calls]
      BY <3>1, <3>3
    <3>5. QED
      BY <2>11, <3>2, <3>4 DEF DumpAfter, Places
  <2>12. QED
    BY <1>4, <2>2, <2>3, <2>4, <2>5, <2>6, <2>7, <2>8, <2>9, <2>10, <2>11 DEF Step
<1>5. QED
  BY <1>1, <1>2, <1>3, <1>4 DEF Next

(* The state of the dispatcher is well formed: numbers come from the        *)
(* counter, and nothing is dumped without a directory. *)
THEOREM TypeCorrect == Spec => []TypeOK
<1>1. Init => TypeOK
  <2> SUFFICES ASSUME Init PROVE TypeOK
    OBVIOUS
  <2>1. call \in [Thread -> Calls] /\ \A t \in Thread : call[t].number = 0 /\ call[t].dumped = {}
    BY DEF Init, Idle, Calls
  <2>2. csv \in Seq({Header} \cup Rows) /\ disk \in [DOMAIN disk -> Graphs]
    BY DEF Init
  <2>3. pc \in [Thread -> Places] /\ run \in 1 .. MaxRuns
    BY DispatcherAssumption DEF Init, Places
  <2>4. QED
    BY <2>1, <2>2, <2>3 DEF Init, TypeOK
<1>2. QED
  BY <1>1, NextTypeOK, PTL DEF Spec

-----------------------------------------------------------------------------
(* The thread that has taken the mutex of stats_emit is alone, and what it  *)
(* has found out about the file stays true until it writes. *)
Exclusion ==
  \A t \in Thread :
    /\ pc[t] \in {"stat", "append"} => holder = t
    /\ pc[t] = "append" => call[t].header = (csv = <<>>)

LEMMA NextExclusion == TypeOK /\ Exclusion /\ [Next]_vars => Exclusion'
<1> SUFFICES ASSUME TypeOK, Exclusion, [Next]_vars PROVE Exclusion'
  OBVIOUS
<1> USE DispatcherAssumption DEF Exclusion, statics, files
<1>1. pc \in [Thread -> Places] /\ call \in [Thread -> Calls]
  BY DEF TypeOK
<1>2. CASE UNCHANGED vars
  BY <1>2 DEF vars
<1>3. CASE Restart
  BY <1>3 DEF Restart, Start
<1>4. ASSUME NEW t \in Thread, Optimize(t) PROVE Exclusion'
  BY <1>4 DEF Optimize
<1>5. ASSUME NEW t \in Thread,
             /\ pc[t] \notin {"stat", "append"}
             /\ \A u \in Thread \ {t} : pc'[u] = pc[u] /\ call'[u] = call[u]
             /\ pc'[t] \notin {"stat", "append"}
             /\ csv' = csv /\ holder' = holder
      PROVE  Exclusion'
  BY <1>5
<1>6. ASSUME NEW t \in Thread, Enter(t) PROVE Exclusion'
  BY <1>1, <1>5, <1>6 DEF Enter
<1>7. ASSUME NEW t \in Thread, Cache(t) PROVE Exclusion'
  BY <1>1, <1>5, <1>7 DEF Cache
<1>8. ASSUME NEW t \in Thread, Number(t) PROVE Exclusion'
  BY <1>1, <1>5, <1>8 DEF Number
<1>9. ASSUME NEW t \in Thread, Resolve(t) PROVE Exclusion'
  BY <1>9 DEF Resolve
<1>10. ASSUME NEW t \in Thread, DumpBefore(t) PROVE Exclusion'
  BY <1>1, <1>5, <1>10 DEF DumpBefore
<1>11. ASSUME NEW t \in Thread, RunPass(t) PROVE Exclusion'
  BY <1>1, <1>5, <1>11 DEF RunPass
<1>12. ASSUME NEW t \in Thread, Lock(t) PROVE Exclusion'
  BY <1>1, <1>12 DEF Lock
<1>13. ASSUME NEW t \in Thread, Stat(t) PROVE Exclusion'
  <2>1. call'[t].header = (csv = <<>>)
    BY <1>1, <1>13 DEF Stat, Calls
  <2>2. QED
    BY <1>1, <1>13, <2>1 DEF Stat
<1>14. ASSUME NEW t \in Thread, AppendRow(t) PROVE Exclusion'
  <2>1. \A u \in Thread \ {t} : pc'[u] = pc[u] /\ pc[u] \notin {"stat", "append"}
    BY <1>1, <1>14 DEF AppendRow
  <2>2. pc'[t] = "after"
    BY <1>1, <1>14 DEF AppendRow
  <2>3. QED
    BY <2>1, <2>2
<1>15. ASSUME NEW t \in Thread, DumpAfter(t) PROVE Exclusion'
  BY <1>1, <1>5, <1>15 DEF DumpAfter
<1>16. QED
  BY <1>2, <1>3, <1>4, <1>6, <1>7, <1>8, <1>9, <1>10, <1>11, <1>12, <1>13, <1>14, <1>15
  DEF Next, Step

LEMMA NextHeaderFirst == TypeOK /\ Exclusion /\ HeaderFirst /\ [Next]_vars => HeaderFirst'
<1> SUFFICES ASSUME TypeOK, Exclusion, HeaderFirst, [Next]_vars PROVE HeaderFirst'
  OBVIOUS
<1> USE DEF statics, files
<1>1. csv \in Seq({Header} \cup Rows)
  BY DEF TypeOK
<1>2. ASSUME NEW t \in Thread, AppendRow(t) PROVE HeaderFirst'
  <2>1. Row(t) # Header
    <3>1. Row(t).kind = "row" /\ Header.kind = "header"
      BY DEF Row, Header
    <3>2. QED
      BY <3>1
  <2>2. call[t].header = (csv = <<>>)
    BY <1>2 DEF Exclusion, AppendRow
  <2>3. CASE csv' = csv
    BY <2>3 DEF HeaderFirst
  <2>4. CASE csv' = csv \o Lines(t) /\ csv = <<>>
    <3>1. csv' = <<Header, Row(t)>>
      <4>1. Lines(t) = <<Header, Row(t)>>
        BY <2>2, <2>4 DEF Lines
      <4>2. \A x, y : <<>> \o <<x, y>> = <<x, y>>
        OBVIOUS
      <4>3. QED
        BY <2>4, <4>1, <4>2
    <3>2. QED
      BY <2>1, <3>1 DEF HeaderFirst
  <2>5. CASE csv' = csv \o Lines(t) /\ csv # <<>>
    <3> DEFINE row == Row(t)
    <3>1. csv' = Append(csv, row)
      <4>1. csv' = csv \o <<row>>
        BY <2>2, <2>5 DEF Lines
      <4> HIDE DEF row
      <4>2. QED
        BY <1>1, <4>1
    <3>2. row # Header
      BY <2>1
    <3> HIDE DEF row
    <3>3. Len(csv) \in Nat \ {0} /\ Len(csv') = Len(csv) + 1
      BY <1>1, <2>5, <3>1
    <3>4. /\ \A i \in 1 .. Len(csv) : csv'[i] = csv[i]
          /\ csv'[Len(csv) + 1] = row
      BY <1>1, <3>1, <3>3
    <3>5. QED
      BY <2>5, <3>2, <3>3, <3>4 DEF HeaderFirst
  <2>6. QED
    BY <1>2, <2>3, <2>4, <2>5 DEF AppendRow
<1>3. CASE UNCHANGED csv
  BY <1>3 DEF HeaderFirst
<1>4. QED
  BY <1>2, <1>3 DEF Next, Step, vars, Restart, Optimize, Enter, Cache, Number, Resolve, DumpBefore,
                    RunPass, Lock, Stat, DumpAfter

(* Any number of threads and processes append to the CSV file: its header   *)
(* is written once and first. *)
THEOREM HeaderWrittenOnce == Spec => []HeaderFirst
<1>1. Init => Exclusion /\ HeaderFirst
  BY DEF Init, Exclusion, HeaderFirst
<1>2. QED
  BY <1>1, TypeCorrect, NextExclusion, NextHeaderFirst, PTL DEF Spec

-----------------------------------------------------------------------------
(* The thread t is in a call that has the number n. *)
Holds(t, n) ==
  /\ pc[t] \in {"before", "pass", "lock", "stat", "append", "after"}
  /\ Numbered(call[t]) /\ call[t].number = n

(* A number is given to one call, and never again. *)
NumbersUnique ==
  /\ \A t \in Thread : \A n \in Nat : Holds(t, n) => n < seq
  /\ \A t, u \in Thread : \A n \in Nat : Holds(t, n) /\ Holds(u, n) => t = u
  /\ \A c \in log : Numbered(c.call) =>
       c.call.number < seq /\ \A t \in Thread : ~Holds(t, c.call.number)

LEMMA NextNumbersUnique == TypeOK /\ NumbersUnique /\ [Next]_vars => NumbersUnique'
<1> SUFFICES ASSUME TypeOK, NumbersUnique, [Next]_vars PROVE NumbersUnique'
  OBVIOUS
<1> USE DEF statics, files
<1>1. pc \in [Thread -> Places] /\ call \in [Thread -> Calls] /\ seq \in Nat
  BY DEF TypeOK
<1>2. \A c \in log : c.call \in Calls
  BY DEF TypeOK
<1>3. CASE UNCHANGED vars
  BY <1>3 DEF vars, NumbersUnique, Holds, Numbered
<1>4. CASE Restart
  BY <1>4 DEF Restart, Start, NumbersUnique, Holds
<1>5. ASSUME seq' = seq, log' = log,
             \A u \in Thread : \A n \in Nat : Holds(u, n)' => Holds(u, n)
      PROVE  NumbersUnique'
  BY <1>2, <1>5 DEF NumbersUnique, Calls, Numbered
<1>6. ASSUME NEW t \in Thread, Optimize(t) PROVE NumbersUnique'
  BY <1>5, <1>6 DEF Optimize, Holds, Numbered
<1>7. ASSUME NEW t \in Thread, seq' = seq, log' = log,
             \A u \in Thread \ {t} : pc'[u] = pc[u] /\ call'[u] = call[u],
             \A n \in Nat : Holds(t, n)' => Holds(t, n)
      PROVE  NumbersUnique'
  <2>1. \A u \in Thread \ {t} : \A n \in Nat : Holds(u, n)' => Holds(u, n)
    BY <1>7 DEF Holds, Numbered
  <2>2. QED
    BY <1>5, <1>7, <2>1
<1>8. ASSUME NEW t \in Thread, Enter(t) PROVE NumbersUnique'
  <2>1. pc'[t] \in {"number", "cache"}
    BY <1>1, <1>8 DEF Enter
  <2>2. QED
    BY <1>1, <1>7, <1>8, <2>1 DEF Enter, Holds
<1>9. ASSUME NEW t \in Thread, Cache(t) PROVE NumbersUnique'
  <2>1. pc'[t] \in {"number", "cache"}
    BY <1>1, <1>9 DEF Cache
  <2>2. QED
    BY <1>1, <1>7, <1>9, <2>1 DEF Cache, Holds
<1>10. ASSUME NEW t \in Thread, Number(t) PROVE NumbersUnique'
  <2>1. \A u \in Thread \ {t} : \A n \in Nat : Holds(u, n)' => Holds(u, n)
    BY <1>1, <1>10 DEF Number, Holds, Numbered
  <2>2. ~Numbered(call[t]) => seq' = seq /\ \A n \in Nat : ~Holds(t, n)'
    BY <1>1, <1>10 DEF Number, Holds, Numbered, Calls
  <2>3. Numbered(call[t]) => seq' = seq + 1 /\ \A n \in Nat : Holds(t, n)' => n = seq
    BY <1>1, <1>10 DEF Number, Holds, Numbered, Calls
  <2>4. log' = log
    BY <1>10 DEF Number
  <2>5. \A c \in log : c.call.number \in Nat
    BY <1>2 DEF Calls
  <2>6. CASE ~Numbered(call[t])
    BY <1>5, <2>1, <2>2, <2>4, <2>6
  <2>7. CASE Numbered(call[t])
    <3>1. \A u \in Thread : \A n \in Nat : Holds(u, n)' => n < seq' /\ (n < seq <=> u # t)
      BY <1>1, <2>1, <2>3, <2>7 DEF NumbersUnique
    <3>2. \A u, w \in Thread : \A n \in Nat : Holds(u, n)' /\ Holds(w, n)' => u = w
      BY <2>1, <3>1 DEF NumbersUnique
    <3>3. \A c \in log : Numbered(c.call) =>
            c.call.number < seq' /\ \A u \in Thread : ~Holds(u, c.call.number)'
      BY <1>1, <2>1, <2>3, <2>5, <2>7, <3>1 DEF NumbersUnique
    <3>4. QED
      BY <2>4, <3>1, <3>2, <3>3 DEF NumbersUnique, Numbered
  <2>8. QED
    BY <2>6, <2>7
<1>11. ASSUME NEW t \in Thread, Resolve(t) PROVE NumbersUnique'
  BY <1>5, <1>11 DEF Resolve, Holds, Numbered
<1>12. ASSUME NEW t \in Thread, DumpBefore(t) PROVE NumbersUnique'
  <2>1. /\ call'[t].number = call[t].number
        /\ call'[t].dump = call[t].dump /\ call'[t].stats = call[t].stats
    BY <1>1, <1>12 DEF DumpBefore, Dumped, Calls
  <2>2. QED
    BY <1>1, <1>7, <1>12, <2>1 DEF DumpBefore, Holds, Numbered
<1>13. ASSUME NEW t \in Thread, RunPass(t) PROVE NumbersUnique'
  <2>1. /\ call'[t].number = call[t].number
        /\ call'[t].dump = call[t].dump /\ call'[t].stats = call[t].stats
    BY <1>1, <1>13 DEF RunPass, Calls
  <2>2. QED
    BY <1>1, <1>7, <1>13, <2>1 DEF RunPass, Holds, Numbered
<1>14. ASSUME NEW t \in Thread, Lock(t) PROVE NumbersUnique'
  BY <1>1, <1>7, <1>14 DEF Lock, Holds, Numbered
<1>15. ASSUME NEW t \in Thread, Stat(t) PROVE NumbersUnique'
  <2>1. /\ call'[t].number = call[t].number
        /\ call'[t].dump = call[t].dump /\ call'[t].stats = call[t].stats
    BY <1>1, <1>15 DEF Stat, Calls
  <2>2. QED
    BY <1>1, <1>7, <1>15, <2>1 DEF Stat, Holds, Numbered
<1>16. ASSUME NEW t \in Thread, AppendRow(t) PROVE NumbersUnique'
  <2>1. /\ call'[t].number = call[t].number
        /\ call'[t].dump = call[t].dump /\ call'[t].stats = call[t].stats
    BY <1>1, <1>16 DEF AppendRow, Calls
  <2>2. QED
    BY <1>1, <1>7, <1>16, <2>1 DEF AppendRow, Holds, Numbered
<1>17. ASSUME NEW t \in Thread, DumpAfter(t) PROVE NumbersUnique'
  <2>1. PICK done \in {Dumped(call[t], "after", TRUE), Dumped(call[t], "after", FALSE)} :
          log' = log \cup {[thread |-> t, nth |-> version[t], call |-> done]}
    BY <1>17 DEF DumpAfter
  <2>2. done.number = call[t].number /\ (Numbered(done) <=> Numbered(call[t])) /\ done.number \in Nat
    BY <1>1, <2>1 DEF Dumped, Numbered, Calls
  <2>3. Numbered(done) => Holds(t, done.number)
    BY <1>17, <2>2 DEF DumpAfter, Holds
  <2>4. \A u \in Thread : \A n \in Nat : Holds(u, n)' => Holds(u, n) /\ u # t
    BY <1>1, <1>17 DEF DumpAfter, Holds, Numbered
  <2>5. seq' = seq
    BY <1>17 DEF DumpAfter
  <2>6. \A c \in log : c.call.number \in Nat
    BY <1>2 DEF Calls
  <2>7. \A c \in log' : Numbered(c.call) =>
          c.call.number < seq' /\ \A u \in Thread : ~Holds(u, c.call.number)'
    BY <2>1, <2>2, <2>3, <2>4, <2>5, <2>6 DEF NumbersUnique
  <2>8. QED
    BY <2>4, <2>5, <2>7 DEF NumbersUnique, Numbered
<1>18. QED
  BY <1>3, <1>4, <1>6, <1>8, <1>9, <1>10, <1>11, <1>12, <1>13, <1>14, <1>15, <1>16, <1>17
  DEF Next, Step

-----------------------------------------------------------------------------
OnDisk(c, phase, picture) ==
  FileName(c, phase) \in DOMAIN disk /\ disk[FileName(c, phase)] = picture

(* The dump that a running call has written before its pass. *)
Drawn(t) ==
  call[t].dumped # {} =>
    /\ call[t].dumped = {"before"} /\ call[t].dump
    /\ pc[t] \in {"pass", "lock", "stat", "append", "after"}
    /\ OnDisk(call[t], "before", Picture(t, IF pc[t] = "pass" THEN version[t] ELSE version[t] - 1))

(* The dumps that a finished call has left. *)
Left(c) ==
  c.call.dumped # {} =>
    /\ c.call.dump
    /\ \A phase \in c.call.dumped :
         OnDisk(c.call, phase, Picture(c.thread, IF phase = "before" THEN c.nth - 1 ELSE c.nth))

Pictures == (\A t \in Thread : Drawn(t)) /\ (\A c \in log : Left(c))

(* A dump of the thread t changes no file of a call with another number,    *)
(* and none of another phase. *)
LEMMA DumpLeaves ==
  ASSUME NEW t \in Thread, NEW phase, NEW written \in BOOLEAN, Dump(t, phase, written),
         NEW c, NEW other, NEW picture, OnDisk(c, other, picture),
         c.number # call[t].number \/ other # phase
  PROVE  OnDisk(c, other, picture)'
<1>1. FileName(c, other) # FileName(call[t], phase)
  BY DEF FileName
<1>2. QED
  BY <1>1 DEF Dump, OnDisk, Written, FileName

LEMMA DumpDraws ==
  ASSUME NEW t \in Thread, NEW phase, Dump(t, phase, TRUE),
         NEW c, c = call[t], NEW picture, picture = Picture(t, version[t])
  PROVE  OnDisk(c, phase, picture)'
BY DEF Dump, OnDisk, Written, FileName

LEMMA NextPictures ==
  TypeOK /\ NumbersUnique /\ Pictures /\ [Next]_vars => Pictures'
<1> SUFFICES ASSUME TypeOK, NumbersUnique, Pictures, [Next]_vars PROVE Pictures'
  OBVIOUS
<1> USE DEF statics, files
<1>1. /\ pc \in [Thread -> Places] /\ call \in [Thread -> Calls]
      /\ version \in [Thread -> Nat]
      /\ log \subseteq [thread : Thread, nth : Nat, call : Calls]
  BY DEF TypeOK
<1>2. CASE UNCHANGED vars
  BY <1>2 DEF vars, Pictures, Drawn, Left, OnDisk, Picture, FileName
<1>3. CASE Restart
  <2>1. log' = {} /\ \A t \in Thread : call'[t].dumped = {}
    BY <1>3 DEF Restart, Start, Idle
  <2>2. QED
    BY <2>1 DEF Pictures, Drawn
(* A step that writes no dump. *)
<1>4. ASSUME NEW t \in Thread, disk' = disk, run' = run, log' = log, Drawn(t)',
             \A u \in Thread \ {t} : pc'[u] = pc[u] /\ call'[u] = call[u] /\ version'[u] = version[u]
      PROVE  Pictures'
  <2>1. \A u \in Thread \ {t} : Drawn(u)'
    BY <1>4 DEF Pictures, Drawn, OnDisk, Picture, FileName
  <2>2. \A c \in log : Left(c)'
    BY <1>4 DEF Pictures, Left, OnDisk, Picture, FileName
  <2>3. QED
    BY <1>4, <2>1, <2>2 DEF Pictures
<1>5. ASSUME NEW t \in Thread, Optimize(t) PROVE Pictures'
  BY <1>5 DEF Optimize, Pictures, Drawn, Left, OnDisk, Picture, FileName
<1>6. ASSUME NEW t \in Thread, Enter(t) PROVE Pictures'
  <2>1. call'[t].dumped = {}
    BY <1>1, <1>6 DEF Enter, Idle
  <2>2. QED
    BY <1>1, <1>4, <1>6, <2>1 DEF Enter, Drawn
<1>7. ASSUME NEW t \in Thread, Cache(t) PROVE Pictures'
  <2>1. call[t].dumped = {}
    BY <1>7 DEF Cache, Pictures, Drawn
  <2>2. call'[t].dumped = {}
    BY <1>1, <1>7, <2>1 DEF Cache, Calls
  <2>3. QED
    BY <1>1, <1>4, <1>7, <2>2 DEF Cache, Drawn
<1>8. ASSUME NEW t \in Thread, Number(t) PROVE Pictures'
  <2>1. call[t].dumped = {}
    BY <1>8 DEF Number, Pictures, Drawn
  <2>2. call'[t].dumped = {}
    BY <1>1, <1>8, <2>1 DEF Number, Calls
  <2>3. QED
    BY <1>1, <1>4, <1>8, <2>2 DEF Number, Drawn
<1>9. ASSUME NEW t \in Thread, Resolve(t) PROVE Pictures'
  BY <1>9 DEF Resolve, Pictures, Drawn, Left, OnDisk, Picture, FileName
(* What a dump of the thread t does to the others and to finished calls. *)
<1>10. ASSUME NEW t \in Thread, NEW phase, NEW written \in BOOLEAN, Dump(t, phase, written),
              run' = run, pc[t] \in {"before", "after"},
              \A u \in Thread \ {t} : pc'[u] = pc[u] /\ call'[u] = call[u] /\ version'[u] = version[u]
       PROVE  (\A u \in Thread \ {t} : Drawn(u)') /\ (\A c \in log : Left(c)')
  <2>1. CASE ~written
    <3>1. disk' = disk
      BY <1>10, <2>1 DEF Dump
    <3>2. QED
      BY <1>10, <3>1 DEF Pictures, Drawn, Left, OnDisk, Picture, FileName
  <2>2. CASE written
    <3>1. Holds(t, call[t].number) /\ call[t].number \in Nat
      BY <1>1, <1>10, <2>2 DEF Holds, Numbered, Dump, Calls
    <3>2. ASSUME NEW u \in Thread \ {t} PROVE Drawn(u)'
      <4>1. SUFFICES ASSUME call[u].dumped # {} PROVE Drawn(u)'
        BY <1>10 DEF Drawn
      <4>2. Holds(u, call[u].number) /\ call[u].number \in Nat
        BY <1>1, <4>1 DEF Pictures, Drawn, Holds, Numbered, Calls
      <4>3. call[u].number # call[t].number
        BY <3>1, <4>2 DEF NumbersUnique
      <4> DEFINE c == call[u]
                 picture == Picture(u, IF pc[u] = "pass" THEN version[u] ELSE version[u] - 1)
      <4>4. OnDisk(c, "before", picture)
        BY <4>1 DEF Pictures, Drawn
      <4>5. ASSUME NEW d, NEW p, d = c, p = picture PROVE OnDisk(d, "before", p)'
        BY <1>10, <4>3, <4>4, <4>5, DumpLeaves
      <4>6. QED
        BY <1>10, <4>1, <4>5 DEF Pictures, Drawn, Picture
    <3>3. ASSUME NEW c \in log PROVE Left(c)'
      <4>1. SUFFICES ASSUME c.call.dumped # {}, NEW phase2 \in c.call.dumped
                     PROVE  OnDisk(c.call, phase2,
                              Picture(c.thread, IF phase2 = "before" THEN c.nth - 1 ELSE c.nth))'
        BY DEF Pictures, Left
      <4>2. Numbered(c.call)
        BY <4>1 DEF Pictures, Left, Numbered
      <4>3. c.call.number # call[t].number
        BY <3>1, <4>2 DEF NumbersUnique
      <4> DEFINE picture == Picture(c.thread, IF phase2 = "before" THEN c.nth - 1 ELSE c.nth)
      <4>4. OnDisk(c.call, phase2, picture)
        BY <4>1 DEF Pictures, Left
      <4>5. ASSUME NEW p, p = picture PROVE OnDisk(c.call, phase2, p)'
        BY <1>10, <4>3, <4>4, <4>5, DumpLeaves
      <4>6. QED
        BY <1>10, <4>5 DEF Picture
    <3>4. QED
      BY <3>2, <3>3
  <2>3. QED
    BY <2>1, <2>2
<1>11. ASSUME NEW t \in Thread, DumpBefore(t) PROVE Pictures'
  <2>1. PICK written \in BOOLEAN :
          /\ Dump(t, "before", written)
          /\ call' = [call EXCEPT ![t] = Dumped(call[t], "before", written)]
    BY <1>11 DEF DumpBefore
  <2>2. call[t].dumped = {}
    BY <1>11 DEF DumpBefore, Pictures, Drawn
  <2>3. /\ pc'[t] = "pass" /\ version' = version /\ run' = run /\ log' = log
        /\ \A u \in Thread \ {t} : pc'[u] = pc[u] /\ call'[u] = call[u]
    BY <1>1, <1>11, <2>1 DEF DumpBefore
  <2>4. (\A u \in Thread \ {t} : Drawn(u)') /\ (\A c \in log : Left(c)')
    BY <1>10, <1>11, <2>1, <2>3 DEF DumpBefore
  <2>5. Drawn(t)'
    <3>1. CASE ~written
      BY <1>1, <2>1, <2>2, <3>1 DEF Dumped, Drawn
    <3>2. CASE written
      <4>1. /\ call'[t].dumped = {"before"} /\ call'[t].dump
            /\ FileName(call'[t], "before") = FileName(call[t], "before")
        BY <1>1, <2>1, <2>2, <3>2 DEF Dumped, Dump, Calls, FileName
      <4>2. ASSUME NEW d, d = call[t], NEW p, p = Picture(t, version[t]) PROVE OnDisk(d, "before", p)'
        BY <2>1, <3>2, <4>2, DumpDraws
      <4>3. /\ FileName(call[t], "before") \in DOMAIN disk'
            /\ disk'[FileName(call[t], "before")] = Picture(t, version[t])
        BY <4>2 DEF OnDisk
      <4>4. OnDisk(call[t], "before", Picture(t, version[t]))'
        BY <2>3, <4>1, <4>3 DEF OnDisk, Picture
      <4>5. QED
        BY <2>3, <4>1, <4>4 DEF Drawn
    <3>3. QED
      BY <3>1, <3>2
  <2>6. QED
    BY <2>3, <2>4, <2>5 DEF Pictures
<1>12. ASSUME NEW t \in Thread, RunPass(t) PROVE Pictures'
  <2>1. /\ call'[t].dumped = call[t].dumped /\ call'[t].dump = call[t].dump
        /\ FileName(call'[t], "before") = FileName(call[t], "before")
    BY <1>1, <1>12 DEF RunPass, Calls, FileName
  <2>2. /\ pc[t] = "pass" /\ pc'[t] \in {"lock", "after"}
        /\ version'[t] - 1 = version[t] /\ disk' = disk /\ run' = run
    BY <1>1, <1>12 DEF RunPass
  <2>3. Drawn(t)'
    BY <2>1, <2>2 DEF Pictures, Drawn, OnDisk, Picture
  <2>4. QED
    BY <1>1, <1>4, <1>12, <2>2, <2>3 DEF RunPass
<1>13. ASSUME NEW t \in Thread, Lock(t) \/ Stat(t) \/ AppendRow(t) PROVE Pictures'
  <2>1. /\ call'[t].dumped = call[t].dumped /\ call'[t].dump = call[t].dump
        /\ FileName(call'[t], "before") = FileName(call[t], "before")
    BY <1>1, <1>13 DEF Lock, Stat, AppendRow, Calls, FileName
  <2>2. /\ pc[t] \in {"lock", "stat", "append"} /\ pc'[t] \in {"stat", "append", "after"}
        /\ version' = version /\ disk' = disk /\ run' = run /\ log' = log
    BY <1>1, <1>13 DEF Lock, Stat, AppendRow
  <2>3. Drawn(t)'
    BY <2>1, <2>2 DEF Pictures, Drawn, OnDisk, Picture
  <2>4. \A u \in Thread \ {t} : pc'[u] = pc[u] /\ call'[u] = call[u]
    BY <1>1, <1>13 DEF Lock, Stat, AppendRow
  <2>5. QED
    BY <1>4, <2>2, <2>3, <2>4
<1>14. ASSUME NEW t \in Thread, DumpAfter(t) PROVE Pictures'
  <2>1. PICK written \in BOOLEAN :
          /\ Dump(t, "after", written)
          /\ log' = log \cup {[thread |-> t, nth |-> version[t],
                              call |-> Dumped(call[t], "after", written)]}
    BY <1>14 DEF DumpAfter
  <2>2. /\ pc[t] = "after" /\ version' = version /\ run' = run
        /\ \A u \in Thread \ {t} : pc'[u] = pc[u] /\ call'[u] = call[u]
    BY <1>1, <1>14 DEF DumpAfter
  <2>3. (\A u \in Thread \ {t} : Drawn(u)') /\ (\A c \in log : Left(c)')
    BY <1>10, <2>1, <2>2
  <2>4. Drawn(t)'
    BY <1>1, <1>14 DEF DumpAfter, Idle, Drawn
  <2>5. ASSUME NEW c, c = [thread |-> t, nth |-> version[t], call |-> Dumped(call[t], "after", written)]
        PROVE  Left(c)'
    <3>1. /\ c.thread = t /\ c.nth = version[t] /\ c.call.dump = call[t].dump
          /\ \A phase : FileName(c.call, phase) = FileName(call[t], phase)
          /\ c.call.dumped = IF written THEN call[t].dumped \cup {"after"} ELSE call[t].dumped
      BY <1>1, <2>5 DEF Dumped, Calls, FileName
    <3>2. call[t].dumped \in {{}, {"before"}} /\ (c.call.dumped # {} => call[t].dump)
      BY <2>1, <3>1 DEF Pictures, Drawn, Dump
    <3>3. ASSUME "before" \in call[t].dumped, NEW d, d = call[t],
                 NEW p, p = Picture(t, version[t] - 1)
          PROVE  OnDisk(d, "before", p)'
      <4>1. OnDisk(d, "before", p)
        BY <2>2, <3>3 DEF Pictures, Drawn
      <4>2. QED
        BY <2>1, <4>1, DumpLeaves
    <3>4. ASSUME written, NEW d, d = call[t], NEW p, p = Picture(t, version[t])
          PROVE  OnDisk(d, "after", p)'
      BY <2>1, <3>4, DumpDraws
    <3>5. "before" \in call[t].dumped =>
            /\ FileName(call[t], "before") \in DOMAIN disk'
            /\ disk'[FileName(call[t], "before")] = Picture(t, version[t] - 1)
      BY <3>3 DEF OnDisk
    <3>6. written =>
            /\ FileName(call[t], "after") \in DOMAIN disk'
            /\ disk'[FileName(call[t], "after")] = Picture(t, version[t])
      BY <3>4 DEF OnDisk
    <3>7. Left(c)' <=> (c.call.dumped # {} =>
            /\ c.call.dump
            /\ \A phase \in c.call.dumped :
                 /\ FileName(c.call, phase) \in DOMAIN disk'
                 /\ disk'[FileName(c.call, phase)] =
                      Picture(c.thread, IF phase = "before" THEN c.nth - 1 ELSE c.nth))
      BY <2>2 DEF Left, OnDisk, Picture
    <3>8. QED
      <4>1. ASSUME NEW phase \in c.call.dumped
            PROVE  /\ FileName(call[t], phase) \in DOMAIN disk'
                   /\ disk'[FileName(call[t], phase)] =
                        Picture(t, IF phase = "before" THEN version[t] - 1 ELSE version[t])
        <5>1. CASE phase = "before"
          BY <3>1, <3>2, <3>5, <4>1, <5>1
        <5>2. CASE phase = "after"
          BY <3>1, <3>2, <3>6, <4>1, <5>2
        <5>3. QED
          BY <3>1, <3>2, <4>1, <5>1, <5>2
      <4>2. QED
        BY <3>1, <3>2, <3>7, <4>1
  <2>6. QED
    BY <2>1, <2>3, <2>4, <2>5 DEF Pictures
<1>15. QED
  BY <1>2, <1>3, <1>5, <1>6, <1>7, <1>8, <1>9, <1>11, <1>12, <1>13, <1>14 DEF Next, Step

(* No call writes over the dumps of another call of its process.            *)
THEOREM DumpsNeverClobbered == Spec => []DumpsSurvive
<1>1. Init => NumbersUnique /\ Pictures
  BY DEF Init, Idle, NumbersUnique, Holds, Pictures, Drawn
<1>2. Pictures => DumpsSurvive
  BY DEF Pictures, Left, OnDisk, DumpsSurvive
<1>3. QED
  BY <1>1, <1>2, TypeCorrect, NextNumbersUnique, NextPictures, PTL DEF Spec
-----------------------------------------------------------------------------
(* The rows that the calls of this process have written under a number.    *)
RowsOfNumber(n) == {i \in DOMAIN csv : csv[i] # Header /\ csv[i].run = run /\ csv[i].number = n}

(* If a row is expected under the number n, there is one, and it shows the *)
(* graph of t around its v-th pass; otherwise there is none. *)
Tied(n, expected, t, v) ==
  IF expected
  THEN \E i \in DOMAIN csv : /\ RowsOfNumber(n) = {i}
                             /\ csv[i].before = Picture(t, v - 1) /\ csv[i].after = Picture(t, v)
  ELSE RowsOfNumber(n) = {}

(* What a running call has measured and written so far. *)
Measured(t) ==
  /\ pc[t] # "after" => ~call[t].failed
  /\ pc[t] \in {"lock", "stat", "append"} =>
       call[t].stats /\ call[t].before = version[t] - 1 /\ call[t].after = version[t]
  /\ pc[t] \in {"before", "pass", "lock", "stat", "append"} /\ Numbered(call[t]) =>
       RowsOfNumber(call[t].number) = {}
  /\ pc[t] = "after" /\ Numbered(call[t]) =>
       Tied(call[t].number, call[t].stats /\ ~call[t].failed, t, version[t])

(* No row has a number, or is of a process, that is still to come. *)
RowsPast ==
  \A i \in DOMAIN csv : csv[i] # Header => csv[i].run <= run /\ (csv[i].run = run => csv[i].number < seq)

LogTied ==
  \A c \in log : Numbered(c.call) =>
    Tied(c.call.number, c.call.stats /\ ~c.call.failed, c.thread, c.nth)

RowsTied == RowsPast /\ (\A t \in Thread : Measured(t)) /\ LogTied

(* What the file gains: the row of t last, and before it at most a header.  *)
LEMMA Appended ==
  ASSUME TypeOK, NEW t \in Thread, csv' = csv \o Lines(t)
  PROVE  /\ Len(csv) \in Nat /\ Len(csv') \in Nat /\ Len(csv) < Len(csv')
         /\ DOMAIN csv = 1 .. Len(csv) /\ DOMAIN csv' = 1 .. Len(csv')
         /\ \A i \in 1 .. Len(csv) : csv'[i] = csv[i]
         /\ csv'[Len(csv')] = Row(t)
         /\ \A i \in 1 .. Len(csv') : i \in 1 .. Len(csv) \/ i = Len(csv') \/ csv'[i] = Header
<1> DEFINE row == Row(t)
           lines == {Header} \cup Rows \cup {row}
<1>1. csv \in Seq(lines) /\ row \in lines /\ Header \in lines
  <2>1. csv \in Seq({Header} \cup Rows)
    BY DEF TypeOK
  <2> HIDE DEF row
  <2>2. QED
    BY <2>1
<1>2. csv' = csv \o <<row>> \/ csv' = csv \o <<Header, row>>
  BY DEF Lines
<1> HIDE DEF row, lines
<1>3. QED
  <2>1. CASE csv' = csv \o <<row>>
    BY <1>1, <2>1 DEF row
  <2>2. CASE csv' = csv \o <<Header, row>>
    <3>1. /\ <<Header, row>> \in Seq(lines) /\ Len(<<Header, row>>) = 2
          /\ <<Header, row>>[1] = Header /\ <<Header, row>>[2] = row
      BY <1>1
    <3>2. /\ Len(csv') = Len(csv) + 2 /\ Len(csv) \in Nat /\ csv' \in Seq(lines)
          /\ \A i \in 1 .. Len(csv) : csv'[i] = csv[i]
      BY <1>1, <2>2, <3>1
    <3>3. csv'[Len(csv) + 1] = Header /\ csv'[Len(csv) + 2] = row
      BY <1>1, <2>2, <3>1, <3>2
    <3>4. QED
      BY <1>1, <3>2, <3>3 DEF row
  <2>3. QED
    BY <1>2, <2>1, <2>2

(* The rows under other numbers stay, and the new row is found under its own. *)
LEMMA AppendedRows ==
  ASSUME TypeOK, NEW t \in Thread, csv' = csv \o Lines(t), run' = run
  PROVE  /\ \A n : n # call[t].number =>
              /\ RowsOfNumber(n)' = RowsOfNumber(n)
              /\ \A i \in RowsOfNumber(n) : csv'[i] = csv[i]
         /\ RowsOfNumber(call[t].number) = {} =>
              \A n : n = call[t].number => RowsOfNumber(n)' = {Len(csv')}
<1>1. Row(t) # Header
  BY DEF Row, Header
<1>2. Row(t).run = run /\ Row(t).number = call[t].number
  BY DEF Row
<1>3. ASSUME NEW n, n # call[t].number
      PROVE  /\ RowsOfNumber(n)' = RowsOfNumber(n)
             /\ \A i \in RowsOfNumber(n) : csv'[i] = csv[i]
  <2>1. \A i : i \in RowsOfNumber(n)' <=> i \in RowsOfNumber(n)
    BY <1>2, <1>3, Appended DEF RowsOfNumber
  <2>2. \A i \in RowsOfNumber(n) : csv'[i] = csv[i]
    BY Appended DEF RowsOfNumber
  <2>3. RowsOfNumber(n)' = RowsOfNumber(n)
    BY <2>1
  <2>4. QED
    BY <2>2, <2>3
<1>4. ASSUME RowsOfNumber(call[t].number) = {}, NEW n, n = call[t].number
      PROVE  RowsOfNumber(n)' = {Len(csv')}
  <2>1. \A i \in DOMAIN csv : ~(csv[i] # Header /\ csv[i].run = run /\ csv[i].number = n)
    BY <1>4 DEF RowsOfNumber
  <2>2. \A i : i \in RowsOfNumber(n)' <=> i = Len(csv')
    BY <1>1, <1>2, <1>4, <2>1, Appended DEF RowsOfNumber
  <2>3. QED
    BY <2>2
<1>5. QED
  BY <1>3, <1>4

(* A number that none of the rows in question has is left alone by the      *)
(* other rows. *)
LEMMA TiedStays ==
  ASSUME NEW n, NEW expected, NEW t, NEW v, Tied(n, expected, t, v), run' = run,
         RowsOfNumber(n)' = RowsOfNumber(n),
         \A i \in RowsOfNumber(n) : i \in DOMAIN csv' /\ csv'[i] = csv[i]
  PROVE  Tied(n, expected, t, v)'
BY DEF Tied, Picture
LEMMA NextRowsTied ==
  TypeOK /\ NumbersUnique /\ RowsTied /\ [Next]_vars => RowsTied'
<1> SUFFICES ASSUME TypeOK, NumbersUnique, RowsTied, [Next]_vars PROVE RowsTied'
  OBVIOUS
<1> USE DEF statics, files
<1>1. /\ pc \in [Thread -> Places] /\ call \in [Thread -> Calls]
      /\ version \in [Thread -> Nat] /\ seq \in Nat /\ run \in Nat
      /\ log \subseteq [thread : Thread, nth : Nat, call : Calls]
  BY DispatcherAssumption DEF TypeOK
<1>2. \A c \in log : c.call \in Calls /\ c.call.number \in Nat
  BY <1>1 DEF Calls
(* Every row has its fields. *)
<1>3. \A i \in DOMAIN csv : csv[i] # Header => csv[i].run \in Nat /\ csv[i].number \in Nat
  <2>1. csv \in Seq({Header} \cup Rows)
    BY DEF TypeOK
  <2>2. \A i \in DOMAIN csv : csv[i] \in {Header} \cup Rows
    BY <2>1
  <2>3. \A r \in Rows : r.run \in Nat /\ r.number \in Nat
    BY DEF Rows
  <2>4. QED
    BY <2>2, <2>3
(* A step that leaves the file alone. *)
<1>4. ASSUME csv' = csv, run' = run
      PROVE  /\ \A n : RowsOfNumber(n)' = RowsOfNumber(n)
             /\ \A n, expected, t, v : Tied(n, expected, t, v)' <=> Tied(n, expected, t, v)
  BY <1>4 DEF RowsOfNumber, Tied, Picture
<1>5. ASSUME NEW t \in Thread, csv' = csv, run' = run, seq' \in Nat, seq <= seq', log' = log,
             \A u \in Thread \ {t} : pc'[u] = pc[u] /\ call'[u] = call[u] /\ version'[u] = version[u],
             Measured(t)'
      PROVE  RowsTied'
  <2>1. RowsPast'
    BY <1>1, <1>3, <1>5 DEF RowsTied, RowsPast
  <2>2. \A u \in Thread \ {t} : Measured(u)'
    BY <1>4, <1>5 DEF RowsTied, Measured, Numbered
  <2>3. LogTied'
    BY <1>4, <1>5 DEF RowsTied, LogTied, Numbered
  <2>4. QED
    BY <1>5, <2>1, <2>2, <2>3 DEF RowsTied
<1>6. CASE UNCHANGED vars
  <2>1. /\ csv' = csv /\ run' = run /\ seq' = seq /\ log' = log
        /\ pc' = pc /\ call' = call /\ version' = version
    BY <1>6 DEF vars
  <2>2. \A t \in Thread : Measured(t)'
    BY <1>4, <2>1 DEF RowsTied, Measured, Numbered
  <2>3. RowsPast' /\ LogTied'
    BY <1>4, <2>1 DEF RowsTied, RowsPast, LogTied, Numbered
  <2>4. QED
    BY <2>2, <2>3 DEF RowsTied
<1>7. CASE Restart
  <2>1. /\ csv' = csv /\ run' = run + 1 /\ log' = {} /\ pc' = [t \in Thread |-> "idle"]
        /\ call' = [t \in Thread |-> Idle]
    BY <1>7 DEF Restart, Start
  <2>2. RowsPast'
    BY <1>1, <1>3, <2>1 DEF RowsTied, RowsPast
  <2>3. \A t \in Thread : Measured(t)'
    BY <2>1 DEF Measured, Idle
  <2>4. QED
    BY <2>1, <2>2, <2>3 DEF RowsTied, LogTied
<1>8. ASSUME NEW t \in Thread, Optimize(t) PROVE RowsTied'
  <2>1. /\ csv' = csv /\ run' = run /\ seq' = seq /\ log' = log
        /\ pc' = pc /\ call' = call /\ version' = version
    BY <1>8 DEF Optimize
  <2>2. Measured(t)'
    BY <1>4, <2>1 DEF RowsTied, Measured, Numbered
  <2>3. QED
    BY <1>1, <1>5, <2>1, <2>2
<1>9. ASSUME NEW t \in Thread, Enter(t) PROVE RowsTied'
  <2>1. pc'[t] \in {"number", "cache"} /\ ~call'[t].failed
    BY <1>1, <1>9 DEF Enter, Idle
  <2>2. Measured(t)'
    BY <2>1 DEF Measured
  <2>3. QED
    BY <1>1, <1>5, <1>9, <2>2 DEF Enter
<1>10. ASSUME NEW t \in Thread, Cache(t) PROVE RowsTied'
  <2>1. pc'[t] \in {"number", "cache"} /\ ~call'[t].failed
    BY <1>1, <1>10 DEF Cache, RowsTied, Measured, Calls
  <2>2. Measured(t)'
    BY <2>1 DEF Measured
  <2>3. QED
    BY <1>1, <1>5, <1>10, <2>2 DEF Cache
(* The number is new: no row has it. *)
<1>11. ASSUME NEW t \in Thread, Number(t) PROVE RowsTied'
  <2>1. /\ pc[t] = "number" /\ pc'[t] = "before" /\ csv' = csv /\ run' = run
        /\ call'[t] = [call[t] EXCEPT !.number = IF Numbered(call[t]) THEN seq ELSE 0]
    BY <1>1, <1>11 DEF Number
  <2>2. /\ call'[t].failed = call[t].failed
        /\ Numbered(call'[t]) <=> Numbered(call[t])
        /\ Numbered(call[t]) => call'[t].number = seq
    BY <1>1, <2>1 DEF Numbered, Calls
  <2>3. RowsOfNumber(seq) = {}
    BY <1>1, <1>3 DEF RowsTied, RowsPast, RowsOfNumber
  <2>4. Numbered(call[t]) => RowsOfNumber(call[t].number)' = {}
    BY <1>4, <2>1, <2>2, <2>3
  <2>5. Measured(t)'
    BY <2>1, <2>2, <2>4 DEF RowsTied, Measured, Numbered
  <2>6. QED
    BY <1>1, <1>5, <1>11, <2>5 DEF Number
<1>12. ASSUME NEW t \in Thread, Resolve(t) PROVE RowsTied'
  <2>1. /\ csv' = csv /\ run' = run /\ seq' = seq /\ log' = log
        /\ pc' = pc /\ call' = call /\ version' = version
    BY <1>12 DEF Resolve
  <2>2. Measured(t)'
    BY <1>4, <2>1 DEF RowsTied, Measured, Numbered
  <2>3. QED
    BY <1>1, <1>5, <2>1, <2>2
(* A step of t between its number and its row. *)
<1>13. ASSUME NEW t \in Thread, csv' = csv, run' = run,
              pc[t] \in {"before", "pass", "lock", "stat"}, pc'[t] \in {"pass", "lock", "stat", "append"},
              call'[t].number = call[t].number, call'[t].failed = call[t].failed,
              call'[t].dump = call[t].dump, call'[t].stats = call[t].stats,
              pc'[t] # "pass" =>
                call'[t].stats /\ call'[t].before = version'[t] - 1 /\ call'[t].after = version'[t]
       PROVE  Measured(t)'
  BY <1>4, <1>13 DEF RowsTied, Measured, Numbered
<1>14. ASSUME NEW t \in Thread, DumpBefore(t) PROVE RowsTied'
  <2>1. /\ call'[t].number = call[t].number /\ call'[t].failed = call[t].failed
        /\ call'[t].dump = call[t].dump /\ call'[t].stats = call[t].stats
    BY <1>1, <1>14 DEF DumpBefore, Dumped, Calls
  <2>2. pc[t] = "before" /\ pc'[t] = "pass" /\ csv' = csv /\ run' = run
    BY <1>1, <1>14 DEF DumpBefore
  <2>3. QED
    BY <1>1, <1>5, <1>13, <1>14, <2>1, <2>2 DEF DumpBefore
<1>15. ASSUME NEW t \in Thread, RunPass(t) PROVE RowsTied'
  <2>1. /\ call'[t].number = call[t].number /\ call'[t].failed = call[t].failed
        /\ call'[t].dump = call[t].dump /\ call'[t].stats = call[t].stats
        /\ call'[t].before = version[t] /\ call'[t].after = version[t] + 1
        /\ version'[t] = version[t] + 1
    BY <1>1, <1>15 DEF RunPass, Calls
  <2>2. /\ pc[t] = "pass" /\ csv' = csv /\ run' = run
        /\ pc'[t] = IF call[t].stats THEN "lock" ELSE "after"
    BY <1>1, <1>15 DEF RunPass
  <2>3. Measured(t)'
    <3>1. CASE call[t].stats
      <4>1. call'[t].before = version'[t] - 1 /\ call'[t].after = version'[t]
        BY <1>1, <2>1
      <4>2. pc'[t] = "lock" /\ call'[t].stats
        BY <2>1, <2>2, <3>1
      <4>3. QED
        BY <1>13, <2>1, <2>2, <4>1, <4>2
    <3>2. CASE ~call[t].stats
      BY <1>4, <2>1, <2>2, <3>2 DEF RowsTied, Measured, Numbered, Tied
    <3>3. QED
      BY <3>1, <3>2
  <2>4. QED
    BY <1>1, <1>5, <1>15, <2>3 DEF RunPass
<1>16. ASSUME NEW t \in Thread, Lock(t) \/ Stat(t) PROVE RowsTied'
  <2>1. /\ call'[t].number = call[t].number /\ call'[t].failed = call[t].failed
        /\ call'[t].dump = call[t].dump /\ call'[t].stats = call[t].stats
        /\ call'[t].before = call[t].before /\ call'[t].after = call[t].after
    BY <1>1, <1>16 DEF Lock, Stat, Calls
  <2>2. /\ pc[t] \in {"lock", "stat"} /\ pc'[t] \in {"stat", "append"} /\ csv' = csv /\ run' = run
        /\ version' = version /\ seq' = seq /\ log' = log
        /\ \A u \in Thread \ {t} : pc'[u] = pc[u] /\ call'[u] = call[u]
    BY <1>1, <1>16 DEF Lock, Stat
  <2>3. call[t].stats /\ call[t].before = version[t] - 1 /\ call[t].after = version[t]
    BY <2>2 DEF RowsTied, Measured
  <2>4. Measured(t)'
    BY <1>13, <2>1, <2>2, <2>3
  <2>5. QED
    BY <1>1, <1>5, <2>2, <2>4
<1>17. ASSUME NEW t \in Thread, AppendRow(t) PROVE RowsTied'
  <2>1. /\ pc[t] = "append" /\ pc'[t] = "after" /\ run' = run /\ seq' = seq /\ log' = log
        /\ version' = version
        /\ \A u \in Thread \ {t} : pc'[u] = pc[u] /\ call'[u] = call[u]
    BY <1>1, <1>17 DEF AppendRow
  <2>2. /\ call[t].stats /\ call[t].before = version[t] - 1 /\ call[t].after = version[t]
        /\ ~call[t].failed /\ RowsOfNumber(call[t].number) = {} /\ Numbered(call[t])
    BY <2>1 DEF RowsTied, Measured, Numbered
  <2>3. CASE csv' = csv /\ call' = [call EXCEPT ![t].failed = TRUE]
    <3>1. /\ call'[t].number = call[t].number /\ call'[t].failed /\ call'[t].stats = call[t].stats
          /\ call'[t].dump = call[t].dump
      BY <1>1, <2>3 DEF Calls
    <3>2. Measured(t)'
      BY <1>4, <2>1, <2>2, <2>3, <3>1 DEF Measured, Tied, Numbered
    <3>3. QED
      BY <1>1, <1>5, <2>1, <2>3, <3>2
  <2>4. CASE csv' = csv \o Lines(t) /\ call' = call
    <3>1. Holds(t, call[t].number) /\ call[t].number \in Nat
      BY <1>1, <2>1, <2>2 DEF Holds, Calls
    <3>2. \A n : n # call[t].number =>
             /\ RowsOfNumber(n)' = RowsOfNumber(n)
             /\ \A i \in RowsOfNumber(n) : i \in DOMAIN csv' /\ csv'[i] = csv[i]
      <4>1. \A n : n # call[t].number =>
              RowsOfNumber(n)' = RowsOfNumber(n) /\ \A i \in RowsOfNumber(n) : csv'[i] = csv[i]
        BY <2>1, <2>4, AppendedRows
      <4>2. \A i \in DOMAIN csv : i \in DOMAIN csv'
        BY <2>4, Appended
      <4>3. QED
        BY <4>1, <4>2 DEF RowsOfNumber
    <3>3. RowsPast'
      <4>1. call[t].number < seq
        BY <3>1 DEF NumbersUnique
      <4>2. Row(t).run = run /\ Row(t).number = call[t].number
        BY DEF Row
      <4>3. SUFFICES ASSUME NEW i \in DOMAIN csv', csv'[i] # Header
                     PROVE  csv'[i].run <= run' /\ (csv'[i].run = run' => csv'[i].number < seq')
        BY DEF RowsPast
      <4>4. (i \in DOMAIN csv /\ csv'[i] = csv[i]) \/ csv'[i] = Row(t)
        BY <2>4, <4>3, Appended
      <4>5. QED
        BY <1>1, <2>1, <4>1, <4>2, <4>3, <4>4 DEF RowsTied, RowsPast
    <3>4. ASSUME NEW u \in Thread \ {t} PROVE Measured(u)'
      <4>1. pc'[u] = pc[u] /\ call'[u] = call[u] /\ version'[u] = version[u] /\ Measured(u)
        BY <2>1, <2>4 DEF RowsTied
      <4>2. CASE Numbered(call[u]) /\ pc[u] \in {"before", "pass", "lock", "stat", "append", "after"}
        <5>1. Holds(u, call[u].number) /\ call[u].number \in Nat
          BY <1>1, <4>2 DEF Holds, Calls
        <5>2. call[u].number # call[t].number
          BY <3>1, <5>1 DEF NumbersUnique
        <5>3. RowsOfNumber(call[u].number)' = RowsOfNumber(call[u].number)
          BY <2>4, <3>2, <5>2
        <5>4. ASSUME NEW n, n = call[u].number, NEW e, NEW v, Tied(n, e, u, v) PROVE Tied(n, e, u, v)'
          BY <2>1, <3>2, <5>2, <5>4, TiedStays
        <5>5. pc[u] = "after" => Tied(call[u].number, call[u].stats /\ ~call[u].failed, u, version[u])'
          <6>1. SUFFICES ASSUME pc[u] = "after"
                         PROVE  Tied(call[u].number, call[u].stats /\ ~call[u].failed, u, version[u])'
            OBVIOUS
          <6>2. Tied(call[u].number, call[u].stats /\ ~call[u].failed, u, version[u])
            BY <4>1, <4>2, <6>1 DEF Measured
          <6>3. ASSUME NEW n, n = call[u].number, NEW e, e = (call[u].stats /\ ~call[u].failed),
                       NEW v, v = version[u]
                PROVE  Tied(n, e, u, v)'
            BY <5>4, <6>2, <6>3
          <6>4. QED
            BY <2>4, <4>1, <6>3
        <5>6. QED
          BY <4>1, <5>3, <5>5 DEF Measured, Numbered
      <4>3. CASE ~(Numbered(call[u]) /\ pc[u] \in {"before", "pass", "lock", "stat", "append", "after"})
        BY <4>1, <4>3 DEF Measured, Numbered
      <4>4. QED
        BY <4>2, <4>3
    <3>5. Measured(t)'
      <4>1. RowsOfNumber(call[t].number)' = {Len(csv')}
        <5>1. ASSUME NEW n, n = call[t].number PROVE RowsOfNumber(n)' = {Len(csv')}
          BY <2>1, <2>2, <2>4, <5>1, AppendedRows
        <5>2. QED
          BY <2>4, <5>1
      <4>2. /\ Len(csv') \in DOMAIN csv' /\ csv'[Len(csv')] = Row(t)
        BY <2>4, Appended
      <4>3. Row(t).before = Picture(t, version[t] - 1) /\ Row(t).after = Picture(t, version[t])
        BY <2>2 DEF Row
      <4>4. Picture(t, version[t] - 1)' = Picture(t, version[t] - 1)
            /\ Picture(t, version[t])' = Picture(t, version[t])
        BY <2>1 DEF Picture
      <4>5. Tied(call[t].number, call[t].stats /\ ~call[t].failed, t, version[t])'
        BY <2>2, <2>4, <4>1, <4>2, <4>3, <4>4 DEF Tied
      <4>6. QED
        BY <2>1, <2>4, <4>5 DEF Measured
    <3>6. LogTied'
      <4>1. SUFFICES ASSUME NEW c \in log, Numbered(c.call)
                     PROVE  Tied(c.call.number, c.call.stats /\ ~c.call.failed, c.thread, c.nth)'
        BY <2>1 DEF LogTied, Numbered
      <4>2. c.call.number # call[t].number
        BY <3>1, <4>1 DEF NumbersUnique
      <4>3. Tied(c.call.number, c.call.stats /\ ~c.call.failed, c.thread, c.nth)
        BY <4>1 DEF RowsTied, LogTied
      <4>4. QED
        BY <2>1, <3>2, <4>2, <4>3, TiedStays
    <3>7. QED
      BY <3>3, <3>4, <3>5, <3>6 DEF RowsTied
  <2>5. QED
    BY <1>17, <2>3, <2>4 DEF AppendRow
<1>18. ASSUME NEW t \in Thread, DumpAfter(t) PROVE RowsTied'
  <2>1. PICK written \in BOOLEAN :
          log' = log \cup {[thread |-> t, nth |-> version[t], call |-> Dumped(call[t], "after", written)]}
    BY <1>18 DEF DumpAfter
  <2>2. /\ pc[t] = "after" /\ pc'[t] = "idle" /\ ~call'[t].failed
        /\ csv' = csv /\ run' = run /\ seq' = seq /\ version' = version
        /\ \A u \in Thread \ {t} : pc'[u] = pc[u] /\ call'[u] = call[u]
    BY <1>1, <1>18 DEF DumpAfter, Idle
  <2>3. RowsPast'
    BY <2>2 DEF RowsTied, RowsPast
  <2>4. \A u \in Thread : Measured(u)'
    BY <1>4, <2>2 DEF RowsTied, Measured, Numbered
  <2>5. LogTied'
    <3>1. SUFFICES ASSUME NEW c \in log', Numbered(c.call)
                   PROVE  Tied(c.call.number, c.call.stats /\ ~c.call.failed, c.thread, c.nth)
      BY <1>4, <2>2 DEF LogTied, Numbered
    <3>2. CASE c \in log
      BY <3>1, <3>2 DEF RowsTied, LogTied
    <3>3. CASE c = [thread |-> t, nth |-> version[t], call |-> Dumped(call[t], "after", written)]
      <4>1. /\ c.thread = t /\ c.nth = version[t]
            /\ c.call.number = call[t].number /\ c.call.stats = call[t].stats
            /\ c.call.failed = call[t].failed /\ (Numbered(c.call) <=> Numbered(call[t]))
        BY <1>1, <3>3 DEF Dumped, Calls, Numbered
      <4>2. QED
        BY <2>2, <3>1, <4>1 DEF RowsTied, Measured
    <3>4. QED
      BY <2>1, <3>2, <3>3
  <2>6. QED
    BY <2>3, <2>4, <2>5 DEF RowsTied
<1>19. QED
  BY <1>6, <1>7, <1>8, <1>9, <1>10, <1>11, <1>12, <1>14, <1>15, <1>16, <1>17, <1>18 DEF Next, Step
(* The row under the number of a call, and the dumps under the same number, *)
(* show one pass on one graph.                                              *)
THEOREM RowsTiedToDumps == Spec => []RowTiedToDumps
<1>1. Init => NumbersUnique /\ Pictures /\ RowsTied
  <2>1. Init => NumbersUnique /\ Pictures
    BY DEF Init, Idle, NumbersUnique, Holds, Pictures, Drawn
  <2>2. Init => RowsTied
    BY DEF Init, Idle, RowsTied, RowsPast, LogTied, Measured
  <2>3. QED
    BY <2>1, <2>2
<1>2. ASSUME RowsTied, Pictures PROVE RowTiedToDumps
  <2>1. SUFFICES ASSUME NEW c \in log
                 PROVE  /\ Numbered(c.call) =>
                             Cardinality(RowsOf(c.call)) = IF c.call.stats /\ ~c.call.failed THEN 1 ELSE 0
                        /\ c.call.stats => \A i \in RowsOf(c.call) :
                             /\ "before" \in c.call.dumped => csv[i].before = disk[FileName(c.call, "before")]
                             /\ "after" \in c.call.dumped => csv[i].after = disk[FileName(c.call, "after")]
    BY DEF RowTiedToDumps
  <2>2. RowsOf(c.call) = RowsOfNumber(c.call.number)
    BY DEF RowsOf, RowsOfNumber
  <2>3. Numbered(c.call) => Tied(c.call.number, c.call.stats /\ ~c.call.failed, c.thread, c.nth)
    BY <1>2 DEF RowsTied, LogTied
  <2>4. Numbered(c.call) => Cardinality(RowsOf(c.call)) = IF c.call.stats /\ ~c.call.failed THEN 1 ELSE 0
    BY <2>2, <2>3, FS_EmptySet, FS_Singleton DEF Tied
  <2>5. /\ "before" \in c.call.dumped =>
             disk[FileName(c.call, "before")] = Picture(c.thread, c.nth - 1)
        /\ "after" \in c.call.dumped =>
             disk[FileName(c.call, "after")] = Picture(c.thread, c.nth)
    BY <1>2 DEF Pictures, Left, OnDisk
  <2>6. c.call.stats => \A i \in RowsOf(c.call) :
          csv[i].before = Picture(c.thread, c.nth - 1) /\ csv[i].after = Picture(c.thread, c.nth)
    BY <2>2, <2>3 DEF Tied, Numbered
  <2>7. QED
    BY <2>4, <2>5, <2>6
<1>3. QED
  BY <1>1, <1>2, TypeCorrect, NextNumbersUnique, NextPictures, NextRowsTied, PTL DEF Spec

-----------------------------------------------------------------------------
(* The calls of one thread have returned in the order of its passes, and    *)
(* drew their numbers in that order. *)
Ordered ==
  /\ \A c \in log :
       /\ c.nth <= version[c.thread]
       /\ pc[c.thread] \in {"lock", "stat", "append", "after"} => c.nth < version[c.thread]
  /\ \A c, d \in log :
       c.thread = d.thread /\ c.nth < d.nth /\ Numbered(c.call) /\ Numbered(d.call) =>
         c.call.number < d.call.number
  /\ \A t \in Thread, c \in log, n \in Nat :
       c.thread = t /\ Numbered(c.call) /\ Holds(t, n) => c.call.number < n

LEMMA NextOrdered ==
  TypeOK /\ NumbersUnique /\ Ordered /\ [Next]_vars => Ordered'
<1> SUFFICES ASSUME TypeOK, NumbersUnique, Ordered, [Next]_vars PROVE Ordered'
  OBVIOUS
<1> USE DEF statics, files
<1>1. /\ pc \in [Thread -> Places] /\ call \in [Thread -> Calls] /\ version \in [Thread -> Nat]
      /\ \A c \in log : c.thread \in Thread /\ c.nth \in Nat /\ c.call \in Calls /\ c.call.number \in Nat
  BY DEF TypeOK, Calls
<1>2. CASE UNCHANGED vars
  BY <1>2 DEF vars, Ordered, Holds, Numbered
<1>3. CASE Restart
  BY <1>3 DEF Restart, Start, Ordered
(* A step of t after which no call has returned. *)
<1>4. ASSUME NEW t \in Thread, log' = log,
             \A u \in Thread \ {t} : pc'[u] = pc[u] /\ call'[u] = call[u] /\ version'[u] = version[u],
             version'[t] \in Nat, version[t] <= version'[t],
             pc'[t] \in {"lock", "stat", "append", "after"} =>
               version[t] < version'[t] \/ pc[t] \in {"lock", "stat", "append", "after"},
             \A n \in Nat : Holds(t, n)' => Holds(t, n) \/ \A c \in log : Numbered(c.call) => c.call.number < n,
             call'[t].number \in Nat
      PROVE  Ordered'
  <2>1. \A c \in log : /\ c.nth <= version'[c.thread]
                       /\ pc'[c.thread] \in {"lock", "stat", "append", "after"} => c.nth < version'[c.thread]
    <3>1. SUFFICES ASSUME NEW c \in log
                   PROVE  /\ c.nth <= version'[c.thread]
                          /\ pc'[c.thread] \in {"lock", "stat", "append", "after"} => c.nth < version'[c.thread]
      OBVIOUS
    <3>2. CASE c.thread = t
      BY <1>1, <1>4, <3>2 DEF Ordered
    <3>3. CASE c.thread # t
      BY <1>1, <1>4, <3>3 DEF Ordered
    <3>4. QED
      BY <3>2, <3>3
  <2>2. \A c, d \in log :
          c.thread = d.thread /\ c.nth < d.nth /\ Numbered(c.call) /\ Numbered(d.call) =>
            c.call.number < d.call.number
    BY DEF Ordered
  <2>3. ASSUME NEW u \in Thread, NEW c \in log, NEW n \in Nat, c.thread = u, Numbered(c.call), Holds(u, n)'
        PROVE  c.call.number < n
    <3>1. CASE u = t
      BY <1>4, <2>3, <3>1 DEF Ordered
    <3>2. CASE u # t
      BY <1>4, <2>3, <3>2 DEF Ordered, Holds, Numbered
    <3>3. QED
      BY <3>1, <3>2
  <2>4. QED
    BY <1>4, <2>1, <2>2, <2>3 DEF Ordered, Numbered
<1>5. ASSUME NEW t \in Thread, Optimize(t) PROVE Ordered'
  BY <1>5 DEF Optimize, Ordered, Holds, Numbered
<1>6. ASSUME NEW t \in Thread, Enter(t) \/ Cache(t) PROVE Ordered'
  <2>1. /\ pc'[t] \in {"number", "cache"} /\ version' = version /\ log' = log
        /\ \A u \in Thread \ {t} : pc'[u] = pc[u] /\ call'[u] = call[u]
        /\ call'[t].number \in Nat
    <3>1. CASE Enter(t)
      BY <1>1, <3>1 DEF Enter, Idle, Calls
    <3>2. CASE Cache(t)
      BY <1>1, <3>2 DEF Cache, Calls
    <3>3. QED
      BY <1>6, <3>1, <3>2
  <2>2. \A n \in Nat : ~Holds(t, n)'
    BY <2>1 DEF Holds
  <2>3. QED
    BY <1>1, <1>4, <2>1, <2>2
<1>7. ASSUME NEW t \in Thread, Number(t) PROVE Ordered'
  <2>1. /\ pc'[t] = "before" /\ version' = version /\ log' = log
        /\ \A u \in Thread \ {t} : pc'[u] = pc[u] /\ call'[u] = call[u]
        /\ call'[t] = [call[t] EXCEPT !.number = IF Numbered(call[t]) THEN seq ELSE 0]
    BY <1>1, <1>7 DEF Number
  <2>2. /\ Numbered(call'[t]) <=> Numbered(call[t])
        /\ call'[t].number = IF Numbered(call[t]) THEN seq ELSE 0
        /\ call'[t].number \in Nat
    BY <1>1, <2>1 DEF Numbered, Calls, TypeOK
  <2>3. \A n \in Nat : Holds(t, n)' => n = seq
    BY <2>2 DEF Holds, Numbered
  <2>4. \A c \in log : Numbered(c.call) => c.call.number < seq
    BY DEF NumbersUnique
  <2>5. version[t] \in Nat /\ version'[t] = version[t] /\ pc'[t] \notin {"lock", "stat", "append", "after"}
    BY <1>1, <2>1
  <2>6. \A n \in Nat : Holds(t, n)' => \A c \in log : Numbered(c.call) => c.call.number < n
    BY <2>3, <2>4
  <2>7. version[t] <= version'[t]
    BY <2>5
  <2>8. QED
    BY <1>4, <2>1, <2>2, <2>5, <2>6, <2>7
<1>8. ASSUME NEW t \in Thread, Resolve(t) PROVE Ordered'
  BY <1>8 DEF Resolve, Ordered, Holds, Numbered
<1>9. ASSUME NEW t \in Thread, DumpBefore(t) \/ RunPass(t) \/ Lock(t) \/ Stat(t) \/ AppendRow(t) PROVE Ordered'
  <2>1. /\ call'[t].number = call[t].number /\ call'[t].dump = call[t].dump /\ call'[t].stats = call[t].stats
        /\ pc[t] \in {"before", "pass", "lock", "stat", "append"} /\ log' = log
        /\ \A u \in Thread \ {t} : pc'[u] = pc[u] /\ call'[u] = call[u] /\ version'[u] = version[u]
        /\ version'[t] \in {version[t], version[t] + 1}
        /\ pc'[t] \in {"lock", "stat", "append", "after"} =>
             version'[t] = version[t] + 1 \/ pc[t] \in {"lock", "stat", "append"}
    <3>1. CASE DumpBefore(t)
      BY <1>1, <3>1 DEF DumpBefore, Dumped, Calls
    <3>2. CASE RunPass(t)
      BY <1>1, <3>2 DEF RunPass, Calls
    <3>3. CASE Lock(t) \/ Stat(t)
      BY <1>1, <3>3 DEF Lock, Stat, Calls
    <3>4. CASE AppendRow(t)
      BY <1>1, <3>4 DEF AppendRow, Calls
    <3>5. QED
      BY <1>9, <3>1, <3>2, <3>3, <3>4
  <2>2. \A n \in Nat : Holds(t, n)' => Holds(t, n)
    BY <2>1 DEF Holds, Numbered
  <2>3. call[t].number \in Nat /\ version[t] \in Nat
    BY <1>1 DEF Calls
  <2>4. QED
    BY <1>4, <2>1, <2>2, <2>3
<1>10. ASSUME NEW t \in Thread, DumpAfter(t) PROVE Ordered'
  <2>1. PICK written \in BOOLEAN :
          log' = log \cup {[thread |-> t, nth |-> version[t], call |-> Dumped(call[t], "after", written)]}
    BY <1>10 DEF DumpAfter
  <2>2. /\ pc[t] = "after" /\ pc'[t] = "idle" /\ version' = version
        /\ \A u \in Thread \ {t} : pc'[u] = pc[u] /\ call'[u] = call[u]
    BY <1>1, <1>10 DEF DumpAfter
  <2> DEFINE new == [thread |-> t, nth |-> version[t], call |-> Dumped(call[t], "after", written)]
  <2>3. /\ new.thread = t /\ new.nth = version[t] /\ new.call.number = call[t].number
        /\ Numbered(new.call) <=> Numbered(call[t])
    BY <1>1 DEF Dumped, Calls, Numbered
  <2>4. log' = log \cup {new}
    BY <2>1
  <2> HIDE DEF new
  <2>5. \A c \in log : c.thread = t => c.nth < version[t]
    BY <2>2 DEF Ordered
  <2>6. \A c \in log : c.thread = t /\ Numbered(c.call) /\ Numbered(new.call) => c.call.number < new.call.number
    <3>1. SUFFICES ASSUME NEW c \in log, c.thread = t, Numbered(c.call), Numbered(new.call)
                   PROVE  c.call.number < new.call.number
      OBVIOUS
    <3>2. Holds(t, call[t].number) /\ call[t].number \in Nat
      BY <1>1, <2>2, <2>3, <3>1 DEF Holds, Calls
    <3>3. QED
      BY <2>3, <3>1, <3>2 DEF Ordered
  <2>7. ASSUME NEW c \in log', NEW d \in log', c.thread = d.thread, c.nth < d.nth,
               Numbered(c.call), Numbered(d.call)
        PROVE  c.call.number < d.call.number
    <3>1. CASE c \in log /\ d \in log
      BY <2>7, <3>1 DEF Ordered
    <3>2. CASE c = new
      <4>1. d.nth <= version[t]
        BY <1>1, <2>3, <2>4, <2>5, <2>7, <3>2
      <4>2. QED
        BY <1>1, <2>3, <2>4, <2>7, <3>2, <4>1
    <3>3. CASE c \in log /\ d = new
      BY <2>3, <2>6, <2>7, <3>3
    <3>4. QED
      BY <2>4, <3>1, <3>2, <3>3
  <2>8. \A c \in log' : /\ c.nth <= version'[c.thread]
                        /\ pc'[c.thread] \in {"lock", "stat", "append", "after"} => c.nth < version'[c.thread]
    BY <1>1, <2>2, <2>3, <2>4 DEF Ordered
  <2>9. ASSUME NEW u \in Thread, NEW c \in log', NEW n \in Nat, c.thread = u, Numbered(c.call), Holds(u, n)'
        PROVE  c.call.number < n
    <3>1. u # t
      BY <2>2, <2>9 DEF Holds
    <3>2. c \in log /\ Holds(u, n)
      BY <2>2, <2>3, <2>4, <2>9, <3>1 DEF Holds, Numbered
    <3>3. QED
      BY <2>9, <3>2 DEF Ordered
  <2>10. QED
    BY <2>7, <2>8, <2>9 DEF Ordered, Numbered
<1>11. QED
  BY <1>2, <1>3, <1>5, <1>6, <1>7, <1>8, <1>9, <1>10 DEF Next, Step

(* The numbers of the dumps are the timeline of a graph.                    *)
THEOREM DumpsInOrder == Spec => []Timeline
<1>1. Init => NumbersUnique /\ Pictures /\ Ordered
  BY DEF Init, Idle, NumbersUnique, Holds, Pictures, Drawn, Ordered
<1>2. ASSUME TypeOK, Pictures, Ordered PROVE Timeline
  <2>1. SUFFICES ASSUME NEW c \in log, NEW d \in log, c.thread = d.thread, d.nth = c.nth + 1,
                        c.call.dump, d.call.dump
                 PROVE  /\ c.call.number < d.call.number
                        /\ "after" \in c.call.dumped /\ "before" \in d.call.dumped =>
                             disk[FileName(c.call, "after")] = disk[FileName(d.call, "before")]
    BY DEF Timeline
  <2>2. c.nth \in Nat /\ c.nth < d.nth /\ d.nth - 1 = c.nth
    <3>1. c \in [thread : Thread, nth : Nat, call : Calls]
      BY <1>2, <2>1 DEF TypeOK
    <3>2. c.nth \in Nat
      BY <3>1
    <3>3. QED
      BY <2>1, <3>2
  <2>3. c.call.number < d.call.number
    BY <1>2, <2>1, <2>2 DEF Ordered, Numbered
  <2>4. "after" \in c.call.dumped => disk[FileName(c.call, "after")] = Picture(c.thread, c.nth)
    BY <1>2 DEF Pictures, Left, OnDisk
  <2>5. "before" \in d.call.dumped => disk[FileName(d.call, "before")] = Picture(d.thread, d.nth - 1)
    BY <1>2 DEF Pictures, Left, OnDisk
  <2>6. QED
    BY <2>1, <2>2, <2>3, <2>4, <2>5
<1>3. QED
  BY <1>1, <1>2, TypeCorrect, NextNumbersUnique, NextPictures, NextOrdered, PTL DEF Spec
=============================================================================
