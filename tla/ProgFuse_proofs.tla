-------------------------- MODULE ProgFuse_proofs --------------------------
(***************************************************************************)
(* Proofs about the pass prog-fuse: that the chains it contracts are       *)
(* sequences, that it finds all of them, that every kernel stays ordered   *)
(* after those it was recorded after, that no buffer leaks or dangles,     *)
(* that each kernel is given the bytes its parameters were recorded with,  *)
(* and that no pass aborts over what it has fused itself.                  *)
(***************************************************************************)
EXTENDS ProgFuse, CommandGraph_proofs, SequenceTheorems

Programmed == Inner \cap g.members

(* The node that a chain from u goes on with after v. *)
Followed(u, v) == \E w \in Inner : Continues(u, v, w)
Follower(u, v) == CHOOSE w \in Inner : Continues(u, v, w)

LEMMA FollowerContinues ==
  ASSUME NEW u, NEW v, Followed(u, v)
  PROVE  Follower(u, v) \in Inner /\ Continues(u, v, Follower(u, v))
BY DEF Followed, Follower

(* A chain goes along the edges of the graph. *)
LEMMA ContinuesEdge ==
  ASSUME Dag(g), NEW u, NEW v \in g.members, NEW w \in Inner, Continues(u, v, w)
  PROVE  w \in Programmed /\ w \in Succs(g, v)
<1>1. Just(v) \in [Node -> Nat] /\ Just(w)[w] = 1 /\ w \in Node
  BY DEF Just, Inner, Dag, Graphs
<1>2. w \in Succs(g, v)
  BY <1>1 DEF Continues, AreSequence, Succs
<1>3. QED
  BY <1>2, SuccsAreMembers DEF Dag, Programmed

(***************************************************************************)
(* The recursive function of Chain exists: on a largest set of nodes, that *)
(* is closed under going on, there is one, and a sink of the other nodes   *)
(* could be added to it.                                                   *)
(***************************************************************************)
Partial(u, D, f) ==
  /\ D \subseteq Programmed
  /\ \A v \in D : Followed(u, v) => Follower(u, v) \in D
  /\ f = [v \in D |-> IF Followed(u, v) THEN <<v>> \o f[Follower(u, v)] ELSE <<v>>]

LEMMA ChainExists ==
  ASSUME Dag(g), NEW u
  PROVE  \E f : Partial(u, Programmed, f)
<1> DEFINE T == {A \in SUBSET Programmed : \E f : Partial(u, Programmed \ A, f)}
<1>1. Programmed \in T
  <2> DEFINE f == [v \in {} |-> <<>>]
  <2>1. Programmed \ Programmed = {}
    OBVIOUS
  <2>2. Partial(u, {}, f)
    BY DEF Partial
  <2>3. QED
    BY <2>1, <2>2
<1>2. IsFiniteSet(Programmed) /\ T \subseteq SUBSET Programmed
  <2>1. Programmed \in SUBSET Node
    BY DEF Programmed, Inner
  <2>2. IsFiniteSet(Node)
    BY NodeAssumption
  <2>3. QED
    BY <2>1, <2>2, FS_Subset
<1>3. PICK A \in T : \A B \in T : B \subseteq A => B = A
  <2> HIDE DEF T
  <2>1. QED
    BY <1>1, <1>2, SmallestSet
<1>4. SUFFICES ASSUME A # {} PROVE FALSE
  <2>1. Programmed \ {} = Programmed
    OBVIOUS
  <2>2. QED
    BY <1>3, <1>4, <2>1
<1>5. PICK f : Partial(u, Programmed \ A, f)
  BY <1>3
<1>6. PICK x \in A : \A s \in A : s \notin Succs(g, x)
  BY <1>3, <1>4, DagHasSink DEF Dag, Programmed
<1>7. x \in Programmed
  BY <1>3, <1>6
<1> DEFINE D == Programmed \ (A \ {x})
           h == [v \in D |-> IF v = x THEN (IF Followed(u, x) THEN <<x>> \o f[Follower(u, x)] ELSE <<x>>)
                             ELSE f[v]]
<1>8. D = (Programmed \ A) \union {x}
  BY <1>6, <1>7
<1>9. Followed(u, x) => Follower(u, x) \in Programmed \ A
  BY <1>6, <1>7, FollowerContinues, ContinuesEdge DEF Programmed
<1>10. ASSUME NEW v \in Programmed \ A, Followed(u, v)
       PROVE  Follower(u, v) \in Programmed \ A
  BY <1>5, <1>10 DEF Partial
<1>11. ASSUME NEW v \in D
       PROVE  h[v] = IF Followed(u, v) THEN <<v>> \o h[Follower(u, v)] ELSE <<v>>
  <2>1. CASE v = x
    <3>1. Followed(u, x) => Follower(u, x) \in D /\ Follower(u, x) # x
      BY <1>6, <1>8, <1>9
    <3>2. Followed(u, x) => h[Follower(u, x)] = f[Follower(u, x)]
      BY <3>1
    <3>3. QED
      BY <2>1, <3>2
  <2>2. CASE v # x
    <3>1. v \in Programmed \ A
      BY <1>8, <2>2
    <3>2. Followed(u, v) => Follower(u, v) \in D /\ Follower(u, v) # x
      BY <1>6, <1>8, <1>10, <3>1
    <3>3. Followed(u, v) => h[Follower(u, v)] = f[Follower(u, v)]
      BY <3>2
    <3>4. h[v] = f[v] /\ f[v] = IF Followed(u, v) THEN <<v>> \o f[Follower(u, v)] ELSE <<v>>
      BY <1>5, <2>2, <3>1 DEF Partial
    <3>5. QED
      BY <3>3, <3>4
  <2>3. QED
    BY <2>1, <2>2
<1> HIDE DEF h
<1>12. h = [v \in D |-> IF Followed(u, v) THEN <<v>> \o h[Follower(u, v)] ELSE <<v>>]
  BY <1>11 DEF h
<1>13. Partial(u, D, h)
  <2>1. D \subseteq Programmed
    OBVIOUS
  <2>2. \A v \in D : Followed(u, v) => Follower(u, v) \in D
    BY <1>8, <1>9, <1>10
  <2>3. QED
    BY <1>12, <2>1, <2>2 DEF Partial
<1>14. A \ {x} \in T
  BY <1>3, <1>13
<1>15. QED
  BY <1>3, <1>6, <1>14

(* What a chain from v on is: it goes on as long as it can. *)
IsChain(u, v, s) ==
  /\ s \in Seq(Programmed) /\ s # <<>> /\ s[1] = v
  /\ \A k \in 1 .. Len(s) - 1 : Continues(u, s[k], s[k + 1])
  /\ \A w \in Inner : ~Continues(u, s[Len(s)], w)

LEMMA ChainGrows ==
  ASSUME NEW u, NEW v \in Programmed, NEW w, Continues(u, v, w), NEW s, IsChain(u, w, s)
  PROVE  IsChain(u, v, <<v>> \o s)
<1> DEFINE t == <<v>> \o s
<1>1. s \in Seq(Programmed) /\ Len(s) \in Nat /\ Len(s) > 0
  BY DEF IsChain
<1>2. <<v>> \in Seq(Programmed) /\ Len(<<v>>) = 1
  OBVIOUS
<1>3. t \in Seq(Programmed) /\ Len(t) = 1 + Len(s) /\ t[1] = v
  BY <1>1, <1>2
<1>4. \A k \in 1 .. Len(s) : t[k + 1] = s[k]
  BY <1>1, <1>2
<1>5. ASSUME NEW k \in 1 .. Len(t) - 1 PROVE Continues(u, t[k], t[k + 1])
  <2>1. CASE k = 1
    BY <1>1, <1>3, <1>4, <2>1 DEF IsChain
  <2>2. CASE k # 1
    <3>1. k - 1 \in 1 .. Len(s) - 1 /\ k \in 1 .. Len(s) /\ (k - 1) + 1 = k /\ k - 1 \in 1 .. Len(s)
      BY <1>1, <1>3, <2>2
    <3>2. Continues(u, s[k - 1], s[(k - 1) + 1])
      BY <3>1 DEF IsChain
    <3>3. t[k + 1] = s[k] /\ t[(k - 1) + 1] = s[k - 1]
      BY <1>4, <3>1
    <3>4. QED
      BY <3>1, <3>2, <3>3
  <2>3. QED
    BY <2>1, <2>2
<1>6. t[Len(t)] = s[Len(s)]
  BY <1>1, <1>3, <1>4
<1> HIDE DEF t
<1>7. t # <<>>
  BY <1>1, <1>3
<1>8. IsChain(u, v, t)
  BY <1>3, <1>5, <1>6, <1>7 DEF IsChain
<1>9. QED
  BY <1>8 DEF t

LEMMA ChainOf ==
  ASSUME Dag(g), NEW u \in Programmed
  PROVE  IsChain(u, u, Chain(u))
<1> DEFINE F(f) == f = [v \in Inner \cap g.members |->
                          IF \E w \in Inner : Continues(u, v, w)
                          THEN <<v>> \o f[CHOOSE w \in Inner : Continues(u, v, w)]
                          ELSE <<v>>]
           from == CHOOSE f : F(f)
<1>1. \E f : F(f)
  BY ZenonT(60), ChainExists DEF Partial, Followed, Follower, Programmed
<1>2. F(from)
  BY ZenonT(60), <1>1
<1>3. Chain(u) = from[u]
  BY DEF Chain
<1> HIDE DEF from
<1>4. ASSUME NEW v \in Programmed
      PROVE  from[v] = IF Followed(u, v) THEN <<v>> \o from[Follower(u, v)] ELSE <<v>>
  BY <1>2, <1>4 DEF Followed, Follower, Programmed
<1> DEFINE X == {v \in Programmed : ~IsChain(u, v, from[v])}
<1>5. SUFFICES ASSUME X # {} PROVE FALSE
  BY <1>3
<1>6. PICK x \in X : \A s \in X : s \notin Succs(g, x)
  <2>1. X \subseteq g.members
    BY DEF Programmed
  <2> HIDE DEF X
  <2>2. QED
    BY <1>5, <2>1, DagHasSink DEF Dag
<1>7. CASE Followed(u, x)
  <2> DEFINE w == Follower(u, x)
  <2>1. w \in Inner /\ Continues(u, x, w)
    BY <1>7, FollowerContinues
  <2>2. w \in Programmed /\ w \in Succs(g, x)
    BY <1>6, <2>1, ContinuesEdge DEF Programmed
  <2>3. IsChain(u, w, from[w])
    BY <1>6, <2>2
  <2>4. from[x] = <<x>> \o from[w]
    BY <1>4, <1>6, <1>7
  <2> HIDE DEF w
  <2>5. QED
    BY <1>6, <2>1, <2>3, <2>4, ChainGrows
<1>8. CASE ~Followed(u, x)
  <2>1. from[x] = <<x>>
    BY <1>4, <1>6, <1>8
  <2>2. <<x>> \in Seq(Programmed) /\ Len(<<x>>) = 1 /\ <<x>>[1] = x /\ <<x>> # <<>>
    BY <1>6
  <2>3. IsChain(u, x, <<x>>)
    BY <1>8, <2>2 DEF IsChain, Followed
  <2>4. QED
    BY <1>6, <2>1, <2>3
<1>9. QED
  BY <1>7, <1>8
-----------------------------------------------------------------------------
(* Every set of naturals that is not empty has a least element. *)
LEMMA LeastNatural ==
  ASSUME NEW S, S \subseteq Nat, S # {}
  PROVE  \E m \in S : \A k \in S : m <= k
<1>1. PICK n \in S : TRUE
  OBVIOUS
<1> DEFINE I == 0 .. n
           T == {0 .. k : k \in {i \in S : i <= n}}
<1>2. IsFiniteSet(I)
  BY FS_Interval
<1>3. T \subseteq SUBSET I /\ I \in T
  BY <1>1
<1>4. PICK A \in T : \A B \in T : B \subseteq A => B = A
  <2> HIDE DEF T, I
  <2>1. QED
    BY <1>2, <1>3, SmallestSet
<1>5. PICK m \in S : m <= n /\ A = 0 .. m
  BY <1>4
<1>6. ASSUME NEW k \in S, k < m PROVE FALSE
  <2>1. 0 .. k \in T /\ 0 .. k \subseteq A
    BY <1>1, <1>5, <1>6
  <2>2. 0 .. k = 0 .. m
    BY <1>4, <1>5, <2>1
  <2>3. m \in 0 .. m /\ m \notin 0 .. k
    BY <1>6
  <2>4. QED
    BY <2>2, <2>3
<1>7. QED
  BY <1>6

(***************************************************************************)
(* What FlattenSeq makes of a sequence of sequences: a sequence s in which *)
(* position q holds an item of ss, that at[q] names; every item has one    *)
(* position, and the positions are in the order of the items.              *)
(***************************************************************************)
Items(ss, k) == UNION {{<<i, j>> : j \in 1 .. Len(ss[i])} : i \in 1 .. k}

Earlier(x, y) == x[1] < y[1] \/ (x[1] = y[1] /\ x[2] < y[2])

IsFlat(ss, k, X, s, at) ==
  /\ s \in Seq(X)
  /\ at \in [1 .. Len(s) -> Items(ss, k)]
  /\ \A q \in 1 .. Len(s) : s[q] = ss[at[q][1]][at[q][2]]
  /\ \A x \in Items(ss, k) : \E q \in 1 .. Len(s) : at[q] = x
  /\ \A q, r \in 1 .. Len(s) : q < r <=> Earlier(at[q], at[r])

LEMMA FlatGrows ==
  ASSUME NEW X, NEW n \in Nat, NEW ss, \A i \in 1 .. n : ss[i] \in Seq(X), 
         NEW k \in 0 .. n - 1, NEW s, NEW at, IsFlat(ss, k, X, s, at),
         NEW t, t = ss[k + 1]
  PROVE  \E now : IsFlat(ss, k + 1, X, s \o t, now)
<1>1. t \in Seq(X) /\ Len(t) \in Nat /\ s \in Seq(X) /\ Len(s) \in Nat
  BY DEF IsFlat
<1> DEFINE m == Len(s)
           now == [q \in 1 .. m + Len(t) |-> IF q <= m THEN at[q] ELSE <<k + 1, q - m>>]
           w == s \o t
<1>2. w \in Seq(X) /\ Len(w) = m + Len(t)
  BY <1>1
<1>3. ASSUME NEW q \in 1 .. m PROVE w[q] = s[q] /\ now[q] = at[q] /\ at[q] \in Items(ss, k)
  <2>1. at[q] \in Items(ss, k)
    BY DEF IsFlat
  <2>2. q \in 1 .. m + Len(t) /\ q <= m
    BY <1>1
  <2>3. now[q] = at[q]
    BY <2>2
  <2>4. w[q] = s[q]
    BY <1>1
  <2>5. QED
    BY <2>1, <2>3, <2>4
<1>4. \A q \in m + 1 .. m + Len(t) : w[q] = t[q - m] /\ now[q] = <<k + 1, q - m>> /\ q - m \in 1 .. Len(t)
  BY <1>1
<1>5. \A q \in 1 .. Len(w) : q \in 1 .. m \/ q \in m + 1 .. m + Len(t)
  BY <1>1, <1>2
<1>6. \A x : x \in Items(ss, k + 1) <=> x \in Items(ss, k) \/ \E j \in 1 .. Len(t) : x = <<k + 1, j>>
  <2>1. 1 .. k + 1 = (1 .. k) \union {k + 1}
    OBVIOUS
  <2>2. QED
    BY <2>1 DEF Items
<1>7. \A x \in Items(ss, k) : x[1] \in 1 .. k /\ x[2] \in Nat
  BY DEF Items
<1> DEFINE N == m + Len(t)
<1>8. DOMAIN now = 1 .. N /\ Len(w) = N /\ m \in Nat /\ N \in Nat /\ m <= N
  BY <1>1, <1>2
<1> HIDE DEF now, w, N, m
<1>9. now \in [1 .. Len(w) -> Items(ss, k + 1)]
  <2>1. \A q \in 1 .. Len(w) : now[q] \in Items(ss, k + 1)
    BY <1>3, <1>4, <1>5, <1>6
  <2>2. now = [q \in 1 .. Len(w) |-> now[q]]
    BY <1>8 DEF now, N
  <2>3. QED
    BY <2>1, <2>2
<1>10. ASSUME NEW q \in 1 .. Len(w) PROVE w[q] = ss[now[q][1]][now[q][2]]
  <2>1. CASE q \in 1 .. m
    BY <1>3, <2>1 DEF IsFlat, m
  <2>2. CASE q \in m + 1 .. m + Len(t)
    BY <1>4, <2>2
  <2>3. QED
    BY <1>5, <2>1, <2>2
<1>11. ASSUME NEW x \in Items(ss, k + 1) PROVE \E q \in 1 .. Len(w) : now[q] = x
  <2>1. CASE x \in Items(ss, k)
    <3>1. PICK q \in 1 .. m : at[q] = x
      BY <2>1 DEF IsFlat, m
    <3>2. q \in 1 .. Len(w)
      BY <1>8, <3>1
    <3>3. QED
      BY <1>3, <3>1, <3>2
  <2>2. ASSUME NEW j \in 1 .. Len(t), x = <<k + 1, j>> PROVE \E q \in 1 .. Len(w) : now[q] = x
    <3>1. PICK q : q = m + j
      OBVIOUS
    <3>2. q \in m + 1 .. m + Len(t) /\ q \in 1 .. Len(w) /\ q - m = j
      BY <1>1, <1>8, <3>1 DEF N
    <3>3. QED
      BY <1>4, <2>2, <3>2
  <2>3. QED
    BY <1>6, <2>1, <2>2
<1>12. ASSUME NEW q \in 1 .. Len(w), NEW r \in 1 .. Len(w)
       PROVE  q < r <=> Earlier(now[q], now[r])
  <2>1. CASE q \in 1 .. m /\ r \in 1 .. m
    BY <1>3, <2>1 DEF IsFlat, m
  <2>2. CASE q \in 1 .. m /\ r \in m + 1 .. m + Len(t)
    <3>1. now[q][1] \in 1 .. k /\ now[r] = <<k + 1, r - m>>
      BY <1>3, <1>4, <1>7, <2>2
    <3>2. now[q][1] < now[r][1] /\ q < r
      BY <1>8, <2>2, <3>1
    <3>3. QED
      BY <3>2 DEF Earlier
  <2>3. CASE q \in m + 1 .. m + Len(t) /\ r \in 1 .. m
    <3>1. now[r][1] \in 1 .. k /\ now[q] = <<k + 1, q - m>>
      BY <1>3, <1>4, <1>7, <2>3
    <3>2. now[r][1] < now[q][1] /\ r < q /\ ~(now[q][1] < now[r][1]) /\ now[q][1] # now[r][1]
      BY <1>8, <2>3, <3>1
    <3>3. ~(q < r)
      BY <3>2
    <3>4. QED
      BY <3>2, <3>3 DEF Earlier
  <2>4. CASE q \in m + 1 .. m + Len(t) /\ r \in m + 1 .. m + Len(t)
    <3>1. now[q] = <<k + 1, q - m>> /\ now[r] = <<k + 1, r - m>>
      BY <1>4, <2>4
    <3>2. q < r <=> q - m < r - m
      BY <1>8, <2>4
    <3>3. QED
      BY <3>1, <3>2 DEF Earlier
  <2>5. QED
    BY <1>5, <2>1, <2>2, <2>3, <2>4
<1>13. IsFlat(ss, k + 1, X, w, now)
  BY <1>2, <1>9, <1>10, <1>11, <1>12 DEF IsFlat
<1>14. QED
  BY <1>13 DEF w
(* The recursive function of FlattenSeq exists. *)
LEMMA FlatSteps ==
  ASSUME NEW n \in Nat, NEW ss
  PROVE  \E f : f = [i \in 1 .. n |-> IF i = 1 THEN ss[i] ELSE f[i - 1] \o ss[i]]
<1> DEFINE P(k) == \E f : f = [i \in 1 .. k |-> IF i = 1 THEN ss[i] ELSE f[i - 1] \o ss[i]]
           S == {k \in 0 .. n : ~P(k)}
<1>0. SUFFICES P(n)
  OBVIOUS
<1> HIDE DEF P
<1>1. SUFFICES ASSUME S # {} PROVE FALSE
  <2>1. n \in 0 .. n
    OBVIOUS
  <2>2. QED
    BY <1>0, <1>1, <2>1
<1>2. PICK k \in S : \A j \in S : k <= j
  <2>1. S \subseteq Nat
    OBVIOUS
  <2> HIDE DEF S
  <2>2. QED
    BY <1>1, <2>1, LeastNatural
<1>3. k # 0
  <2> DEFINE f == [i \in {} |-> <<>>]
  <2>1. f = [i \in 1 .. 0 |-> IF i = 1 THEN ss[i] ELSE f[i - 1] \o ss[i]]
    OBVIOUS
  <2> HIDE DEF f
  <2>2. P(0)
    BY <2>1 DEF P
  <2>3. QED
    BY <1>2, <2>2
<1>4. P(k - 1) /\ k \in Nat
  BY <1>2, <1>3
<1>5. PICK f : f = [i \in 1 .. k - 1 |-> IF i = 1 THEN ss[i] ELSE f[i - 1] \o ss[i]]
  BY <1>4 DEF P
<1> DEFINE h == [i \in 1 .. k |-> IF i < k THEN f[i] ELSE IF k = 1 THEN ss[k] ELSE f[k - 1] \o ss[k]]
<1>6. ASSUME NEW i \in 1 .. k
      PROVE  h[i] = IF i = 1 THEN ss[i] ELSE h[i - 1] \o ss[i]
  <2>1. CASE i < k
    <3>1. i \in 1 .. k - 1 /\ h[i] = f[i]
      BY <1>4, <2>1
    <3>2. f[i] = IF i = 1 THEN ss[i] ELSE f[i - 1] \o ss[i]
      BY <1>5, <3>1
    <3>3. i # 1 => i - 1 \in 1 .. k /\ i - 1 < k
      BY <1>4, <2>1
    <3>4. i # 1 => h[i - 1] = f[i - 1]
      BY <3>3
    <3>5. QED
      BY <3>1, <3>2, <3>4
  <2>2. CASE i = k
    <3>1. k # 1 => k - 1 \in 1 .. k /\ k - 1 < k
      BY <1>3, <1>4
    <3>2. k # 1 => h[k - 1] = f[k - 1]
      BY <3>1
    <3>3. h[k] = IF k = 1 THEN ss[k] ELSE f[k - 1] \o ss[k]
      BY <1>4, <2>2
    <3>4. QED
      BY <2>2, <3>2, <3>3
  <2>3. QED
    BY <1>4, <2>1, <2>2
<1> HIDE DEF h
<1>7. h = [i \in 1 .. k |-> IF i = 1 THEN ss[i] ELSE h[i - 1] \o ss[i]]
  BY <1>6 DEF h
<1>8. P(k)
  BY <1>7 DEF P
<1>9. QED
  BY <1>2, <1>8

LEMMA FlatOf ==
  ASSUME NEW X, NEW ss \in Seq(Seq(X))
  PROVE  \E at : IsFlat(ss, Len(ss), X, Seqs!FlattenSeq(ss), at)
<1> DEFINE n == Len(ss)
<1>1. n \in Nat /\ \A i \in 1 .. n : ss[i] \in Seq(X)
  OBVIOUS
<1>2. CASE n = 0
  <2> DEFINE at == [q \in {} |-> <<>>]
  <2>1. Seqs!FlattenSeq(ss) = <<>>
    BY <1>2 DEF Seqs!FlattenSeq
  <2>2. 1 .. 0 = {} /\ Len(<<>>) = 0 /\ <<>> \in Seq(X)
    OBVIOUS
  <2>3. Items(ss, 0) = {} /\ at \in [{} -> {}]
    BY <2>2 DEF Items
  <2> HIDE DEF at
  <2>4. IsFlat(ss, 0, X, <<>>, at)
    BY <2>2, <2>3 DEF IsFlat
  <2>5. QED
    BY <1>2, <2>1, <2>4
<1>3. CASE n # 0
  <2> DEFINE F(f) == f = [i \in 1 .. n |-> IF i = 1 THEN ss[i] ELSE f[i - 1] \o ss[i]]
             flatten == CHOOSE f : F(f)
  <2>1. \E f : F(f)
    BY ZenonT(60), <1>1, FlatSteps
  <2>2. F(flatten)
    BY ZenonT(60), <2>1
  <2>3. Seqs!FlattenSeq(ss) = flatten[n]
    BY <1>3 DEF Seqs!FlattenSeq
  <2> HIDE DEF flatten
  <2>4. ASSUME NEW i \in 1 .. n PROVE flatten[i] = IF i = 1 THEN ss[i] ELSE flatten[i - 1] \o ss[i]
    BY <2>2
  <2> DEFINE Q(k) == \E at : IsFlat(ss, k, X, flatten[k], at)
             S == {k \in 1 .. n : ~Q(k)}
  <2>0. SUFFICES Q(n)
    BY <2>3
  <2> HIDE DEF Q
  <2>5. SUFFICES ASSUME S # {} PROVE FALSE
    <3>1. n \in 1 .. n
      BY <1>1, <1>3
    <3>2. QED
      BY <2>0, <2>5, <3>1
  <2>6. PICK k \in S : \A j \in S : k <= j
    <3>1. S \subseteq Nat
      BY <1>1
    <3> HIDE DEF S
    <3>2. QED
      BY <2>5, <3>1, LeastNatural
  <2>7. CASE k = 1
    <3> DEFINE none == [q \in {} |-> <<>>]
    <3>1. 1 .. 0 = {} /\ Len(<<>>) = 0 /\ <<>> \in Seq(X)
      OBVIOUS
    <3>2. Items(ss, 0) = {} /\ none \in [{} -> {}]
      BY <3>1 DEF Items
    <3> HIDE DEF none
    <3>3. IsFlat(ss, 0, X, <<>>, none)
      BY <3>1, <3>2 DEF IsFlat
    <3>4. 0 \in 0 .. n - 1 /\ ss[1] = ss[0 + 1] /\ ss[1] \in Seq(X)
      BY <1>1, <1>3
    <3>5. \E at : IsFlat(ss, 0 + 1, X, <<>> \o ss[1], at)
      BY <1>1, <3>3, <3>4, FlatGrows
    <3>6. flatten[1] = ss[1] /\ <<>> \o ss[1] = ss[1]
      BY <2>4, <2>6, <2>7, <3>4
    <3>7. Q(1)
      BY <3>5, <3>6 DEF Q
    <3>8. QED
      BY <2>6, <2>7, <3>7
  <2>8. CASE k # 1
    <3>1. k - 1 \in 1 .. n /\ k - 1 \in 0 .. n - 1 /\ (k - 1) + 1 = k
      BY <1>1, <2>6, <2>8
    <3>2. Q(k - 1)
      BY <2>6, <3>1
    <3> DEFINE l == k - 1
    <3>3. PICK at : IsFlat(ss, l, X, flatten[l], at)
      BY <3>2 DEF Q
    <3>4. l \in 0 .. n - 1 /\ l + 1 = k /\ flatten[k] = flatten[l] \o ss[k]
      BY <2>4, <2>6, <2>8, <3>1
    <3> HIDE DEF l
    <3>5. \E now : IsFlat(ss, l + 1, X, flatten[l] \o ss[l + 1], now)
      BY <1>1, <3>3, <3>4, FlatGrows
    <3>6. Q(k)
      BY <3>4, <3>5 DEF Q
    <3>7. QED
      BY <2>6, <3>6
  <2>9. QED
    BY <2>7, <2>8
<1>4. QED
  BY <1>2, <1>3
-----------------------------------------------------------------------------
(* The nodes of c follow each other, and nothing else comes between them. *)
Run(G, c) ==
  /\ c \in Seq(G.members)
  /\ \A k \in 1 .. Len(c) - 1 : AreSequence(G, c[k], c[k + 1])

LEMMA RunEdge ==
  ASSUME NEW G, Dag(G), NEW c, Run(G, c), NEW k \in 1 .. Len(c) - 1
  PROVE  /\ c[k] \in G.members /\ c[k + 1] \in G.members /\ c[k + 1] \in Succs(G, c[k])
         /\ AreSequence(G, c[k], c[k + 1])
<1>1. Len(c) \in Nat /\ k \in 1 .. Len(c) /\ k + 1 \in 1 .. Len(c)
  BY DEF Run
<1>2. c[k] \in G.members /\ c[k + 1] \in G.members
  BY <1>1 DEF Run
<1>3. AreSequence(G, c[k], c[k + 1])
  BY DEF Run
<1> DEFINE w == c[k + 1]
<1>4. w \in Node /\ Just(w)[w] = 1
  BY <1>2 DEF Just, Dag, Graphs
<1>5. G.successors[c[k]] = Just(w)
  BY <1>3 DEF AreSequence
<1> HIDE DEF w
<1>6. w \in Succs(G, c[k])
  BY <1>4, <1>5 DEF Succs
<1>7. QED
  BY <1>2, <1>3, <1>6 DEF w

(* Paths lead along a run, and only forward. *)
LEMMA RunPaths ==
  ASSUME NEW G, Dag(G), NEW c, Run(G, c), NEW i \in 1 .. Len(c), NEW j \in 1 .. Len(c), i < j
  PROVE  <<c[i], c[j]>> \in Paths(G) /\ <<c[j], c[i]>> \notin Paths(G) /\ c[i] # c[j]
<1>1. Len(c) \in Nat /\ i \in 1 .. Len(c) - 1 /\ i + 1 \in 1 .. Len(c)
  BY DEF Run
<1>2. c[i] \in G.members /\ c[i + 1] \in G.members /\ c[i + 1] \in Succs(G, c[i])
  BY <1>1, RunEdge
<1> DEFINE S == {l \in i + 1 .. Len(c) : <<c[i + 1], c[l]>> \notin Paths(G)}
<1>3. S = {}
  <2>1. SUFFICES ASSUME S # {} PROVE FALSE
    OBVIOUS
  <2>2. PICK l \in S : \A m \in S : l <= m
    <3>1. S \subseteq Nat
      BY <1>1
    <3> HIDE DEF S
    <3>2. QED
      BY <2>1, <3>1, LeastNatural
  <2>3. l # i + 1
    BY <1>2, <2>2, PathsReflexive DEF Dag
  <2> DEFINE k == l - 1
  <2>4. k \in i + 1 .. Len(c) /\ k < l /\ k \in 1 .. Len(c) - 1 /\ k + 1 = l
    BY <1>1, <2>2, <2>3
  <2>5. <<c[i + 1], c[k]>> \in Paths(G)
    BY <2>2, <2>4
  <2> HIDE DEF k
  <2>6. c[k + 1] \in Succs(G, c[k]) /\ c[k] \in G.members
    BY <2>4, RunEdge
  <2>7. <<c[k], c[l]>> \in Paths(G)
    BY <2>4, <2>6, EdgesArePaths DEF Dag
  <2> DEFINE first == c[i + 1]
  <2>8. <<first, c[k]>> \in Paths(G)
    BY <2>5
  <2> HIDE DEF first
  <2>9. <<first, c[l]>> \in Paths(G)
    BY <2>7, <2>8, PathsTransitive DEF Dag
  <2>10. QED
    BY <2>2, <2>9 DEF first
<1>4. <<c[i + 1], c[j]>> \in Paths(G)
  BY <1>1, <1>3
<1> DEFINE second == c[i + 1]
<1>5. second \in Succs(G, c[i]) /\ <<second, c[j]>> \in Paths(G)
  BY <1>2, <1>4
<1> HIDE DEF second
<1>6. <<c[i], second>> \in Paths(G) /\ <<second, c[i]>> \notin Paths(G)
  BY <1>2, <1>5, EdgesArePaths, NoWayBack DEF Dag
<1>7. <<c[i], c[j]>> \in Paths(G)
  BY <1>5, <1>6, PathsTransitive DEF Dag
<1>8. <<c[j], c[i]>> \notin Paths(G)
  BY <1>5, <1>6, PathsTransitive DEF Dag
<1>9. c[i] # c[j]
  BY <1>5, <1>6
<1>10. QED
  BY <1>7, <1>8, <1>9

(* A node outside a run is before, or after, all of it. *)
LEMMA RunAlike ==
  ASSUME NEW G, Dag(G), NEW c, Run(G, c), NEW i \in 1 .. Len(c),
         NEW x \in G.members, \A k \in 1 .. Len(c) : x # c[k]
  PROVE  /\ <<x, c[i]>> \in Paths(G) <=> <<x, c[1]>> \in Paths(G)
         /\ <<c[i], x>> \in Paths(G) <=> <<c[1], x>> \in Paths(G)
<1> DEFINE Alike(l) == /\ <<x, c[l]>> \in Paths(G) <=> <<x, c[1]>> \in Paths(G)
                       /\ <<c[l], x>> \in Paths(G) <=> <<c[1], x>> \in Paths(G)
           S == {l \in 1 .. Len(c) : ~Alike(l)}
<1>1. SUFFICES ASSUME S # {} PROVE FALSE
  OBVIOUS
<1>2. Len(c) \in Nat
  BY DEF Run
<1>3. PICK l \in S : \A m \in S : l <= m
  <2>1. S \subseteq Nat
    BY <1>2
  <2> HIDE DEF S
  <2>2. QED
    BY <1>1, <2>1, LeastNatural
<1>4. l # 1
  BY <1>3
<1> DEFINE k == l - 1
<1>5. k \in 1 .. Len(c) /\ k < l /\ k \in 1 .. Len(c) - 1 /\ k + 1 = l
  BY <1>2, <1>3, <1>4
<1>6. Alike(k)
  BY <1>3, <1>5
<1> HIDE DEF k
<1>7. c[k] \in G.members /\ c[k + 1] \in G.members /\ AreSequence(G, c[k], c[k + 1])
  BY <1>5, RunEdge
<1>8. c[l] \in G.members /\ AreSequence(G, c[k], c[l])
  BY <1>5, <1>7
<1>9. x \in G.members \ {c[k], c[l]}
  BY <1>3, <1>5
<1>10. /\ <<x, c[k]>> \in Paths(G) <=> <<x, c[l]>> \in Paths(G)
       /\ <<c[k], x>> \in Paths(G) <=> <<c[l], x>> \in Paths(G)
  BY <1>7, <1>8, <1>9, SequenceAlike
<1>11. QED
  BY <1>3, <1>6, <1>10
-----------------------------------------------------------------------------
(* Contracting v into u: who follows whom afterwards. *)
LEMMA ContractFollows ==
  ASSUME NEW G, Dag(G), NEW u \in G.members, NEW v \in G.members, u # v, AreSequence(G, u, v),
         NEW H, H = ContractUV(G, u, v)
  PROVE  /\ \A w \in Node : AreSequence(H, u, w) <=> AreSequence(G, v, w)
         /\ \A x \in G.members \ {u, v}, w \in Node : AreSequence(H, x, w) => AreSequence(G, x, w)
         /\ \A x \in G.members \ {u, v}, w \in Node \ Succs(G, v) :
              AreSequence(G, x, w) => AreSequence(H, x, w)
<1>1. G \in Graphs /\ u \in Node /\ v \in Node /\ G.members \subseteq Node
  BY DEF Dag, Graphs
<1>2. /\ H.successors[u] = G.successors[v]
      /\ \A x \in Node \ {u, v} : H.successors[x] = G.successors[x]
  BY <1>1 DEF ContractUV, Graphs, Lists
<1>3. \A s \in Node : H.predecessors[s] = IF s \in Succs(G, v)
                        THEN PushBack(EraseOne(G.predecessors[s], v), u) ELSE G.predecessors[s]
  BY <1>1 DEF ContractUV, Graphs
<1>4. \A s \in Node : G.predecessors[s] \in [Node -> Nat]
  BY <1>1 DEF Graphs, Lists
<1>5. ASSUME NEW s \in Succs(G, v), s \in Node
      PROVE  H.predecessors[s] = [y \in Node |-> IF y = u THEN G.predecessors[s][u] + 1
                                                 ELSE IF y = v THEN G.predecessors[s][v] - 1
                                                 ELSE G.predecessors[s][y]]
  BY <1>1, <1>3, <1>4, <1>5 DEF PushBack, EraseOne
<1>6. \A w \in Node : Just(w) \in [Node -> Nat] /\ \A y \in Node : Just(w)[y] = IF y = w THEN 1 ELSE 0
  BY DEF Just
<1>7. ASSUME NEW x, NEW w \in Node, G.successors[x] = Just(w) PROVE w \in Succs(G, x)
  BY <1>6, <1>7 DEF Succs
<1>8. ASSUME NEW w \in Node, AreSequence(H, u, w) PROVE AreSequence(G, v, w)
  <2>1. G.successors[v] = Just(w) /\ w \in Succs(G, v)
    BY <1>2, <1>7, <1>8 DEF AreSequence
  <2>2. H.predecessors[w] = Just(u)
    BY <1>8 DEF AreSequence
  <2>3. ASSUME NEW y \in Node PROVE G.predecessors[w][y] = Just(v)[y]
    <3>1. H.predecessors[w][y] = Just(u)[y]
      BY <2>2
    <3>2. Just(u)[y] = (IF y = u THEN 1 ELSE 0) /\ Just(v)[y] = (IF y = v THEN 1 ELSE 0)
      BY <1>1, <1>6
    <3>3. G.predecessors[w][y] \in Nat
      BY <1>4
    <3>4. H.predecessors[w][y] = IF y = u THEN G.predecessors[w][u] + 1
                                 ELSE IF y = v THEN G.predecessors[w][v] - 1 ELSE G.predecessors[w][y]
      BY ZenonT(60), <1>5, <2>1
    <3>5. CASE y = u
      BY <3>1, <3>2, <3>3, <3>4, <3>5
    <3>6. CASE y = v
      BY <3>1, <3>2, <3>3, <3>4, <3>6
    <3>7. CASE y # u /\ y # v
      BY <3>1, <3>2, <3>4, <3>7
    <3>8. QED
      BY <3>5, <3>6, <3>7
  <2>4. G.predecessors[w] = Just(v)
    BY <1>1, <1>4, <1>6, <2>3
  <2>5. QED
    BY <2>1, <2>4 DEF AreSequence
<1>9. ASSUME NEW w \in Node, AreSequence(G, v, w) PROVE AreSequence(H, u, w)
  <2>1. H.successors[u] = Just(w) /\ w \in Succs(G, v) /\ G.predecessors[w] = Just(v)
    BY <1>2, <1>7, <1>9 DEF AreSequence
  <2>2. H.predecessors[w] = [y \in Node |-> IF y = u THEN 1 ELSE 0]
    BY <1>1, <1>5, <1>6, <2>1
  <2>3. QED
    BY <2>1, <2>2 DEF AreSequence, Just
<1>10. ASSUME NEW x \in G.members \ {u, v}, NEW w \in Node, AreSequence(H, x, w)
       PROVE  AreSequence(G, x, w)
  <2>1. G.successors[x] = Just(w) /\ H.predecessors[w] = Just(x)
    BY <1>1, <1>2, <1>10 DEF AreSequence
  <2>2. w \notin Succs(G, v)
    <3>1. SUFFICES ASSUME w \in Succs(G, v) PROVE FALSE
      OBVIOUS
    <3>2. H.predecessors[w][u] = G.predecessors[w][u] + 1 /\ Just(x)[u] = 0 /\ G.predecessors[w][u] \in Nat
      BY <1>1, <1>4, <1>5, <1>6, <3>1
    <3>3. QED
      BY <2>1, <3>2
  <2>3. QED
    BY <1>3, <2>1, <2>2 DEF AreSequence
<1>11. ASSUME NEW x \in G.members \ {u, v}, NEW w \in Node \ Succs(G, v), AreSequence(G, x, w)
       PROVE  AreSequence(H, x, w)
  BY <1>1, <1>2, <1>3, <1>11 DEF AreSequence
<1>12. QED
  BY <1>8, <1>9, <1>10, <1>11

(* What is left of a run when its second node was contracted into the first. *)
Rest(c) == IF Len(c) = 2 THEN <<>> ELSE <<c[1]>> \o SubSeq(c, 3, Len(c))

(* What c lists from its place i on. *)
Onward(c, i) == {c[k] : k \in i .. Len(c)}

LEMMA RestOf ==
  ASSUME NEW S, NEW c \in Seq(S), Len(c) > 1, NEW d, d = Rest(c)
  PROVE  /\ d = <<>> <=> Len(c) = 2
         /\ d # <<>> => /\ Len(d) = Len(c) - 1 /\ Len(d) > 1 /\ d[1] = c[1]
                        /\ \A k \in 2 .. Len(d) : d[k] = c[k + 1]
         /\ d \in Seq({c[k] : k \in 1 .. Len(c)})
         /\ Onward(d, 2) = Onward(c, 3)
<1>1. Len(c) \in Nat
  OBVIOUS
<1> DEFINE T == {c[k] : k \in 1 .. Len(c)}
<1>2. CASE Len(c) = 2
  <2>1. d = <<>> /\ Len(d) = 0 /\ d \in Seq(T) /\ 2 .. 0 = {} /\ 3 .. 2 = {}
    BY <1>2 DEF Rest
  <2>2. Onward(d, 2) = {} /\ Onward(c, 3) = {}
    BY <1>2, <2>1 DEF Onward
  <2>3. QED
    BY <1>2, <2>1, <2>2
<1>3. CASE Len(c) # 2
  <2> DEFINE t == SubSeq(c, 3, Len(c))
  <2>1. d = <<c[1]>> \o t
    BY <1>3 DEF Rest
  <2>2. \A k \in 3 .. Len(c) : c[k] \in T
    OBVIOUS
  <2> DEFINE n == Len(c)
             m == 3
  <2>3. Len(t) = Len(c) - 2 /\ t \in Seq(T) /\ \A k \in 1 .. Len(c) - 2 : t[k] = c[k + 2]
    <3>0. n \in Int /\ m \in Int /\ m <= n
      <4>1. n \in Nat /\ n > 1 /\ n # 2
        BY <1>1, <1>3
      <4> HIDE DEF n
      <4>2. QED
        BY <4>1
    <3>1. n \in Int /\ m \in Int /\ m <= n /\ \A i \in m .. n : c[i] \in T
      <4> HIDE DEF T
      <4>1. QED
        BY <2>2, <3>0
    <3> HIDE DEF T, n, m
    <3>2. /\ SubSeq(c, m, n) \in Seq(T)
          /\ Len(SubSeq(c, m, n)) = n - m + 1
          /\ \A i \in 1 .. n - m + 1 : SubSeq(c, m, n)[i] = c[m + i - 1]
      BY <3>1, SubSeqProperties
    <3>3. n - m + 1 = n - 2 /\ \A i \in 1 .. n - 2 : m + i - 1 = i + 2
      BY <3>1 DEF m
    <3>4. SubSeq(c, m, n) = t
      BY DEF m, n
    <3>5. QED
      BY <3>2, <3>3, <3>4 DEF n
  <2>5. <<c[1]>> \in Seq(T) /\ Len(<<c[1]>>) = 1
    BY <1>1
  <2> HIDE DEF t, T
  <2>6. d \in Seq(T) /\ Len(d) = Len(c) - 1 /\ d[1] = c[1]
    BY <1>1, <2>1, <2>3, <2>5
  <2>7. ASSUME NEW k \in 2 .. Len(d) PROVE d[k] = c[k + 1]
    <3>1. k - 1 \in 1 .. Len(c) - 2 /\ (k - 1) + 2 = k + 1
      BY <1>1, <2>6
    <3>2. t[k - 1] = c[(k - 1) + 2]
      BY <2>3, <3>1
    <3>3. d[k] = t[k - 1]
      BY <1>1, <2>1, <2>3, <2>5, <2>6
    <3>4. QED
      BY <3>1, <3>2, <3>3
  <2>8. Onward(d, 2) = Onward(c, 3)
    <3>1. ASSUME NEW k \in 2 .. Len(d) PROVE d[k] \in {c[l] : l \in 3 .. Len(c)}
      <4>1. k + 1 \in 3 .. Len(c)
        BY <1>1, <2>6
      <4>2. QED
        BY <2>7, <4>1
    <3>2. ASSUME NEW k \in 3 .. Len(c) PROVE c[k] \in {d[l] : l \in 2 .. Len(d)}
      <4>1. k - 1 \in 2 .. Len(d) /\ (k - 1) + 1 = k
        BY <1>1, <2>6
      <4>2. d[k - 1] = c[(k - 1) + 1]
        BY <2>7, <4>1
      <4>3. QED
        BY <4>1, <4>2
    <3>3. QED
      BY <3>1, <3>2 DEF Onward
  <2>9. Len(d) > 1 /\ d # <<>>
    BY <1>1, <1>3, <2>6
  <2>10. QED
    BY <1>3, <2>6, <2>7, <2>8, <2>9 DEF T
<1>4. QED
  BY <1>2, <1>3
-----------------------------------------------------------------------------
(***************************************************************************)
(* The inductive invariant, in parts.  Every member of the graph is on a   *)
(* way from the entry: the walks of the passes list them all.              *)
(***************************************************************************)
GraphSound ==
  /\ Dag(g) /\ Coherent(g)
  /\ entry \in g.members /\ exit \in g.members
  /\ After(g, entry) = g.members

(* The chain that is being contracted is a run of two nodes at least. *)
ChainSound ==
  /\ chain \in Seq(Programmed)
  /\ chain # <<>> => Len(chain) > 1 /\ pc = "prog-fuse"

(* Of the nodes the pass has listed only contracted ones have left. *)
VisitSound ==
  /\ visit \subseteq Programmed \union contracted
  /\ contracted \cap g.members = {}
  /\ pc = "idle" => visit = {}
  /\ pc = "jit" => visit \subseteq g.members

(* OwnedBy holds in every state, inside a contraction too. *)
Owned ==
  /\ OwnedBy(Inner) = heap
  /\ \A u, v \in Inner : u # v => prog[u].owned \cap prog[v].owned = {}

(* The calls of a program are a sequence, of a kernel and its arguments each. *)
AreCalls(s) ==
  /\ s \in Seq({s[k] : k \in DOMAIN s})
  /\ \A k \in DOMAIN s : DOMAIN s[k] = {"kernel", "reads"}

(* IR that a pass finds was recorded, or made of IR that was. *)
ProgramsSound ==
  \A u \in Inner :
    /\ DOMAIN prog[u] = Fields /\ prog[u].target \in {"host", "device"}
    /\ prog[u].source = "LLVMIR" => recorded.prog[u].source = "LLVMIR"
    /\ recorded.prog[u].source = "LLVMIR" => AreCalls(prog[u].calls)

(* The node w goes on, in a graph G with programs P, what a launched alike *)
(* and has come to b.                                                      *)
Goes(G, P, a, b, w) ==
  /\ AreSequence(G, b, w)
  /\ w \in Inner /\ G.type[w] = "COMMAND" /\ P[w].source = "LLVMIR"
  /\ P[a].mode = P[w].mode /\ P[a].grid = P[w].grid

(* No program the pass has left behind goes on with another one.  While a  *)
(* chain is contracted, that holds for the last of its nodes.              *)
Links(c) == {c[k] : k \in 1 .. Len(c)}

Scanned ==
  pc = "prog-fuse" =>
    /\ \A u \in Programmed \ (visit \union Links(chain)), w \in Inner :
         ~(IsLLVMIR(u) /\ Goes(g, prog, u, u, w))
    /\ chain # <<>> => \A w \in Inner : ~Goes(g, prog, chain[1], chain[Len(chain)], w)

IInv ==
  /\ TypeOK /\ serial \in Nat
  /\ GraphSound /\ ChainSound /\ VisitSound /\ ProgramsSound

(* The members are listed, and what is listed is a member. *)
LEMMA ListedNodes ==
  ASSUME IInv
  PROVE  Listed = Programmed
BY DEF IInv, GraphSound, Listed, Programmed, Inner, Dag, Graphs

(* What prog-fuse meets at the head of a chain. *)
LEMMA HeadChain ==
  ASSUME IInv, NEW u \in Inner, Reached(u), IsHead(u)
  PROVE  /\ u \in Programmed
         /\ IsChain(u, u, Chain(u)) /\ Run(g, Chain(u)) /\ Len(Chain(u)) > 1
         /\ \A k \in 1 .. Len(Chain(u)) : IsLLVMIR(Chain(u)[k]) /\ LaunchParamsEqual(u, Chain(u)[k])
<1>1. u \in Programmed
  BY DEF IInv, VisitSound, Reached, IsHead
<1>2. IsChain(u, u, Chain(u)) /\ Len(Chain(u)) > 1
  BY <1>1, ChainOf DEF IInv, GraphSound, IsHead
<1> DEFINE c == Chain(u)
<1>3. c \in Seq(Programmed) /\ Len(c) \in Nat /\ c[1] = u
  BY <1>2 DEF IsChain
<1>4. \A k \in 1 .. Len(c) - 1 : Continues(u, c[k], c[k + 1])
  BY <1>2 DEF IsChain
<1> HIDE DEF c
<1>5. c \in Seq(g.members)
  <2>1. \A k \in 1 .. Len(c) : c[k] \in g.members
    BY <1>3 DEF Programmed
  <2>2. c = [k \in 1 .. Len(c) |-> c[k]]
    BY <1>3
  <2>3. QED
    BY <1>3, <2>1, <2>2
<1>6. Run(g, c)
  BY <1>4, <1>5 DEF Run, Continues
<1>7. ASSUME NEW k \in 1 .. Len(c) PROVE IsLLVMIR(c[k]) /\ LaunchParamsEqual(u, c[k])
  <2>1. CASE k = 1
    BY <1>3, <2>1 DEF IsHead, LaunchParamsEqual
  <2>2. CASE k # 1
    <3> DEFINE l == k - 1
    <3>1. l \in 1 .. Len(c) - 1 /\ l + 1 = k
      BY <1>3, <2>2
    <3> HIDE DEF l
    <3>2. Continues(u, c[l], c[l + 1])
      BY <1>4, <3>1
    <3>3. QED
      BY <3>1, <3>2 DEF Continues
  <2>3. QED
    BY <2>1, <2>2
<1>8. QED
  BY <1>1, <1>2, <1>6, <1>7 DEF c
LEMMA OneCall ==
  ASSUME NEW x, DOMAIN x = {"kernel", "reads"}
  PROVE  AreCalls(<<x>>)
<1> DEFINE s == <<x>>
<1>1. DOMAIN s = {1} /\ s[1] = x /\ {s[k] : k \in DOMAIN s} = {x}
  OBVIOUS
<1>2. s \in Seq({x})
  OBVIOUS
<1> HIDE DEF s
<1>3. AreCalls(s)
  BY <1>1, <1>2 DEF AreCalls
<1>4. QED
  BY <1>3 DEF s

LEMMA InitIInv == Init => IInv
<1> SUFFICES ASSUME Init PROVE IInv
  OBVIOUS
<1>1. PICK r \in Recordings :
        /\ g = Recorded([u \in Node |-> IF u \in Inner \ r.control THEN "COMMAND" ELSE "EMPTY"],
                        Inner, r.edges)
        /\ prog = r.prog
  BY DEF Init
<1> DEFINE G == Recorded([u \in Node |-> "COMMAND"], Inner, r.edges)
           type == [u \in Node |-> IF u \in Inner \ r.control THEN "COMMAND" ELSE "EMPTY"]
<1>2. /\ MaxPasses \in Nat /\ r.edges \subseteq Node \X Node /\ DOMAIN r.prog = Inner
      /\ Acyclic(G) /\ Coherent(G) /\ After(G, entry) = Node
  BY RecordingsAssumption
<1>3. \A u \in Inner :
        /\ DOMAIN r.prog[u] = Fields /\ r.prog[u].target \in {"host", "device"}
        /\ r.prog[u].owned = {}
        /\ r.prog[u].source = "LLVMIR" =>
             r.prog[u].calls = <<[kernel |-> u, reads |-> [j \in DOMAIN r.prog[u].slots |-> j]]>>
  BY RecordingsAssumption
<1> DEFINE all == Inner
<1>4. all \union {entry, exit} = Node /\ all \in SUBSET Inner
  BY NodeAssumption DEF Inner
<1>5. type \in [Node -> NodeType]
  BY DEF NodeType
<1>6. g \in Graphs /\ EdgesMirrored(g) /\ SimpleEdges(g) /\ g.members = Node
  <2> DEFINE E == r.edges
  <2>1. E \in SUBSET ((all \union {entry, exit}) \X (all \union {entry, exit}))
    BY <1>2, <1>4
  <2>2. g = Recorded(type, all, E)
    BY <1>1
  <2> HIDE DEF type, E, all
  <2>3. g \in Graphs /\ EdgesMirrored(g) /\ SimpleEdges(g) /\ g.members = all \union {entry, exit}
    BY <1>4, <1>5, <2>1, <2>2, RecordedLists
  <2>4. QED
    BY <1>4, <2>3
<1>7. g.successors = G.successors /\ g.predecessors = G.predecessors /\ g.members = G.members
  BY <1>1 DEF Recorded
<1> HIDE DEF G, type, all
<1>8. Paths(g) = Paths(G) /\ \A a : After(g, a) = After(G, a)
  BY <1>7, PathsOfLists
<1>9. Acyclic(g) /\ Coherent(g)
  BY <1>2, <1>7, <1>8 DEF Acyclic, Coherent, Succs, Preds
<1>10. After(g, entry) = g.members
  BY <1>2, <1>6, <1>8
<1>11. GraphSound
  BY <1>6, <1>9, <1>10, NodeAssumption DEF GraphSound, Dag
<1>12. ChainSound /\ VisitSound
  BY <1>6 DEF Init, ChainSound, VisitSound
<1>13. ASSUME NEW u \in Inner, prog[u].source = "LLVMIR" PROVE AreCalls(prog[u].calls)
  <2>1. prog[u].calls = <<[kernel |-> u, reads |-> [j \in DOMAIN r.prog[u].slots |-> j]]>>
    BY <1>1, <1>3, <1>13
  <2>2. QED
    BY <2>1, OneCall
<1>14. ProgramsSound
  <2>1. recorded.prog = prog
    BY DEF Init
  <2>2. QED
    BY <1>1, <1>3, <1>13, <2>1 DEF ProgramsSound
<1>15. TypeOK /\ serial \in Nat
  <2>1. \A k \in 1 .. Len(chain) - 1 : AreSequence(g, chain[k], chain[k + 1])
    BY DEF Init
  <2>2. /\ pc = "idle" /\ visit = {} /\ contracted = {} /\ heap = {} /\ serial = 0
        /\ passes = 0 /\ jitted = FALSE
    BY DEF Init
  <2>3. g \in Graphs /\ DOMAIN prog = Inner /\ passes \in 0 .. MaxPasses /\ serial \in Nat
    BY <1>1, <1>2, <1>6, <2>2
  <2> HIDE DEF Init
  <2>4. QED
    BY <2>1, <2>2, <2>3 DEF TypeOK
<1>16. QED
  BY <1>11, <1>12, <1>14, <1>15 DEF IInv
-----------------------------------------------------------------------------
(* The fusion of a sequence of programs keeps how the first is launched. *)
LEMMA FusedFields ==
  ASSUME NEW ps, DOMAIN ps[1] = Fields, NEW own, NEW p, p = Fused(ps, own)
  PROVE  /\ DOMAIN p = Fields /\ p.owned = own
         /\ p.source = ps[1].source /\ p.mode = ps[1].mode /\ p.grid = ps[1].grid
         /\ p.target = ps[1].target
         /\ \E at : p.calls = Calls(ps, at)
<1> HIDE DEF Fused
<1>1. "calls" \in Fields /\ "owned" \in Fields /\ "source" \in Fields /\ "mode" \in Fields
      /\ "grid" \in Fields /\ "target" \in Fields
  BY DEF Fields
<1>2. DOMAIN p = DOMAIN ps[1]
  BY DEF Fused
<1>3. p.owned = own
  BY <1>1 DEF Fused
<1>4. p.source = ps[1].source /\ p.mode = ps[1].mode /\ p.grid = ps[1].grid /\ p.target = ps[1].target
  BY <1>1 DEF Fused
<1>5. \E at : p.calls = Calls(ps, at)
  BY <1>1 DEF Fused
<1>6. QED
  BY <1>2, <1>3, <1>4, <1>5

(* Every node of a chain but the first gives up what it owns. *)
LEMMA InputsFields ==
  ASSUME ProgramsSound, NEW S, NEW c \in Seq(S), Len(c) > 1, c[1] \in Inner,
         \A k \in 2 .. Len(c) : c[k] # c[1],
         NEW fused, DOMAIN fused = Fields, NEW P, P = Inputs(c, fused)
  PROVE  /\ DOMAIN P = Inner /\ P[c[1]] = fused
         /\ \A x \in Inner \ {c[1]} :
              /\ DOMAIN P[x] = Fields
              /\ P[x].mode = prog[x].mode /\ P[x].grid = prog[x].grid
              /\ P[x].target = prog[x].target /\ P[x].calls = prog[x].calls
              /\ P[x].source \in {prog[x].source, "none"}
              /\ P[x].owned = IF x \in {c[k] : k \in 1 .. Len(c)} THEN {} ELSE prog[x].owned
<1> DEFINE inputs == {c[k] : k \in 2 .. Len(c)}
           Released(p) == [p EXCEPT !.owned = {}, !.source = IF p.owned = {} THEN @ ELSE "none"]
<1>1. DOMAIN P = Inner /\ P[c[1]] = fused
  BY DEF Inputs
<1>2. ASSUME NEW x \in Inner \ {c[1]}
      PROVE  P[x] = IF x \in inputs THEN Released(prog[x]) ELSE prog[x]
  BY <1>2 DEF Inputs
<1>3. ASSUME NEW x \in Inner \ {c[1]}
      PROVE  x \in {c[k] : k \in 1 .. Len(c)} <=> x \in inputs
  <2>1. \A k \in 1 .. Len(c) : k = 1 \/ k \in 2 .. Len(c)
    OBVIOUS
  <2>2. \A k \in 2 .. Len(c) : k \in 1 .. Len(c)
    OBVIOUS
  <2>3. QED
    BY <2>1, <2>2
<1>4. ASSUME NEW x \in Inner, NEW q, q = Released(prog[x])
      PROVE  /\ DOMAIN q = Fields /\ q.owned = {}
             /\ q.mode = prog[x].mode /\ q.grid = prog[x].grid
             /\ q.target = prog[x].target /\ q.calls = prog[x].calls
             /\ q.source \in {prog[x].source, "none"}
  <2>1. DOMAIN prog[x] = Fields
    BY DEF ProgramsSound
  <2>2. QED
    BY <1>4, <2>1 DEF Fields
<1> HIDE DEF inputs, Released
<1>5. ASSUME NEW x \in Inner \ {c[1]}
      PROVE  /\ DOMAIN P[x] = Fields
             /\ P[x].mode = prog[x].mode /\ P[x].grid = prog[x].grid
             /\ P[x].target = prog[x].target /\ P[x].calls = prog[x].calls
             /\ P[x].source \in {prog[x].source, "none"}
             /\ P[x].owned = IF x \in {c[k] : k \in 1 .. Len(c)} THEN {} ELSE prog[x].owned
  <2>1. CASE x \in inputs
    BY <1>2, <1>3, <1>4, <2>1
  <2>2. CASE x \notin inputs
    <3>1. P[x] = prog[x] /\ DOMAIN prog[x] = Fields /\ x \notin {c[k] : k \in 1 .. Len(c)}
      BY <1>2, <1>3, <2>2 DEF ProgramsSound
    <3>2. QED
      BY <3>1
  <2>3. QED
    BY <2>1, <2>2
<1>6. QED
  BY <1>1, <1>5
-----------------------------------------------------------------------------
(* contract<U_V_SEQUENCE | INPLACE> of the first two nodes of the chain. *)
LEMMA ContractFacts ==
  ASSUME IInv, Len(chain) > 1,
         NEW u, u = chain[1], NEW v, v = chain[2], NEW H, H = ContractUV(g, u, v)
  PROVE  /\ u \in Programmed /\ v \in Programmed /\ u # v /\ AreSequence(g, u, v)
         /\ Dag(H) /\ Coherent(H) /\ entry \in H.members /\ exit \in H.members
         /\ H.members = g.members \ {v} /\ H.type = g.type
         /\ \A a, b \in H.members : a # b => (<<a, b>> \in Paths(H) <=> <<a, b>> \in Paths(g))
         /\ After(H, entry) = H.members
<1>1. chain \in Seq(Programmed) /\ Len(chain) \in Nat /\ chain \in Seq(g.members)
      /\ \A k \in 1 .. Len(chain) - 1 : AreSequence(g, chain[k], chain[k + 1])
  <2>1. chain \in Seq(Programmed) /\ \A k \in 1 .. Len(chain) - 1 : AreSequence(g, chain[k], chain[k + 1])
    BY DEF IInv, ChainSound, TypeOK
  <2>2. Len(chain) \in Nat /\ chain = [k \in 1 .. Len(chain) |-> chain[k]]
    BY <2>1
  <2>3. \A k \in 1 .. Len(chain) : chain[k] \in g.members
    BY <2>1 DEF Programmed
  <2>4. QED
    BY <2>1, <2>2, <2>3
<1>2. 1 \in 1 .. Len(chain) - 1 /\ 1 \in 1 .. Len(chain) /\ 2 \in 1 .. Len(chain)
  BY <1>1
<1>3. u \in Programmed /\ v \in Programmed /\ AreSequence(g, u, v)
  BY <1>1, <1>2
<1>4. Dag(g) /\ Coherent(g) /\ entry \in g.members /\ exit \in g.members /\ After(g, entry) = g.members
  BY DEF IInv, GraphSound
<1>5. u # v
  <2>1. Run(g, chain)
    BY <1>1 DEF Run
  <2>2. <<chain[1], chain[2]>> \in Paths(g) /\ chain[1] # chain[2]
    <3> DEFINE i == 1
               j == 2
    <3>1. i \in 1 .. Len(chain) /\ j \in 1 .. Len(chain) /\ i < j
      BY <1>2
    <3> HIDE DEF i, j
    <3>2. <<chain[i], chain[j]>> \in Paths(g) /\ chain[i] # chain[j]
      BY <1>4, <2>1, <3>1, RunPaths
    <3>3. QED
      BY <3>2 DEF i, j
  <2>3. QED
    BY <2>2
<1>6. u \in g.members /\ v \in g.members /\ u \in Inner /\ v \in Inner
  BY <1>3 DEF Programmed
<1>7. Quotient(g, H, u, v, u) /\ Contractible(g, u, v, u)
  BY <1>3, <1>4, <1>5, <1>6, ContractUVQuotient DEF Contractible, Mergeable, Inner
<1>8. Dag(H)
  BY <1>4, <1>7, QuotientAcyclic
<1>9. Coherent(H)
  BY <1>4, <1>6, <1>7, QuotientCoherent
<1>10. H.members = g.members \ {v} /\ H.type = g.type
  BY <1>4, <1>5, <1>6 DEF ContractUV, Dag, Graphs
<1>11. ASSUME NEW a \in H.members, NEW b \in H.members, a # b
       PROVE  <<a, b>> \in Paths(H) <=> <<a, b>> \in Paths(g)
  <2>1. a \in g.members /\ b \in g.members /\ Now(u, v, u, a) = a /\ Now(u, v, u, b) = b
    BY <1>10 DEF Now
  <2>2. <<a, b>> \in Paths(g) => <<Now(u, v, u, a), Now(u, v, u, b)>> \in Paths(H)
    BY <1>4, <1>7, <2>1, PathsInQuotient
  <2>3. <<Now(u, v, u, a), Now(u, v, u, b)>> \in Paths(H) => <<a, b>> \in Paths(g)
    BY <1>4, <1>7, <1>11, <2>1, PathsOfQuotient
  <2>4. QED
    BY <2>1, <2>2, <2>3
<1>12. entry \in H.members /\ exit \in H.members
  BY <1>4, <1>6, <1>10 DEF Inner
<1>13. After(H, entry) = H.members
  <2>1. ASSUME NEW b \in H.members PROVE <<entry, b>> \in Paths(H)
    <3>1. <<entry, b>> \in Paths(g)
      BY <1>4, <1>10 DEF After
    <3>2. QED
      BY <1>8, <1>11, <1>12, <3>1, PathsReflexive DEF Dag
  <2>2. QED
    BY <2>1 DEF After
<1>14. QED
  BY <1>3, <1>5, <1>8, <1>9, <1>10, <1>11, <1>12, <1>13

(* The nodes that are left of the chain are a run still. *)
LEMMA ContractRest ==
  ASSUME IInv, Len(chain) > 1,
         NEW H, H = ContractUV(g, chain[1], chain[2]), NEW d, d = Rest(chain)
  PROVE  /\ d \in Seq(Inner \cap H.members) /\ (d # <<>> => Len(d) > 1)
         /\ \A k \in 1 .. Len(d) - 1 : AreSequence(H, d[k], d[k + 1])
<1> DEFINE u == chain[1]
           v == chain[2]
<1>1. chain \in Seq(Programmed) /\ Len(chain) \in Nat /\ Dag(g)
  BY DEF IInv, ChainSound, GraphSound
<1>2. /\ u \in Programmed /\ v \in Programmed /\ u # v /\ AreSequence(g, u, v)
      /\ H.members = g.members \ {v}
  BY ContractFacts
<1>3. \A k \in 1 .. Len(chain) : chain[k] \in Programmed
  BY <1>1
<1>4. Run(g, chain)
  <2>1. \A k \in 1 .. Len(chain) : chain[k] \in g.members
    BY <1>3 DEF Programmed
  <2>2. chain = [k \in 1 .. Len(chain) |-> chain[k]]
    BY <1>1
  <2>3. chain \in Seq(g.members)
    BY <1>1, <2>1, <2>2
  <2>4. QED
    BY <2>3 DEF Run, IInv, TypeOK
<1>5. \A k \in 1 .. Len(chain) : k # 2 => chain[k] # v
  <2>1. 2 \in 1 .. Len(chain)
    BY <1>1
  <2>2. \A k \in 1 .. Len(chain) : k < 2 \/ k = 2 \/ 2 < k
    OBVIOUS
  <2>3. QED
    BY <1>1, <1>4, <2>1, <2>2, RunPaths
<1>6. /\ d = <<>> <=> Len(chain) = 2
      /\ d # <<>> => /\ Len(d) = Len(chain) - 1 /\ Len(d) > 1 /\ d[1] = chain[1]
                     /\ \A k \in 2 .. Len(d) : d[k] = chain[k + 1]
      /\ d \in Seq({chain[k] : k \in 1 .. Len(chain)})
  BY <1>1, RestOf
<1>7. CASE d = <<>>
  BY <1>7
<1>8. CASE d # <<>>
  <2>1. Len(d) = Len(chain) - 1 /\ Len(d) > 1 /\ d[1] = u
    BY <1>6, <1>8
  <2>2. ASSUME NEW k \in 1 .. Len(d) PROVE d[k] \in Inner \cap H.members
    <3>1. k = 1 \/ (k \in 2 .. Len(d) /\ k + 1 \in 1 .. Len(chain) /\ k + 1 # 2)
      BY <1>1, <2>1
    <3>2. d[k] \in Programmed /\ d[k] # v
      BY <1>2, <1>3, <1>5, <1>6, <1>8, <2>1, <3>1
    <3>3. QED
      BY <1>2, <3>2 DEF Programmed
  <2>3. d \in Seq(Inner \cap H.members)
    <3>1. d = [k \in 1 .. Len(d) |-> d[k]] /\ Len(d) \in Nat
      BY <1>6
    <3>2. QED
      BY <2>2, <3>1
  <2>4. u \in g.members /\ v \in g.members
    BY <1>2 DEF Programmed
  <2>5. /\ \A w \in Node : AreSequence(H, u, w) <=> AreSequence(g, v, w)
        /\ \A x \in g.members \ {u, v}, w \in Node \ Succs(g, v) :
             AreSequence(g, x, w) => AreSequence(H, x, w)
    BY <1>1, <1>2, <2>4, ContractFollows
  <2>6. ASSUME NEW k \in 1 .. Len(d) - 1 PROVE AreSequence(H, d[k], d[k + 1])
    <3> DEFINE l == k + 1
    <3>1. l \in 1 .. Len(chain) - 1 /\ l + 1 \in 1 .. Len(chain) /\ l \in 2 .. Len(d) /\ l \in 1 .. Len(chain)
      BY <1>1, <2>1
    <3>2. d[k + 1] = chain[l + 1]
      BY <1>6, <1>8, <3>1
    <3>3. AreSequence(g, chain[l], chain[l + 1]) /\ chain[l + 1] \in g.members /\ chain[l] \in g.members
      BY <1>1, <1>4, <3>1, RunEdge
    <3>4. chain[l + 1] \in Node
      BY <1>1, <3>3 DEF Dag, Graphs
    <3>5. CASE k = 1
      <4>1. l = 2 /\ d[k] = u
        BY <2>1, <3>5
      <4>2. AreSequence(H, u, chain[l + 1])
        BY <2>5, <3>3, <3>4, <4>1
      <4>3. QED
        BY <3>2, <4>1, <4>2
    <3>6. CASE k # 1
      <4>1. k \in 2 .. Len(d) /\ 2 < l /\ 1 < l
        BY <3>6
      <4>2. d[k] = chain[l]
        BY <1>6, <1>8, <4>1
      <4> HIDE DEF l
      <4>3. chain[l] # v /\ chain[l] # u
        <5>1. 1 \in 1 .. Len(chain) /\ 2 \in 1 .. Len(chain)
          BY <1>1
        <5>2. QED
          BY <1>1, <1>4, <3>1, <4>1, <5>1, RunPaths
      <4>4. chain[l + 1] \notin Succs(g, v)
        <5>1. g.predecessors[chain[l + 1]] = Just(chain[l])
          BY <3>3 DEF AreSequence
        <5>2. SUFFICES ASSUME chain[l + 1] \in Succs(g, v) PROVE FALSE
          OBVIOUS
        <5>3. v \in Preds(g, chain[l + 1])
          BY <1>1, <2>4, <3>3, <5>2, SuccsArePreds DEF Dag
        <5>4. Just(chain[l])[v] > 0 /\ v \in Node
          BY <5>1, <5>3 DEF Preds
        <5>5. QED
          BY <4>3, <5>4 DEF Just
      <4>5. AreSequence(H, chain[l], chain[l + 1])
        BY <2>5, <3>3, <3>4, <4>3, <4>4
      <4>6. QED
        BY <3>2, <4>2, <4>5 DEF l
    <3>7. QED
      BY <3>5, <3>6
  <2>7. QED
    BY <2>1, <2>3, <2>6
<1>9. QED
  BY <1>7, <1>8
-----------------------------------------------------------------------------
(* Steps that neither edit the graph nor a program. *)
LEMMA QuietStep ==
  ASSUME IInv, UNCHANGED <<g, prog, recorded, chain, heap, serial>>,
         pc' \in {"idle", "prog-fuse", "jit", "aborted"}, chain # <<>> => pc' = "prog-fuse",
         visit' \subseteq Inner, contracted' \subseteq Inner,
         passes' \in 0 .. MaxPasses, jitted' \in BOOLEAN, VisitSound'
  PROVE  IInv'
<1>1. GraphSound'
  BY DEF IInv, GraphSound, Dag, Coherent
<1>2. ChainSound'
  BY DEF IInv, ChainSound, Programmed
<1>3. ProgramsSound'
  BY DEF IInv, ProgramsSound
<1>4. TypeOK' /\ serial' \in Nat
  BY DEF IInv, TypeOK
<1>5. QED
  BY <1>1, <1>2, <1>3, <1>4 DEF IInv

LEMMA StartProgFuseIInv == IInv /\ StartProgFuse => IInv'
<1> SUFFICES ASSUME IInv, StartProgFuse PROVE IInv'
  OBVIOUS
<1>1. visit' = Programmed /\ contracted' = {} /\ pc' = "prog-fuse" /\ g' = g
  BY ListedNodes DEF StartProgFuse
<1>2. VisitSound'
  BY <1>1 DEF VisitSound, Programmed
<1>3. passes' \in 0 .. MaxPasses
  BY RecordingsAssumption DEF StartProgFuse, IInv, TypeOK
<1>4. visit' \subseteq Inner
  BY <1>1 DEF Programmed
<1>5. jitted' \in BOOLEAN
  BY DEF StartProgFuse, IInv, TypeOK
<1>6. QED
  BY <1>1, <1>2, <1>3, <1>4, <1>5, QuietStep DEF StartProgFuse

LEMMA StartJitIInv == IInv /\ StartJit => IInv'
<1> SUFFICES ASSUME IInv, StartJit PROVE IInv'
  OBVIOUS
<1>1. visit' = Programmed /\ pc' = "jit" /\ g' = g /\ contracted' = contracted
  BY ListedNodes DEF StartJit
<1>2. VisitSound'
  BY <1>1 DEF VisitSound, Programmed, IInv
<1>3. chain = <<>>
  BY DEF StartJit, IInv, ChainSound
<1>4. visit' \subseteq Inner /\ contracted' \subseteq Inner /\ passes' \in 0 .. MaxPasses
  BY <1>1 DEF Programmed, StartJit, IInv, TypeOK
<1>5. QED
  BY <1>1, <1>2, <1>3, <1>4, QuietStep DEF StartJit

LEMMA ReturnIInv == IInv /\ Return => IInv'
<1> SUFFICES ASSUME IInv, Return PROVE IInv'
  OBVIOUS
<1>1. VisitSound'
  BY DEF Return, IInv, VisitSound, Programmed
<1>2. /\ visit' \subseteq Inner /\ contracted' \subseteq Inner /\ passes' \in 0 .. MaxPasses
      /\ jitted' \in BOOLEAN
  BY DEF Return, IInv, TypeOK
<1>3. QED
  BY <1>1, <1>2, QuietStep DEF Return

(* A node is visited, and nothing is done; or the process ends. *)
LEMMA LeaveIInv ==
  ASSUME IInv, NEW u \in Inner, Pass(u) \/ SkipJit(u) \/ Abort(u)
  PROVE  IInv'
<1>1. VisitSound'
  <2>1. visit' \subseteq visit /\ contracted' = contracted /\ g' = g /\ (pc' = pc \/ pc' = "aborted")
    BY DEF Pass, SkipJit, Abort
  <2>2. pc # "idle"
    BY DEF Pass, SkipJit, Abort
  <2>3. QED
    BY <2>1, <2>2 DEF IInv, VisitSound, Programmed
<1>2. UNCHANGED <<g, prog, recorded, chain, heap, serial>>
  BY DEF Pass, SkipJit, Abort
<1>3. chain # <<>> => pc' = "prog-fuse"
  BY DEF Pass, SkipJit, Abort, IInv, ChainSound
<1>4. pc' \in {"idle", "prog-fuse", "jit", "aborted"}
  BY DEF Pass, SkipJit, Abort
<1>5. /\ visit' \subseteq Inner /\ contracted' \subseteq Inner /\ passes' \in 0 .. MaxPasses
      /\ jitted' \in BOOLEAN
  BY DEF Pass, SkipJit, Abort, IInv, TypeOK
<1>6. QED
  BY <1>1, <1>2, <1>3, <1>4, <1>5, QuietStep

LEMMA ContractIInv == IInv /\ Contract => IInv'
<1> SUFFICES ASSUME IInv, Contract PROVE IInv'
  OBVIOUS
<1> DEFINE u == chain[1]
           v == chain[2]
<1>1. /\ Len(chain) > 1 /\ g' = ContractUV(g, u, v) /\ contracted' = contracted \union {v}
      /\ chain' = Rest(chain)
      /\ UNCHANGED <<prog, recorded, pc, visit, heap, serial, passes, jitted>>
  BY DEF Contract, Rest
<1>2. /\ u \in Programmed /\ v \in Programmed /\ u # v
      /\ Dag(g') /\ Coherent(g') /\ entry \in g'.members /\ exit \in g'.members
      /\ g'.members = g.members \ {v} /\ g'.type = g.type
      /\ After(g', entry) = g'.members
  BY <1>1, ContractFacts
<1>3. /\ chain' \in Seq(Inner \cap g'.members) /\ (chain' # <<>> => Len(chain') > 1)
      /\ \A k \in 1 .. Len(chain') - 1 : AreSequence(g', chain'[k], chain'[k + 1])
  BY <1>1, ContractRest
<1> HIDE DEF u, v
<1>4. pc = "prog-fuse"
  BY <1>1 DEF IInv, ChainSound
<1>5. GraphSound'
  BY <1>2 DEF GraphSound
<1>6. ChainSound'
  BY <1>1, <1>3, <1>4 DEF ChainSound, Programmed
<1>7. VisitSound'
  BY <1>1, <1>2, <1>4 DEF IInv, VisitSound, Programmed
<1>8. ProgramsSound'
  BY <1>1 DEF IInv, ProgramsSound
<1>9. TypeOK' /\ serial' \in Nat
  <2>1. contracted' \subseteq Inner
    BY <1>1, <1>2 DEF IInv, TypeOK, Programmed
  <2>2. g' \in Graphs
    BY <1>2 DEF Dag
  <2>3. QED
    BY <1>1, <1>3, <2>1, <2>2 DEF IInv, TypeOK
<1>10. QED
  BY <1>5, <1>6, <1>7, <1>8, <1>9 DEF IInv

LEMMA RemoveControlIInv ==
  ASSUME IInv, NEW u \in Inner, RemoveControl(u)
  PROVE  IInv'
<1>1. /\ pc = "idle" /\ u \in g.members /\ g.type[u] = "EMPTY" /\ g' = Remove(g, u)
      /\ UNCHANGED <<prog, recorded, pc, visit, contracted, chain, heap, serial, passes, jitted>>
  BY DEF RemoveControl
<1>2. Dag(g) /\ Coherent(g) /\ entry \in g.members /\ exit \in g.members /\ After(g, entry) = g.members
  BY DEF IInv, GraphSound
<1>3. chain = <<>>
  BY <1>1 DEF IInv, ChainSound
<1>4. g'.members = g.members \ {u} /\ g'.type = g.type
  BY <1>1, <1>2, RemoveKeepsType DEF Dag
<1>5. u # entry /\ u # exit
  BY DEF Inner
<1>6. Dag(g')
  BY <1>1, <1>2, RemoveType, RemoveMirrored, RemoveSimple, RemoveAcyclic DEF Dag
<1>7. Coherent(g')
  <2>1. <<entry, u>> \in Paths(g) /\ u \in g.members \ {entry, exit}
    BY <1>1, <1>2, <1>5 DEF After
  <2>2. QED
    BY <1>1, <1>2, <2>1, RemoveCoherent DEF Dag
<1>8. After(g', entry) = g'.members
  <2>1. ASSUME NEW b \in g'.members PROVE <<entry, b>> \in Paths(g')
    <3>1. <<entry, b>> \in Paths(g) /\ b \in g.members \ {u} /\ entry \in g.members \ {u}
      BY <1>2, <1>4, <1>5 DEF After
    <3>2. QED
      BY <1>1, <1>2, <3>1, RemovePaths DEF Dag
  <2>2. QED
    BY <2>1 DEF After
<1>9. GraphSound'
  BY <1>2, <1>4, <1>5, <1>6, <1>7, <1>8 DEF GraphSound
<1>10. ChainSound'
  BY <1>1, <1>3 DEF ChainSound
<1>11. VisitSound'
  BY <1>1, <1>4 DEF IInv, VisitSound
<1>12. ProgramsSound'
  BY <1>1 DEF IInv, ProgramsSound
<1>13. TypeOK' /\ serial' \in Nat
  <2>1. g' \in Graphs
    BY <1>6 DEF Dag
  <2>2. \A k \in 1 .. Len(chain') - 1 : AreSequence(g', chain'[k], chain'[k + 1])
    BY <1>1, <1>3
  <2>3. QED
    BY <1>1, <2>1, <2>2 DEF IInv, TypeOK
<1>14. QED
  BY <1>9, <1>10, <1>11, <1>12, <1>13 DEF IInv
-----------------------------------------------------------------------------
LEMMA CallsAreSequence ==
  ASSUME NEW s, AreCalls(s)
  PROVE  /\ Len(s) \in Nat /\ DOMAIN s = 1 .. Len(s) /\ s = [k \in 1 .. Len(s) |-> s[k]]
         /\ \A k \in 1 .. Len(s) : DOMAIN s[k] = {"kernel", "reads"}
BY DEF AreCalls

LEMMA SequenceOf ==
  ASSUME NEW n \in Nat, NEW s, NEW X, s = [k \in 1 .. n |-> s[k]], \A k \in 1 .. n : s[k] \in X
  PROVE  s \in Seq(X) /\ Len(s) = n
<1>1. s \in [1 .. n -> X]
  OBVIOUS
<1>2. QED
  BY <1>1

(* Moving the arguments of its calls leaves what a program calls. *)
CallsKept(s, t) ==
  /\ t = [k \in DOMAIN s |-> t[k]]
  /\ \A k \in DOMAIN s : DOMAIN t[k] = DOMAIN s[k] /\ t[k].kernel = s[k].kernel

LEMMA MovedCalls ==
  ASSUME NEW s, AreCalls(s), NEW t, CallsKept(s, t)
  PROVE  /\ AreCalls(t) /\ Len(t) = Len(s)
         /\ \A k \in 1 .. Len(s) : t[k].kernel = s[k].kernel
<1>1. Len(s) \in Nat /\ DOMAIN s = 1 .. Len(s) /\ \A k \in 1 .. Len(s) : DOMAIN s[k] = {"kernel", "reads"}
  BY CallsAreSequence
<1>2. \A k \in 1 .. Len(s) : DOMAIN t[k] = {"kernel", "reads"} /\ t[k].kernel = s[k].kernel
  BY <1>1 DEF CallsKept
<1>3. t = [k \in 1 .. Len(s) |-> t[k]] /\ DOMAIN t = 1 .. Len(s)
  BY <1>1 DEF CallsKept
<1>4. t \in Seq({t[k] : k \in DOMAIN t}) /\ Len(t) = Len(s)
  <2> DEFINE n == Len(s)
             X == {t[k] : k \in DOMAIN t}
  <2>1. n \in Nat /\ t = [k \in 1 .. n |-> t[k]] /\ \A k \in 1 .. n : t[k] \in X
    BY <1>1, <1>3
  <2> HIDE DEF n, X
  <2>2. t \in Seq(X) /\ Len(t) = n
    BY <2>1, SequenceOf
  <2>3. QED
    BY <2>2 DEF n, X
<1>5. QED
  BY <1>2, <1>3, <1>4 DEF AreCalls

(***************************************************************************)
(* The calls of a fused program are those of its inputs, one input after   *)
(* the other: pos[q] is the input, and the call of it, that call q was.    *)
(***************************************************************************)
Merged(s, ss, n) ==
  \E pos \in [1 .. Len(s) -> Items(ss, n)] :
    /\ \A q \in 1 .. Len(s) : s[q].kernel = ss[pos[q][1]][pos[q][2]].kernel
    /\ \A x \in Items(ss, n) : \E q \in 1 .. Len(s) : pos[q] = x
    /\ \A q, r \in 1 .. Len(s) : q < r <=> Earlier(pos[q], pos[r])

LEMMA CallsOf ==
  ASSUME NEW ps, NEW n \in Nat, DOMAIN ps = 1 .. n, \A i \in 1 .. n : AreCalls(ps[i].calls),
         NEW at, NEW s, s = Calls(ps, at),
         NEW ss, ss = [i \in 1 .. n |-> ps[i].calls]
  PROVE  AreCalls(s) /\ Merged(s, ss, n)
<1> DEFINE Moved(i) == [c \in DOMAIN ps[i].calls |-> [ps[i].calls[c] EXCEPT
                         !.reads = [j \in DOMAIN @ |-> IF @[j] = Nowhere THEN Nowhere
                                                       ELSE at[Place(ps, i, @[j])]]]]
           T == [i \in 1 .. n |-> IF Entry(ps[i]) = ps[i].entry THEN Moved(i) ELSE Misread(ps[i].calls)]
           X == UNION {{T[i][c] : c \in 1 .. Len(T[i])} : i \in 1 .. n}
<1>1. s = Seqs!FlattenSeq(T)
  BY DEF Calls
<1>2. ASSUME NEW i \in 1 .. n
      PROVE  /\ AreCalls(T[i]) /\ Len(T[i]) = Len(ss[i])
             /\ \A k \in 1 .. Len(ss[i]) : T[i][k].kernel = ss[i][k].kernel
  <2> DEFINE calls == ps[i].calls
  <2>1. AreCalls(calls) /\ ss[i] = calls
    OBVIOUS
  <2>2. T[i] = IF Entry(ps[i]) = ps[i].entry THEN Moved(i) ELSE Misread(calls)
    OBVIOUS
  <2> DEFINE t == T[i]
  <2>3. \A k \in DOMAIN calls : DOMAIN calls[k] = {"kernel", "reads"}
    BY <2>1, CallsAreSequence
  <2>4. CallsKept(calls, t)
    <3>1. CASE Entry(ps[i]) = ps[i].entry
      <4>1. t = Moved(i)
        BY <2>2, <3>1
      <4> HIDE DEF t
      <4>2. QED
        BY <2>3, <4>1 DEF CallsKept
    <3>2. CASE Entry(ps[i]) # ps[i].entry
      <4>1. t = Misread(calls)
        BY <2>2, <3>2
      <4> HIDE DEF t
      <4>2. QED
        BY <2>3, <4>1 DEF CallsKept, Misread
    <3>3. QED
      BY <3>1, <3>2
  <2> HIDE DEF calls, t
  <2>5. AreCalls(t) /\ Len(t) = Len(calls) /\ \A k \in 1 .. Len(calls) : t[k].kernel = calls[k].kernel
    BY <2>1, <2>4, MovedCalls
  <2>6. QED
    BY ZenonT(60), <2>1, <2>5 DEF t
<1>3. T = [i \in 1 .. n |-> T[i]]
  OBVIOUS
<1> HIDE DEF T
<1>4. ASSUME NEW i \in 1 .. n PROVE T[i] \in Seq(X)
  <2>1. Len(T[i]) \in Nat /\ T[i] = [k \in 1 .. Len(T[i]) |-> T[i][k]]
    BY <1>2, CallsAreSequence
  <2>2. \A k \in 1 .. Len(T[i]) : T[i][k] \in X
    OBVIOUS
  <2> DEFINE t == T[i]
             l == Len(t)
  <2>3. l \in Nat /\ t = [k \in 1 .. l |-> t[k]] /\ \A k \in 1 .. l : t[k] \in X
    BY <2>1, <2>2
  <2> HIDE DEF X, t, l
  <2>4. t \in Seq(X)
    BY <2>3, SequenceOf
  <2>5. QED
    BY <2>4 DEF t
<1>5. T \in Seq(Seq(X)) /\ Len(T) = n
  <2> DEFINE Y == Seq(X)
  <2>1. \A i \in 1 .. n : T[i] \in Y
    BY <1>4
  <2> HIDE DEF Y
  <2>2. T \in Seq(Y) /\ Len(T) = n
    BY <1>3, <2>1, SequenceOf
  <2>3. QED
    BY <2>2 DEF Y
<1>6. ASSUME NEW x \in X PROVE DOMAIN x = {"kernel", "reads"}
  <2>1. PICK i \in 1 .. n : \E c \in 1 .. Len(T[i]) : x = T[i][c]
    OBVIOUS
  <2> DEFINE t == T[i]
  <2>2. AreCalls(t) /\ \E c \in 1 .. Len(t) : x = t[c]
    BY <1>2, <2>1
  <2> HIDE DEF t
  <2>3. QED
    BY <2>2, CallsAreSequence
<1> HIDE DEF X
<1>7. PICK pos : IsFlat(T, n, X, s, pos)
  BY <1>1, <1>5, FlatOf
<1>8. Items(T, n) = Items(ss, n)
  BY <1>2 DEF Items
<1>9. s \in Seq(X)
  BY <1>7 DEF IsFlat
<1>10. AreCalls(s)
  <2>1. Len(s) \in Nat /\ DOMAIN s = 1 .. Len(s) /\ s = [k \in 1 .. Len(s) |-> s[k]]
        /\ \A k \in 1 .. Len(s) : s[k] \in X
    BY <1>9
  <2> DEFINE Z == {s[k] : k \in DOMAIN s}
  <2>2. \A k \in 1 .. Len(s) : s[k] \in Z
    BY <2>1
  <2> HIDE DEF Z
  <2>3. s \in Seq(Z)
    BY <2>1, <2>2, SequenceOf
  <2>4. QED
    BY <1>6, <2>1, <2>3 DEF AreCalls, Z
<1>11. ASSUME NEW q \in 1 .. Len(s)
       PROVE  s[q].kernel = ss[pos[q][1]][pos[q][2]].kernel
  <2>1. s[q] = T[pos[q][1]][pos[q][2]] /\ pos[q] \in Items(ss, n)
    BY <1>7, <1>8 DEF IsFlat
  <2>2. pos[q][1] \in 1 .. n /\ pos[q][2] \in 1 .. Len(ss[pos[q][1]])
    BY <2>1 DEF Items
  <2>3. QED
    BY ZenonT(60), <1>2, <2>1, <2>2
<1>12. pos \in [1 .. Len(s) -> Items(ss, n)]
  BY <1>7, <1>8 DEF IsFlat
<1>13. /\ \A x \in Items(ss, n) : \E q \in 1 .. Len(s) : pos[q] = x
       /\ \A q, r \in 1 .. Len(s) : q < r <=> Earlier(pos[q], pos[r])
  BY <1>7, <1>8 DEF IsFlat
<1>14. QED
  BY <1>10, <1>11, <1>12, <1>13 DEF Merged

(* What jit leaves of a program. *)
LEMMA CompiledFields ==
  ASSUME NEW p, DOMAIN p = Fields, p.target \in {"host", "device"}, AreCalls(p.calls),
         NEW own, ~(p.target = "device" \/ Unbuffered(p)) => own = p.owned,
         NEW q, q = Compiled(p, own)
  PROVE  /\ DOMAIN q = Fields /\ q.owned = own /\ q.target = p.target
         /\ q.source \in {p.source, "PTX"} /\ CallsKept(p.calls, q.calls)
<1>1. /\ "source" \in Fields /\ "owned" \in Fields /\ "calls" \in Fields /\ "target" \in Fields
      /\ "entry" \in Fields /\ "bytes" \in Fields /\ "slots" \in Fields
  BY DEF Fields
<1>2. p.calls = [k \in DOMAIN p.calls |-> p.calls[k]]
      /\ \A k \in DOMAIN p.calls : DOMAIN p.calls[k] = {"kernel", "reads"}
  <2> DEFINE s == p.calls
  <2>1. AreCalls(s)
    OBVIOUS
  <2> HIDE DEF s
  <2>2. DOMAIN s = 1 .. Len(s) /\ s = [k \in 1 .. Len(s) |-> s[k]]
        /\ \A k \in 1 .. Len(s) : DOMAIN s[k] = {"kernel", "reads"}
    BY <2>1, CallsAreSequence
  <2>3. s = [k \in DOMAIN s |-> s[k]] /\ \A k \in DOMAIN s : DOMAIN s[k] = {"kernel", "reads"}
    BY <2>2
  <2>4. QED
    BY <2>3 DEF s
<1> DEFINE offsets == [j \in DOMAIN p.slots |-> p.slots[j].offset]
           size == Seqs!Max({offsets[j] + Size(p.slots[j]) : j \in DOMAIN p.slots} \union {1})
           buffer == Buffer(p.slots, offsets, size)
           loaded == Loaded(p.calls, offsets)
<1>3. /\ p.target = "device" => q = [p EXCEPT !.source = "PTX", !.owned = own]
      /\ p.target = "host" /\ Shape(p) # p.entry =>
           q = [p EXCEPT !.entry = Shape(p), !.calls = Misread(p.calls), !.owned = own]
      /\ p.target = "host" /\ Shape(p) = p.entry /\ Unbuffered(p) =>
           q = [p EXCEPT !.bytes = buffer, !.slots = <<>>, !.owned = own, !.calls = loaded]
      /\ p.target = "host" /\ Shape(p) = p.entry /\ ~Unbuffered(p) =>
           q = [p EXCEPT !.entry = IF @ = "values" THEN "pointers" ELSE @]
  BY SMTT(40) DEF Compiled
<1>4. CallsKept(p.calls, loaded)
  BY <1>2 DEF CallsKept, Loaded
<1>5. CallsKept(p.calls, Misread(p.calls))
  BY <1>2 DEF CallsKept, Misread
<1>6. CallsKept(p.calls, p.calls)
  BY <1>2 DEF CallsKept
<1> HIDE DEF offsets, size, buffer, loaded
<1>7. CASE p.target = "device"
  <2>1. q = [p EXCEPT !.source = "PTX", !.owned = own]
    BY <1>3, <1>7
  <2>2. QED
    BY <1>1, <1>6, <2>1
<1>8. CASE p.target = "host" /\ Shape(p) # p.entry
  <2>1. q = [p EXCEPT !.entry = Shape(p), !.calls = Misread(p.calls), !.owned = own]
    BY <1>3, <1>8
  <2>2. QED
    BY <1>1, <1>5, <2>1
<1>9. CASE p.target = "host" /\ Shape(p) = p.entry /\ Unbuffered(p)
  <2>1. q = [p EXCEPT !.bytes = buffer, !.slots = <<>>, !.owned = own, !.calls = loaded]
    BY <1>3, <1>9
  <2>2. QED
    BY <1>1, <1>4, <2>1
<1>10. CASE p.target = "host" /\ Shape(p) = p.entry /\ ~Unbuffered(p)
  <2>1. q = [p EXCEPT !.entry = IF @ = "values" THEN "pointers" ELSE @] /\ own = p.owned
    BY <1>3, <1>10
  <2>2. QED
    BY <1>1, <1>6, <2>1
<1>11. QED
  BY <1>7, <1>8, <1>9, <1>10

LEMMA CompileIInv ==
  ASSUME IInv, NEW u \in Inner, Compile(u)
  PROVE  /\ IInv'
         /\ CallsKept(prog[u].calls, prog'[u].calls)
         /\ \A x \in Inner \ {u} : prog'[x] = prog[x]
         /\ \E old, new : /\ prog'[u].owned = (prog[u].owned \ old) \union new
                          /\ old \subseteq prog[u].owned /\ heap' = (heap \ old) \union new
                          /\ \A b \in new : b[1] = serial
<1> DEFINE p == prog[u]
           new == IF p.target = "device" THEN {<<serial, "raw">>}
                  ELSE IF Unbuffered(p) THEN {<<serial, "args">>} ELSE {}
           old == {b \in p.owned : \E n \in new : b[2] = n[2]}
           own == (p.owned \ old) \union new
<1>1. /\ pc = "jit" /\ IsLLVMIR(u)
      /\ prog' = [prog EXCEPT ![u] = Compiled(p, own)]
      /\ heap' = (heap \ old) \union new
      /\ serial' = IF new = {} THEN serial ELSE serial + 1
      /\ visit' = visit \ {u}
      /\ UNCHANGED <<g, recorded, pc, contracted, chain, passes, jitted>>
  BY DEF Compile
<1>2. /\ DOMAIN p = Fields /\ p.target \in {"host", "device"} /\ AreCalls(p.calls)
      /\ recorded.prog[u].source = "LLVMIR" /\ DOMAIN prog = Inner
  BY <1>1 DEF IInv, ProgramsSound, IsLLVMIR, TypeOK
<1>3. ~(p.target = "device" \/ Unbuffered(p)) => new = {} /\ old = {} /\ own = p.owned
  OBVIOUS
<1>4. /\ \A b \in new : b[1] = serial
      /\ new \subseteq {serial} \X {"raw", "args", "externs"}
      /\ old \subseteq p.owned
  OBVIOUS
<1> HIDE DEF new, old, p, own
<1>5. prog'[u] = Compiled(p, own) /\ DOMAIN prog' = Inner /\ \A x \in Inner \ {u} : prog'[x] = prog[x]
  BY <1>1, <1>2
<1> DEFINE q == prog'[u]
<1>6. q = Compiled(p, own)
  BY <1>5
<1> HIDE DEF q
<1>7. /\ DOMAIN q = Fields /\ q.owned = own /\ q.target = p.target
      /\ q.source \in {p.source, "PTX"} /\ CallsKept(p.calls, q.calls)
  BY <1>2, <1>3, <1>6, CompiledFields
<1>8. AreCalls(q.calls)
  <2> DEFINE s == p.calls
             t == q.calls
  <2>1. AreCalls(s) /\ CallsKept(s, t)
    BY <1>2, <1>7
  <2> HIDE DEF s, t
  <2>2. AreCalls(t)
    BY <2>1, MovedCalls
  <2>3. QED
    BY <2>2 DEF t
<1>9. ProgramsSound'
  <2>1. ASSUME NEW x \in Inner
        PROVE  /\ DOMAIN prog'[x] = Fields /\ prog'[x].target \in {"host", "device"}
               /\ prog'[x].source = "LLVMIR" => recorded.prog[x].source = "LLVMIR"
               /\ recorded.prog[x].source = "LLVMIR" => AreCalls(prog'[x].calls)
    <3>1. CASE x = u
      BY <1>2, <1>7, <1>8, <3>1 DEF q
    <3>2. CASE x # u
      BY <1>5, <3>2 DEF IInv, ProgramsSound
    <3>3. QED
      BY <3>1, <3>2
  <2>2. QED
    BY <1>1, <2>1 DEF ProgramsSound
<1>10. GraphSound' /\ ChainSound'
  BY <1>1 DEF IInv, GraphSound, Dag, Coherent, ChainSound, Programmed
<1>11. VisitSound'
  BY <1>1 DEF IInv, VisitSound, Programmed
<1>12. TypeOK' /\ serial' \in Nat
  <2>1. serial \in Nat /\ heap \subseteq (0 .. serial - 1) \X {"raw", "args", "externs"}
    BY DEF IInv, TypeOK
  <2>2. serial' \in Nat /\ 0 .. serial - 1 \subseteq 0 .. serial' - 1
    BY <1>1, <2>1
  <2>3. new # {} => serial \in 0 .. serial' - 1
    BY <1>1, <2>1
  <2>4. heap' \subseteq (0 .. serial' - 1) \X {"raw", "args", "externs"}
    BY <1>1, <1>4, <2>1, <2>2, <2>3
  <2>5. QED
    BY <1>1, <1>5, <2>2, <2>4 DEF IInv, TypeOK
<1>13. IInv'
  BY <1>9, <1>10, <1>11, <1>12 DEF IInv
<1>14. QED
  BY <1>1, <1>4, <1>5, <1>7, <1>13 DEF p, q, own
-----------------------------------------------------------------------------
(* The calls that a chain brings into the fusion of its programs. *)
ChainCalls(c) == [i \in 1 .. Len(c) |-> prog[c[i]].calls]

(* What Fuse does, from the head of the chain on. *)
LEMMA FuseFacts ==
  ASSUME IInv, NEW u \in Inner, Fuse(u), NEW c, c = Chain(u)
  PROVE  /\ pc = "prog-fuse" /\ chain = <<>> /\ u \in visit
         /\ u \in Programmed /\ IsChain(u, u, c) /\ Run(g, c) /\ Len(c) \in Nat /\ Len(c) > 1
         /\ \A k \in 1 .. Len(c) : c[k] \in Programmed /\ IsLLVMIR(c[k]) /\ LaunchParamsEqual(u, c[k])
         /\ \A i, j \in 1 .. Len(c) : i # j => c[i] # c[j]
         /\ c[1] = u
         /\ chain' = c /\ visit' = visit \ {u} /\ serial' = serial + 1
         /\ UNCHANGED <<g, recorded, pc, contracted, passes, jitted>>
         /\ DOMAIN prog' = Inner /\ DOMAIN prog'[u] = Fields
         /\ prog'[u].owned \subseteq {serial} \X {"raw", "args", "externs"}
         /\ heap' = (heap \ OwnedBy(Links(c))) \union prog'[u].owned
         /\ prog'[u].source = prog[u].source /\ prog'[u].mode = prog[u].mode
         /\ prog'[u].grid = prog[u].grid /\ prog'[u].target = prog[u].target
         /\ \A x \in Inner \ {u} :
              /\ DOMAIN prog'[x] = Fields
              /\ prog'[x].mode = prog[x].mode /\ prog'[x].grid = prog[x].grid
              /\ prog'[x].target = prog[x].target /\ prog'[x].calls = prog[x].calls
              /\ prog'[x].source \in {prog[x].source, "none"}
              /\ prog'[x].owned = IF x \in Links(c) THEN {} ELSE prog[x].owned
         /\ AreCalls(prog'[u].calls) /\ Merged(prog'[u].calls, ChainCalls(c), Len(c))
<1>1. /\ u \in Programmed /\ IsChain(u, u, c) /\ Run(g, c) /\ Len(c) > 1
      /\ \A k \in 1 .. Len(c) : IsLLVMIR(c[k]) /\ LaunchParamsEqual(u, c[k])
  BY HeadChain DEF Fuse
<1>2. c \in Seq(Programmed) /\ Len(c) \in Nat /\ c[1] = u /\ DOMAIN c = 1 .. Len(c)
      /\ \A k \in 1 .. Len(c) : c[k] \in Programmed /\ c[k] \in Inner
  BY <1>1 DEF IsChain, Programmed
<1>3. \A i, j \in 1 .. Len(c) : i # j => c[i] # c[j]
  <2>1. Dag(g)
    BY DEF IInv, GraphSound
  <2>2. ASSUME NEW i \in 1 .. Len(c), NEW j \in 1 .. Len(c), i < j PROVE c[i] # c[j]
    BY ZenonT(60), <1>1, <2>1, <2>2, RunPaths
  <2>3. ASSUME NEW i \in 1 .. Len(c), NEW j \in 1 .. Len(c), i # j PROVE c[i] # c[j]
    <3>1. i < j \/ j < i
      BY <1>2, <2>3
    <3>2. QED
      BY <2>2, <3>1
  <2>4. QED
    BY <2>3
<1> DEFINE ps == Programs(c)
           own == {<<serial, part>> : part \in {"raw", "args"} \union
                     (IF Externs(ps) = {} THEN {} ELSE {"externs"})}
           fused == Fused(ps, own)
<1>4. /\ prog' = Inputs(c, fused)
      /\ heap' = (heap \ OwnedBy({c[k] : k \in DOMAIN c})) \union own
      /\ chain' = c /\ visit' = visit \ {u} /\ serial' = serial + 1
      /\ pc = "prog-fuse" /\ chain = <<>> /\ u \in visit
      /\ UNCHANGED <<g, recorded, pc, contracted, passes, jitted>>
  BY DEF Fuse, Reached
<1>5. own \subseteq {serial} \X {"raw", "args", "externs"}
  OBVIOUS
<1>6. DOMAIN ps = 1 .. Len(c) /\ \A k \in 1 .. Len(c) : ps[k] = prog[c[k]]
  BY <1>2 DEF Programs
<1>7. /\ \A x \in Inner : DOMAIN prog[x] = Fields
      /\ \A x \in Inner : prog[x].source = "LLVMIR" => AreCalls(prog[x].calls)
  BY DEF IInv, ProgramsSound
<1>8. ps[1] = prog[u] /\ DOMAIN ps[1] = Fields
  BY <1>1, <1>2, <1>6, <1>7
<1> HIDE DEF own, ps
<1>9. /\ DOMAIN fused = Fields /\ fused.owned = own
      /\ fused.source = ps[1].source /\ fused.mode = ps[1].mode /\ fused.grid = ps[1].grid
      /\ fused.target = ps[1].target
      /\ \E at : fused.calls = Calls(ps, at)
  BY <1>8, FusedFields
<1> HIDE DEF fused
<1>10. \A k \in 2 .. Len(c) : c[k] # c[1]
  BY <1>1, <1>2, <1>3
<1>11. /\ DOMAIN prog' = Inner /\ prog'[c[1]] = fused
       /\ \A x \in Inner \ {c[1]} :
              /\ DOMAIN prog'[x] = Fields
              /\ prog'[x].mode = prog[x].mode /\ prog'[x].grid = prog[x].grid
              /\ prog'[x].target = prog[x].target /\ prog'[x].calls = prog[x].calls
              /\ prog'[x].source \in {prog[x].source, "none"}
              /\ prog'[x].owned = IF x \in Links(c) THEN {} ELSE prog[x].owned
  <2> DEFINE S == Programmed
  <2>1. ProgramsSound /\ c \in Seq(S) /\ Len(c) > 1 /\ c[1] \in Inner
    BY <1>1, <1>2 DEF IInv
  <2> HIDE DEF S
  <2>2. QED
    BY <1>4, <1>9, <1>10, <2>1, InputsFields DEF Links
<1> DEFINE ss == ChainCalls(c)
           n == Len(c)
           s == fused.calls
<1>12. \A i \in 1 .. n : AreCalls(ps[i].calls)
  BY <1>1, <1>2, <1>6, <1>7 DEF IsLLVMIR
<1>13. ss = [i \in 1 .. n |-> ps[i].calls]
  BY <1>6 DEF ChainCalls
<1>14. n \in Nat /\ DOMAIN ps = 1 .. n
  BY <1>2, <1>6
<1>15. PICK at : s = Calls(ps, at)
  BY <1>9
<1> HIDE DEF ss, n, s
<1>16. AreCalls(s) /\ Merged(s, ss, n)
  BY <1>12, <1>13, <1>14, <1>15, CallsOf
<1>17. prog'[u] = fused
  BY <1>2, <1>11
<1>18. heap' = (heap \ OwnedBy(Links(c))) \union prog'[u].owned
  <2>1. {c[k] : k \in DOMAIN c} = Links(c)
    BY <1>2 DEF Links
  <2>2. QED
    BY <1>4, <1>9, <1>17, <2>1
<1>19. AreCalls(prog'[u].calls) /\ Merged(prog'[u].calls, ChainCalls(c), Len(c))
  BY <1>16, <1>17 DEF ss, n, s
<1>20. /\ DOMAIN prog'[u] = Fields /\ prog'[u].owned \subseteq {serial} \X {"raw", "args", "externs"}
       /\ prog'[u].source = prog[u].source /\ prog'[u].mode = prog[u].mode
       /\ prog'[u].grid = prog[u].grid /\ prog'[u].target = prog[u].target
  BY <1>5, <1>8, <1>9, <1>17
<1>21. \A x \in Inner \ {u} :
              /\ DOMAIN prog'[x] = Fields
              /\ prog'[x].mode = prog[x].mode /\ prog'[x].grid = prog[x].grid
              /\ prog'[x].target = prog[x].target /\ prog'[x].calls = prog[x].calls
              /\ prog'[x].source \in {prog[x].source, "none"}
              /\ prog'[x].owned = IF x \in Links(c) THEN {} ELSE prog[x].owned
  BY <1>2, <1>11
<1>22. QED
  BY <1>1, <1>2, <1>3, <1>4, <1>11, <1>18, <1>19, <1>20, <1>21

LEMMA FuseIInv ==
  ASSUME IInv, NEW u \in Inner, Fuse(u)
  PROVE  IInv'
<1> DEFINE c == Chain(u)
<1>10. c = Chain(u)
  OBVIOUS
<1> HIDE DEF c
<1>1. /\ pc = "prog-fuse" /\ chain = <<>>
      /\ u \in Programmed /\ IsChain(u, u, c) /\ Run(g, c) /\ Len(c) > 1
      /\ chain' = c /\ visit' = visit \ {u} /\ serial' = serial + 1
      /\ UNCHANGED <<g, recorded, pc, contracted, passes, jitted>>
      /\ DOMAIN prog' = Inner /\ DOMAIN prog'[u] = Fields
      /\ prog'[u].owned \subseteq {serial} \X {"raw", "args", "externs"}
      /\ heap' = (heap \ OwnedBy(Links(c))) \union prog'[u].owned
      /\ prog'[u].source = prog[u].source /\ prog'[u].target = prog[u].target
  BY <1>10, FuseFacts
<1>2. \A x \in Inner \ {u} :
              /\ DOMAIN prog'[x] = Fields
              /\ prog'[x].target = prog[x].target /\ prog'[x].calls = prog[x].calls
              /\ prog'[x].source \in {prog[x].source, "none"}
  BY <1>10, FuseFacts
<1>3. AreCalls(prog'[u].calls)
  BY <1>10, FuseFacts
<1>4. GraphSound'
  BY <1>1 DEF IInv, GraphSound, Dag, Coherent
<1>5. ChainSound'
  BY <1>1 DEF ChainSound, IsChain, Programmed
<1>6. VisitSound'
  BY <1>1 DEF IInv, VisitSound, Programmed
<1>7. ProgramsSound'
  <2>1. \A x \in Inner :
          /\ DOMAIN prog[x] = Fields /\ prog[x].target \in {"host", "device"}
          /\ prog[x].source = "LLVMIR" => recorded.prog[x].source = "LLVMIR"
          /\ recorded.prog[x].source = "LLVMIR" => AreCalls(prog[x].calls)
    BY DEF IInv, ProgramsSound
  <2>2. ASSUME NEW x \in Inner
        PROVE  /\ DOMAIN prog'[x] = Fields /\ prog'[x].target \in {"host", "device"}
               /\ prog'[x].source = "LLVMIR" => recorded.prog[x].source = "LLVMIR"
               /\ recorded.prog[x].source = "LLVMIR" => AreCalls(prog'[x].calls)
    <3>1. CASE x = u
      BY <1>1, <1>3, <2>1, <3>1
    <3>2. CASE x # u
      BY <1>2, <2>1, <3>2
    <3>3. QED
      BY <3>1, <3>2
  <2>3. QED
    BY <1>1, <2>2 DEF ProgramsSound
<1>8. TypeOK' /\ serial' \in Nat
  <2>1. serial \in Nat /\ heap \subseteq (0 .. serial - 1) \X {"raw", "args", "externs"}
    BY DEF IInv, TypeOK
  <2>2. serial' \in Nat /\ 0 .. serial - 1 \subseteq 0 .. serial' - 1 /\ serial \in 0 .. serial' - 1
    BY <1>1, <2>1
  <2>3. heap' \subseteq (0 .. serial' - 1) \X {"raw", "args", "externs"}
    BY <1>1, <2>1, <2>2
  <2>4. \A k \in 1 .. Len(c) - 1 : AreSequence(g, c[k], c[k + 1])
    BY <1>1 DEF Run
  <2>5. visit' \subseteq Inner /\ pc' \in {"idle", "prog-fuse", "jit", "aborted"} /\ g' \in Graphs
        /\ contracted' \subseteq Inner /\ passes' \in 0 .. MaxPasses /\ jitted' \in BOOLEAN
    BY <1>1 DEF IInv, TypeOK
  <2>6. \A k \in 1 .. Len(chain') - 1 : AreSequence(g', chain'[k], chain'[k + 1])
    BY <1>1, <2>4
  <2>7. QED
    BY <1>1, <2>2, <2>3, <2>5, <2>6 DEF TypeOK
<1>9. QED
  BY <1>4, <1>5, <1>6, <1>7, <1>8 DEF IInv

LEMMA StutterIInv == IInv /\ UNCHANGED vars => IInv'
BY DEF vars, IInv, TypeOK, GraphSound, Dag, Coherent, ChainSound, VisitSound, ProgramsSound, Programmed

LEMMA NextIInv == IInv /\ [Next]_vars => IInv'
<1> SUFFICES ASSUME IInv, [Next]_vars PROVE IInv'
  OBVIOUS
<1>1. CASE UNCHANGED vars
  BY <1>1, StutterIInv
<1>2. CASE StartProgFuse \/ Contract \/ Return \/ StartJit
  BY <1>2, StartProgFuseIInv, ContractIInv, ReturnIInv, StartJitIInv
<1>3. ASSUME NEW u \in Inner, Pass(u) \/ Abort(u) \/ SkipJit(u) PROVE IInv'
  BY <1>3, LeaveIInv
<1>4. ASSUME NEW u \in Inner, Fuse(u) PROVE IInv'
  BY <1>4, FuseIInv
<1>5. ASSUME NEW u \in Inner, RemoveControl(u) PROVE IInv'
  BY <1>5, RemoveControlIInv
<1>6. ASSUME NEW u \in Inner, Compile(u) PROVE IInv'
  BY <1>6, CompileIInv
<1>7. QED
  BY <1>1, <1>2, <1>3, <1>4, <1>5, <1>6 DEF Next

(* The graph stays a coherent acyclic graph, all of it behind the entry; the *)
(* chain that is being contracted stays a run of two programs at least; what *)
(* a pass still has to visit was listed by it; and every program has calls.  *)
THEOREM ProgFuseInvariant == Spec => []IInv
<1>1. Init => IInv
  BY InitIInv
<1>2. IInv /\ [Next]_vars => IInv'
  BY NextIInv
<1>3. QED
  BY <1>1, <1>2, PTL DEF Spec
-----------------------------------------------------------------------------
(* Owned, which holds inside a contraction and after abort() too, is kept. *)
LEMMA OwnedElements ==
  Owned <=> /\ \A b : b \in heap <=> \E x \in Inner : b \in prog[x].owned
            /\ \A x, y \in Inner : x # y => \A b \in prog[x].owned : b \notin prog[y].owned
<1>1. \A b : b \in OwnedBy(Inner) <=> \E x \in Inner : b \in prog[x].owned
  BY DEF OwnedBy
<1>2. OwnedBy(Inner) = heap <=> \A b : b \in heap <=> b \in OwnedBy(Inner)
  OBVIOUS
<1>3. ASSUME NEW x \in Inner, NEW y \in Inner
      PROVE  prog[x].owned \cap prog[y].owned = {} <=> \A b \in prog[x].owned : b \notin prog[y].owned
  OBVIOUS
<1>4. QED
  BY <1>1, <1>2, <1>3 DEF Owned

LEMMA FuseOwned ==
  ASSUME IInv, Owned, NEW u \in Inner, Fuse(u)
  PROVE  Owned'
<1> DEFINE c == Chain(u)
<1>1. c = Chain(u)
  OBVIOUS
<1> HIDE DEF c
<1>2. /\ \A k \in 1 .. Len(c) : c[k] \in Programmed
      /\ Len(c) \in Nat /\ Len(c) > 1 /\ c[1] = u
      /\ prog'[u].owned \subseteq {serial} \X {"raw", "args", "externs"}
      /\ heap' = (heap \ OwnedBy(Links(c))) \union prog'[u].owned
      /\ \A x \in Inner \ {u} : prog'[x].owned = IF x \in Links(c) THEN {} ELSE prog[x].owned
  BY <1>1, FuseFacts
<1>3. u \in Links(c) /\ Links(c) \subseteq Inner
  BY <1>2 DEF Links, Programmed
<1>4. \A b \in prog'[u].owned : b \notin heap
  BY <1>2 DEF IInv, TypeOK
<1>5. /\ \A b : b \in heap <=> \E x \in Inner : b \in prog[x].owned
      /\ \A x, y \in Inner : x # y => \A b \in prog[x].owned : b \notin prog[y].owned
  BY OwnedElements
<1>6. \A b : b \in OwnedBy(Links(c)) <=> \E x \in Links(c) : b \in prog[x].owned
  BY DEF OwnedBy
<1>7. ASSUME NEW b, b \in heap' PROVE \E x \in Inner : b \in prog'[x].owned
  <2>1. CASE b \in prog'[u].owned
    BY <2>1
  <2>2. CASE b \in heap /\ b \notin OwnedBy(Links(c))
    <3>1. PICK x \in Inner : b \in prog[x].owned
      BY <1>5, <2>2
    <3>2. x \notin Links(c) /\ x # u
      BY <1>3, <1>6, <2>2, <3>1
    <3>3. QED
      BY <1>2, <3>1, <3>2
  <2>3. QED
    BY <1>2, <1>7, <2>1, <2>2
<1>8. ASSUME NEW x \in Inner, x # u, NEW b \in prog'[x].owned
      PROVE  b \in heap /\ b \in prog[x].owned /\ x \notin Links(c)
  BY <1>2, <1>5, <1>8
<1>9. ASSUME NEW x \in Inner, NEW b, b \in prog'[x].owned PROVE b \in heap'
  <2>1. CASE x = u
    BY <1>2, <1>9, <2>1
  <2>2. CASE x # u
    <3>1. b \in heap /\ b \in prog[x].owned /\ x \notin Links(c)
      BY <1>8, <1>9, <2>2
    <3>2. b \notin OwnedBy(Links(c))
      BY <1>3, <1>5, <1>6, <3>1
    <3>3. QED
      BY <1>2, <3>1, <3>2
  <2>3. QED
    BY <2>1, <2>2
<1>10. ASSUME NEW x \in Inner, NEW y \in Inner, x # y, NEW b \in prog'[x].owned
       PROVE  b \notin prog'[y].owned
  BY <1>4, <1>5, <1>8, <1>10
<1>11. OwnedBy(Inner)' = heap'
  BY <1>7, <1>9 DEF OwnedBy
<1>12. \A x, y \in Inner : x # y => prog'[x].owned \cap prog'[y].owned = {}
  BY <1>10
<1>13. QED
  BY <1>11, <1>12 DEF Owned

LEMMA CompileOwned ==
  ASSUME IInv, Owned, NEW u \in Inner, Compile(u)
  PROVE  Owned'
<1>1. /\ \A x \in Inner \ {u} : prog'[x] = prog[x]
      /\ \E old, new : /\ prog'[u].owned = (prog[u].owned \ old) \union new
                       /\ old \subseteq prog[u].owned /\ heap' = (heap \ old) \union new
                       /\ \A b \in new : b[1] = serial
  BY CompileIInv
<1>2. PICK old, new : /\ prog'[u].owned = (prog[u].owned \ old) \union new
                      /\ old \subseteq prog[u].owned /\ heap' = (heap \ old) \union new
                      /\ \A b \in new : b[1] = serial
  BY <1>1
<1>3. \A b \in new : b \notin heap
  BY <1>2 DEF IInv, TypeOK
<1>4. /\ \A b : b \in heap <=> \E x \in Inner : b \in prog[x].owned
      /\ \A x, y \in Inner : x # y => \A b \in prog[x].owned : b \notin prog[y].owned
  BY OwnedElements
<1>5. /\ \A b : b \in heap' <=> \E x \in Inner : b \in prog'[x].owned
      /\ \A x, y \in Inner : x # y => \A b \in prog'[x].owned : b \notin prog'[y].owned
  <2>1. \A x \in Inner : \A b : b \in prog'[x].owned <=>
          IF x = u THEN (b \in prog[u].owned /\ b \notin old) \/ b \in new ELSE b \in prog[x].owned
    BY <1>1, <1>2
  <2>2. \A b : b \in heap' <=> (b \in heap /\ b \notin old) \/ b \in new
    BY <1>2
  <2>3. \A b \in old : b \in prog[u].owned
    BY <1>2
  <2>4. ASSUME NEW b PROVE b \in heap' <=> \E x \in Inner : b \in prog'[x].owned
    BY <1>4, <2>1, <2>2, <2>3
  <2>5. ASSUME NEW x \in Inner, NEW y \in Inner, x # y, NEW b \in prog'[x].owned
        PROVE  b \notin prog'[y].owned
    BY <1>3, <1>4, <2>1, <2>5
  <2>6. QED
    BY <2>4, <2>5
<1>6. OwnedBy(Inner)' = heap'
  BY <1>5 DEF OwnedBy
<1>7. \A x, y \in Inner : x # y => prog'[x].owned \cap prog'[y].owned = {}
  BY <1>5
<1>8. QED
  BY <1>6, <1>7 DEF Owned

LEMMA NextOwned == IInv /\ Owned /\ [Next]_vars => Owned'
<1> SUFFICES ASSUME IInv, Owned, [Next]_vars PROVE Owned'
  OBVIOUS
<1>1. ASSUME UNCHANGED <<prog, heap>> PROVE Owned'
  BY <1>1 DEF Owned, OwnedBy
<1>2. CASE UNCHANGED vars
  BY <1>1, <1>2 DEF vars
<1>3. CASE StartProgFuse \/ Contract \/ Return \/ StartJit
  BY <1>1, <1>3 DEF StartProgFuse, Contract, Return, StartJit
<1>4. ASSUME NEW u \in Inner, Pass(u) \/ Abort(u) \/ SkipJit(u) \/ RemoveControl(u) PROVE Owned'
  BY <1>1, <1>4 DEF Pass, Abort, SkipJit, RemoveControl
<1>5. ASSUME NEW u \in Inner, Fuse(u) PROVE Owned'
  BY <1>5, FuseOwned
<1>6. ASSUME NEW u \in Inner, Compile(u) PROVE Owned'
  BY <1>6, CompileOwned
<1>7. QED
  BY <1>2, <1>3, <1>4, <1>5, <1>6 DEF Next

(* command_graph_prog_fuse_llvmir and command_graph_jit_llvmir: a buffer that *)
(* is allocated belongs to one program, and no program refers to one that was *)
(* freed, in whatever order the two passes are called.                        *)
THEOREM BuffersSound == Spec => []HeapSound
<1>1. Init => Owned
  <2>1. Init => \A x \in Inner : prog[x].owned = {}
    BY RecordingsAssumption DEF Init
  <2>2. Init => heap = {}
    BY DEF Init
  <2>3. QED
    BY <2>1, <2>2, OwnedElements
<1>2. IInv /\ Owned /\ [Next]_vars => Owned'
  BY NextOwned
<1>3. IInv /\ Owned => HeapSound
  BY DEF IInv, Owned, HeapSound
<1>4. QED
  BY <1>1, <1>2, <1>3, ProgFuseInvariant, PTL DEF Spec
-----------------------------------------------------------------------------
(* Scanned is kept. *)
LEMMA GoesOn == \A a, b, w : Continues(a, b, w) <=> Goes(g, prog, a, b, w)
BY DEF Goes, Continues, IsLLVMIR, LaunchParamsEqual

LEMMA LessFollowed ==
  ASSUME NEW G, NEW H, H.type = G.type, NEW P, NEW Q,
         \A x \in Inner : /\ Q[x].mode = P[x].mode /\ Q[x].grid = P[x].grid
                          /\ Q[x].source = "LLVMIR" => P[x].source = "LLVMIR",
         NEW a \in Inner, NEW b, NEW d, NEW w, Goes(H, Q, a, b, w),
         AreSequence(H, b, w) => AreSequence(G, d, w)
  PROVE  Goes(G, P, a, d, w)
BY DEF Goes

LEMMA PassScanned ==
  ASSUME IInv, Scanned, NEW u \in Inner, Pass(u)
  PROVE  Scanned'
<1>1. /\ pc = "prog-fuse" /\ chain = <<>> /\ ~IsHead(u) /\ visit' = visit \ {u}
      /\ UNCHANGED <<g, prog, pc, chain>>
  BY DEF Pass
<1>2. ASSUME u \in Programmed, NEW w \in Inner, IsLLVMIR(u), Goes(g, prog, u, u, w) PROVE FALSE
  <2>1. u \notin contracted
    BY <1>2 DEF IInv, VisitSound, Programmed
  <2>2. ~(Len(Chain(u)) > 1)
    BY <1>1, <1>2, <2>1 DEF IsHead
  <2>3. IsChain(u, u, Chain(u))
    BY <1>2, ChainOf DEF IInv, GraphSound
  <2> DEFINE c == Chain(u)
  <2>4. c \in Seq(Programmed) /\ c # <<>> /\ c[1] = u /\ ~Goes(g, prog, u, c[Len(c)], w)
    BY <2>3, GoesOn DEF IsChain
  <2>5. ~(Len(c) > 1)
    BY <2>2
  <2> HIDE DEF c
  <2>6. Len(c) = 1
    <3>1. PICK n : n = Len(c)
      OBVIOUS
    <3>2. n \in Nat /\ n # 0 /\ ~(n > 1)
      BY <2>4, <2>5, <3>1
    <3>3. n = 1
      BY <3>2
    <3>4. QED
      BY <3>1, <3>3
  <2>7. QED
    BY <1>2, <2>4, <2>6
<1>3. Links(chain) = {}
  BY <1>1 DEF Links
<1>4. ASSUME NEW x \in Programmed \ visit', NEW w \in Inner, IsLLVMIR(x), Goes(g, prog, x, x, w)
      PROVE  FALSE
  <2>1. CASE x = u
    BY <1>2, <1>4, <2>1
  <2>2. CASE x # u
    BY <1>1, <1>3, <1>4, <2>2 DEF Scanned
  <2>3. QED
    BY <2>1, <2>2
<1>5. \A x \in Programmed', w \in Inner :
        x \notin visit' => ~(IsLLVMIR(x)' /\ Goes(g', prog', x, x, w))
  BY <1>1, <1>4 DEF Programmed, IsLLVMIR
<1>6. QED
  BY <1>1, <1>5 DEF Scanned

LEMMA FuseScanned ==
  ASSUME IInv, Scanned, NEW u \in Inner, Fuse(u)
  PROVE  Scanned'
<1> DEFINE c == Chain(u)
<1>1. c = Chain(u)
  OBVIOUS
<1> HIDE DEF c
<1>2. /\ pc = "prog-fuse" /\ chain = <<>> /\ Len(c) \in Nat /\ Len(c) > 1 /\ c[1] = u
      /\ IsChain(u, u, c) /\ chain' = c /\ visit' = visit \ {u} /\ UNCHANGED <<g, pc>>
      /\ prog'[u].source = prog[u].source /\ prog'[u].mode = prog[u].mode
      /\ prog'[u].grid = prog[u].grid
  BY <1>1, FuseFacts
<1>3. \A x \in Inner \ {u} :
          /\ prog'[x].mode = prog[x].mode /\ prog'[x].grid = prog[x].grid
          /\ prog'[x].source \in {prog[x].source, "none"}
  BY <1>1, FuseFacts
<1>4. \A x \in Inner : /\ prog'[x].mode = prog[x].mode /\ prog'[x].grid = prog[x].grid
                       /\ prog'[x].source = "LLVMIR" => prog[x].source = "LLVMIR"
  BY <1>2, <1>3
<1>5. u \in Links(c) /\ Links(chain) = {}
  BY <1>2 DEF Links
<1>6. ASSUME NEW x \in Programmed', x \notin visit', x \notin Links(c), NEW w \in Inner,
             IsLLVMIR(x)', Goes(g', prog', x, x, w)
      PROVE  FALSE
  <2>1. x \in Programmed \ (visit \union Links(chain)) /\ x \in Inner
    BY <1>2, <1>5, <1>6 DEF Programmed
  <2>2. Goes(g, prog, x, x, w)
    BY <1>2, <1>4, <1>6, <2>1, LessFollowed
  <2>3. IsLLVMIR(x)
    BY <1>2, <1>4, <1>6 DEF IsLLVMIR
  <2>4. QED
    BY <1>2, <2>1, <2>2, <2>3 DEF Scanned
<1>7. ASSUME NEW w \in Inner, Goes(g', prog', u, c[Len(c)], w) PROVE FALSE
  <2>1. PICK d : d = c[Len(c)]
    OBVIOUS
  <2>2. ~Goes(g, prog, u, d, w)
    BY <1>2, <2>1, GoesOn DEF IsChain
  <2>3. QED
    BY <1>2, <1>4, <1>7, <2>1, <2>2, LessFollowed
<1>8. \A w \in Inner : ~Goes(g', prog', chain'[1], chain'[Len(chain')], w)
  BY <1>2, <1>7
<1>9. QED
  BY <1>2, <1>6, <1>8 DEF Scanned

(* The chain without its second node. *)
LEMMA RestLinks ==
  ASSUME IInv, Len(chain) > 1,
         NEW u, u = chain[1], NEW v, v = chain[2], NEW n, n = Len(chain),
         NEW last, last = chain[n], NEW d, d = Rest(chain)
  PROVE  /\ n = 2 => d = <<>> /\ Links(chain) = {u, v} /\ last = v
         /\ n # 2 => /\ d # <<>> /\ Links(d) = Links(chain) \ {v}
                     /\ d[1] = u /\ d[Len(d)] = last
                     /\ last \in g.members \ {u, v}
<1>1. chain \in Seq(Programmed) /\ n \in Nat /\ n > 1 /\ Dag(g)
  BY DEF IInv, ChainSound, GraphSound
<1>2. \A k \in 1 .. n : chain[k] \in Programmed /\ chain[k] \in g.members
  BY <1>1 DEF Programmed
<1>3. Run(g, chain)
  <2>1. chain = [k \in 1 .. n |-> chain[k]]
    BY <1>1
  <2>2. chain \in Seq(g.members)
    <3> DEFINE X == g.members
    <3>1. n \in Nat /\ \A k \in 1 .. n : chain[k] \in X
      BY <1>1, <1>2
    <3> HIDE DEF X
    <3>2. chain \in Seq(X)
      BY <2>1, <3>1, SequenceOf
    <3>3. QED
      BY <3>2 DEF X
  <2>3. QED
    BY <2>2 DEF Run, IInv, TypeOK
<1>4. ASSUME NEW i \in 1 .. n, NEW j \in 1 .. n, i < j PROVE chain[i] # chain[j]
  BY <1>1, <1>3, <1>4, RunPaths
<1>5. /\ d = <<>> <=> n = 2
      /\ d # <<>> => /\ Len(d) = n - 1 /\ Len(d) > 1 /\ d[1] = u
                     /\ \A k \in 2 .. Len(d) : d[k] = chain[k + 1]
  <2>1. PICK S, c : S = Programmed /\ c = chain
    OBVIOUS
  <2>2. c \in Seq(S) /\ Len(c) > 1 /\ d = Rest(c)
    BY <1>1, <2>1
  <2>3. /\ d = <<>> <=> Len(c) = 2
        /\ d # <<>> => /\ Len(d) = Len(c) - 1 /\ Len(d) > 1 /\ d[1] = c[1]
                       /\ \A k \in 2 .. Len(d) : d[k] = c[k + 1]
    BY ZenonT(60), <2>2, RestOf
  <2>4. Len(c) = n
    BY <2>1
  <2>5. QED
    BY <2>1, <2>3, <2>4
<1>6. CASE n = 2
  <2>1. 1 .. 2 = {1, 2}
    OBVIOUS
  <2>2. QED
    BY <1>5, <1>6, <2>1 DEF Links
<1>7. CASE n # 2
  <2>1. d # <<>> /\ Len(d) = n - 1 /\ n > 2 /\ n - 1 \in 2 .. Len(d) /\ (n - 1) + 1 = n
    BY <1>1, <1>5, <1>7
  <2>2. d[Len(d)] = last
    BY <1>5, <2>1
  <2>3. last \in g.members \ {u, v}
    <3>1. n \in 1 .. n /\ 1 \in 1 .. n /\ 2 \in 1 .. n /\ 1 < n /\ 2 < n
      BY <1>1, <2>1
    <3>2. QED
      BY <1>2, <1>4, <3>1
  <2>4. ASSUME NEW k \in 1 .. Len(d) PROVE d[k] \in Links(chain) /\ d[k] # v
    <3>1. CASE k = 1
      BY <1>1, <1>4, <1>5, <2>1, <3>1 DEF Links
    <3>2. CASE k # 1
      <4>1. k \in 2 .. Len(d) /\ k + 1 \in 1 .. n /\ 2 < k + 1 /\ 2 \in 1 .. n
        BY <1>1, <2>1, <3>2
      <4>2. d[k] = chain[k + 1] /\ chain[2] # chain[k + 1]
        BY <1>4, <1>5, <2>1, <4>1
      <4>3. QED
        BY <4>1, <4>2 DEF Links
    <3>3. QED
      BY <3>1, <3>2
  <2>5. ASSUME NEW k \in 1 .. n, chain[k] # v PROVE chain[k] \in Links(d)
    <3>1. CASE k = 1
      BY <1>5, <2>1, <3>1 DEF Links
    <3>2. CASE k # 1
      <4> DEFINE l == k - 1
      <4>1. l \in 2 .. Len(d) /\ l + 1 = k /\ l \in 1 .. Len(d)
        BY <1>1, <2>1, <2>5, <3>2
      <4> HIDE DEF l
      <4>2. d[l] = chain[k]
        BY <1>5, <2>1, <4>1
      <4>3. QED
        BY <4>1, <4>2 DEF Links
    <3>3. QED
      BY <3>1, <3>2
  <2>6. \A x : x \in Links(d) <=> x \in Links(chain) /\ x # v
    BY <2>4, <2>5 DEF Links
  <2>7. Links(d) = Links(chain) \ {v}
    BY <2>6
  <2>8. QED
    BY <1>5, <1>7, <2>1, <2>2, <2>3, <2>7
<1>8. QED
  BY <1>6, <1>7

LEMMA ContractScanned ==
  ASSUME IInv, Scanned, Contract
  PROVE  Scanned'
<1>20. PICK u, v, n, last : u = chain[1] /\ v = chain[2] /\ n = Len(chain) /\ last = chain[n]
  OBVIOUS
<1>1. /\ Len(chain) > 1 /\ g' = ContractUV(g, u, v) /\ chain' = Rest(chain)
      /\ UNCHANGED <<prog, pc, visit>>
  BY <1>20 DEF Contract, Rest
<1>2. /\ u \in Programmed /\ v \in Programmed /\ u # v /\ AreSequence(g, u, v)
      /\ g'.members = g.members \ {v} /\ g'.type = g.type
  BY <1>1, <1>20, ContractFacts
<1>3. Dag(g) /\ chain \in Seq(Programmed) /\ n \in Nat /\ n > 1 /\ pc = "prog-fuse" /\ chain # <<>>
  BY <1>1, <1>20 DEF IInv, GraphSound, ChainSound
<1>4. /\ \A w \in Node : AreSequence(g', u, w) <=> AreSequence(g, v, w)
      /\ \A x \in g.members \ {u, v}, w \in Node : AreSequence(g', x, w) => AreSequence(g, x, w)
  <2>1. u \in g.members /\ v \in g.members
    BY <1>2 DEF Programmed
  <2>2. QED
    BY <1>1, <1>2, <1>3, <2>1, ContractFollows
<1>5. Links(chain) \subseteq Programmed /\ u \in Links(chain) /\ v \in Links(chain)
  BY <1>3, <1>20 DEF Links
<1>6. Inner \subseteq Node
  BY DEF Inner
<1>7. /\ \A x \in Inner : /\ prog'[x].mode = prog[x].mode /\ prog'[x].grid = prog[x].grid
                          /\ prog'[x].source = "LLVMIR" => prog[x].source = "LLVMIR"
  BY <1>1
<1>8. /\ n = 2 => chain' = <<>> /\ Links(chain) = {u, v} /\ last = v
      /\ n # 2 => /\ chain' # <<>> /\ Links(chain') = Links(chain) \ {v}
                  /\ chain'[1] = u /\ chain'[Len(chain')] = last
                  /\ last \in g.members \ {u, v}
  BY <1>1, <1>3, <1>20, RestLinks
<1>9. \A w \in Inner : ~Goes(g, prog, u, last, w)
  BY <1>3, <1>20 DEF Scanned
<1>10. u \in Inner
  BY <1>2 DEF Programmed
<1>11. ASSUME NEW x \in Programmed', x \notin visit', x \notin Links(chain'), NEW w \in Inner,
              IsLLVMIR(x)', Goes(g', prog', x, x, w)
       PROVE  FALSE
  <2>1. x \in Programmed /\ x # v /\ x \in Inner /\ x \in g.members /\ w \in Node
    BY <1>2, <1>6, <1>11 DEF Programmed
  <2>2. AreSequence(g', x, w) /\ IsLLVMIR(x)
    BY <1>1, <1>2, <1>11 DEF Goes, IsLLVMIR
  <2>3. CASE x # u
    <3>1. AreSequence(g, x, w)
      BY <1>4, <2>1, <2>2, <2>3
    <3>2. Goes(g, prog, x, x, w)
      BY <1>2, <1>7, <1>11, <2>1, <3>1, LessFollowed
    <3>3. x \notin Links(chain)
      BY <1>8, <1>11, <2>1, <2>3
    <3>4. QED
      BY <1>1, <1>3, <1>11, <2>1, <2>2, <3>2, <3>3 DEF Scanned
  <2>4. CASE x = u
    <3>1. n = 2
      BY <1>2, <1>5, <1>8, <1>11, <2>4
    <3>2. AreSequence(g, v, w)
      BY <1>4, <2>1, <2>2, <2>4
    <3>3. Goes(g, prog, u, v, w)
      BY <1>2, <1>7, <1>11, <2>1, <2>4, <3>2, LessFollowed
    <3>4. QED
      BY <1>8, <1>9, <3>1, <3>3
  <2>5. QED
    BY <2>3, <2>4
<1>12. ASSUME n # 2, NEW w \in Inner, Goes(g', prog', u, last, w)
       PROVE  FALSE
  <2>1. last \in g.members \ {u, v} /\ w \in Node
    BY <1>6, <1>8, <1>12
  <2>2. AreSequence(g', last, w) => AreSequence(g, last, w)
    BY <1>4, <2>1
  <2>3. Goes(g, prog, u, last, w)
    BY <1>2, <1>7, <1>10, <1>12, <2>2, LessFollowed
  <2>4. QED
    BY <1>9, <2>3
<1>13. chain' # <<>> => \A w \in Inner : ~Goes(g', prog', chain'[1], chain'[Len(chain')], w)
  BY <1>8, <1>12
<1>14. QED
  BY <1>11, <1>13 DEF Scanned

LEMMA NextScanned == IInv /\ Scanned /\ [Next]_vars => Scanned'
<1> SUFFICES ASSUME IInv, Scanned, [Next]_vars PROVE Scanned'
  OBVIOUS
<1>1. CASE UNCHANGED vars
  BY <1>1 DEF vars, Scanned, Programmed, IsLLVMIR
<1>2. CASE StartProgFuse
  <2>1. visit' = Programmed /\ g' = g /\ chain' = chain
    BY <1>2, ListedNodes DEF StartProgFuse
  <2>2. chain = <<>>
    BY <1>2 DEF StartProgFuse, IInv, ChainSound
  <2>3. Programmed' = Programmed
    BY <2>1 DEF Programmed
  <2>4. QED
    BY <2>1, <2>2, <2>3 DEF Scanned
<1>3. CASE Contract
  BY <1>3, ContractScanned
<1>4. ASSUME pc' # "prog-fuse" PROVE Scanned'
  BY <1>4 DEF Scanned
<1>5. CASE Return \/ StartJit
  BY <1>4, <1>5 DEF Return, StartJit
<1>6. ASSUME NEW u \in Inner, Abort(u) \/ RemoveControl(u) \/ SkipJit(u) \/ Compile(u) PROVE Scanned'
  BY <1>4, <1>6 DEF Abort, RemoveControl, SkipJit, Compile
<1>7. ASSUME NEW u \in Inner, Pass(u) PROVE Scanned'
  BY <1>7, PassScanned
<1>8. ASSUME NEW u \in Inner, Fuse(u) PROVE Scanned'
  BY <1>8, FuseScanned
<1>9. QED
  BY <1>1, <1>2, <1>3, <1>5, <1>6, <1>7, <1>8 DEF Next

(* command_graph_t::pass_prog_fuse: when it returns, no program is followed, *)
(* in sequence, by one that is launched like it.                             *)
THEOREM ChainsStayMaximal == Spec => ChainsMaximal
<1>1. Init => Scanned
  BY DEF Init, Scanned
<1>2. IInv /\ Scanned /\ [Next]_vars => Scanned'
  BY NextScanned
<1>3. IInv /\ Scanned /\ [Next]_vars =>
        [pc = "prog-fuse" /\ pc' = "idle" =>
           \A u, w \in Inner \cap g.members : ~(IsLLVMIR(u) /\ Continues(u, u, w))]_vars
  <2> SUFFICES ASSUME Scanned, Next, pc = "prog-fuse", pc' = "idle",
                      NEW u \in Inner \cap g.members, NEW w \in Inner \cap g.members
               PROVE  ~(IsLLVMIR(u) /\ Continues(u, u, w))
    OBVIOUS
  <2>1. chain = <<>> /\ visit = {}
    BY DEF Next, StartProgFuse, Contract, Return, StartJit, Pass, Abort, Fuse, RemoveControl,
           SkipJit, Compile
  <2>2. Links(chain) = {}
    BY <2>1 DEF Links
  <2>3. QED
    BY <2>1, <2>2, GoesOn DEF Scanned, Programmed
<1>4. QED
  BY <1>1, <1>2, <1>3, ProgFuseInvariant, PTL DEF Spec, ChainsMaximal
-----------------------------------------------------------------------------
(***************************************************************************)
(* The order of the kernels.  An occurrence <<u, i>> is what the node u    *)
(* executes in its place i, ex[u][i]; P are the paths between the nodes.   *)
(***************************************************************************)
Occurrences(live, ex) == UNION {{<<u, i>> : i \in DOMAIN ex[u]} : u \in live}

What(ex, o) == ex[o[1]][o[2]]

Before(P, o, q) == IF o[1] = q[1] THEN o[2] < q[2] ELSE <<o[1], q[1]>> \in P

(* The commands C are executed once each, in the order O and no other. *)
Faithful(live, ex, P, C, O) ==
  /\ \A o \in Occurrences(live, ex) : What(ex, o) \in C
  /\ \A x \in C : \E o \in Occurrences(live, ex) : What(ex, o) = x
  /\ \A o, q \in Occurrences(live, ex) : What(ex, o) = What(ex, q) => o = q
  /\ \A o, q \in Occurrences(live, ex) : Before(P, o, q) <=> <<What(ex, o), What(ex, q)>> \in O

LEMMA OccurrenceOf ==
  ASSUME NEW live, NEW ex
  PROVE  /\ \A u \in live : \A i \in DOMAIN ex[u] : <<u, i>> \in Occurrences(live, ex)
         /\ \A o \in Occurrences(live, ex) :
              o = <<o[1], o[2]>> /\ o[1] \in live /\ o[2] \in DOMAIN ex[o[1]]
BY DEF Occurrences

(* The occurrences of one schedule are, by m, those of another one, in the *)
(* same order.                                                             *)
Matches(m, live2, ex2, P2, live, ex, P) ==
  /\ \A o \in Occurrences(live2, ex2) :
       m[o] \in Occurrences(live, ex) /\ What(ex, m[o]) = What(ex2, o)
  /\ \A x \in Occurrences(live, ex) : \E o \in Occurrences(live2, ex2) : m[o] = x
  /\ \A o, q \in Occurrences(live2, ex2) : m[o] = m[q] => o = q
  /\ \A o, q \in Occurrences(live2, ex2) : Before(P2, o, q) <=> Before(P, m[o], m[q])

LEMMA Transfer ==
  ASSUME NEW live, NEW ex, NEW P, NEW C, NEW O, Faithful(live, ex, P, C, O),
         NEW live2, NEW ex2, NEW P2, NEW m, Matches(m, live2, ex2, P2, live, ex, P)
  PROVE  Faithful(live2, ex2, P2, C, O)
<1> DEFINE X == Occurrences(live, ex)
           Y == Occurrences(live2, ex2)
           W(o) == What(ex, o)
           V(o) == What(ex2, o)
<1>1. /\ \A o \in X : W(o) \in C
      /\ \A x \in C : \E o \in X : W(o) = x
      /\ \A o, q \in X : W(o) = W(q) => o = q
      /\ \A o, q \in X : Before(P, o, q) <=> <<W(o), W(q)>> \in O
  BY DEF Faithful
<1>2. /\ \A o \in Y : m[o] \in X /\ W(m[o]) = V(o)
      /\ \A x \in X : \E o \in Y : m[o] = x
      /\ \A o, q \in Y : m[o] = m[q] => o = q
      /\ \A o, q \in Y : Before(P2, o, q) <=> Before(P, m[o], m[q])
  BY DEF Matches
<1> HIDE DEF X, Y, W, V
<1>3. (\A o \in Y : V(o) \in C) /\ \A x \in C : \E o \in Y : V(o) = x
  BY <1>1, <1>2
<1>4. \A o, q \in Y : V(o) = V(q) => o = q
  BY <1>1, <1>2
<1>5. \A o, q \in Y : Before(P2, o, q) <=> <<V(o), V(q)>> \in O
  BY <1>1, <1>2
<1>6. QED
  BY <1>3, <1>4, <1>5 DEF Faithful, Y, V

(* The same nodes execute the same, and are ordered as before. *)
Alike(live, ex2, P2, ex, P) ==
  /\ \A u \in live : DOMAIN ex2[u] = DOMAIN ex[u] /\ \A i \in DOMAIN ex[u] : ex2[u][i] = ex[u][i]
  /\ \A a, b \in live : a # b => (<<a, b>> \in P2 <=> <<a, b>> \in P)

LEMMA SameOrder ==
  ASSUME NEW live, NEW ex, NEW P, NEW C, NEW O, Faithful(live, ex, P, C, O),
         NEW ex2, NEW P2, Alike(live, ex2, P2, ex, P)
  PROVE  Faithful(live, ex2, P2, C, O)
<1>1. Occurrences(live, ex2) = Occurrences(live, ex)
  BY DEF Occurrences, Alike
<1> DEFINE X == Occurrences(live, ex)
           m == [o \in X |-> o]
<1>2. \A o \in X : m[o] = o
  OBVIOUS
<1>3. \A o \in X : o[1] \in live /\ o[2] \in DOMAIN ex[o[1]]
  BY OccurrenceOf
<1> HIDE DEF X, m
<1>4. \A o \in X : m[o] \in X /\ What(ex, m[o]) = What(ex2, o)
  BY <1>2, <1>3 DEF What, Alike
<1>5. \A o, q \in X : Before(P2, o, q) <=> Before(P, m[o], m[q])
  BY <1>2, <1>3 DEF Before, Alike
<1>6. X = Occurrences(live, ex) /\ X = Occurrences(live, ex2)
  BY <1>1 DEF X
<1>7. Matches(m, live, ex2, P2, live, ex, P)
  BY <1>2, <1>4, <1>5, <1>6 DEF Matches
<1>8. QED
  BY <1>7, Transfer

(* What the nodes execute, and those that are not about to be contracted. *)
Execution == [u \in Inner |-> Executed(u)]

Live == Commands(g) \ Onward(chain, 2)

OrderInv == Faithful(Live, Execution, Paths(g), recorded.commands, recorded.order)

LEMMA ExecutionOf ==
  ASSUME NEW u \in Inner
  PROVE  /\ recorded.prog[u].source = "LLVMIR" =>
              /\ DOMAIN Execution[u] = DOMAIN prog[u].calls
              /\ \A i \in DOMAIN prog[u].calls : Execution[u][i] = prog[u].calls[i].kernel
         /\ recorded.prog[u].source # "LLVMIR" => Execution[u] = <<u>>
BY DEF Execution, Executed

LEMMA InitOrder == Init => OrderInv
<1> SUFFICES ASSUME Init PROVE OrderInv
  OBVIOUS
<1>1. /\ recorded.prog = prog /\ recorded.commands = Commands(g)
      /\ recorded.order = Precedence(g, Commands(g)) /\ chain = <<>>
  BY DEF Init
<1>2. ASSUME NEW u \in Inner, prog[u].source = "LLVMIR"
      PROVE  \E reads : prog[u].calls = <<[kernel |-> u, reads |-> reads]>>
  <2>1. PICK r \in Recordings : prog = r.prog
    BY DEF Init
  <2>2. prog[u].calls = <<[kernel |-> u, reads |-> [j \in DOMAIN prog[u].slots |-> j]]>>
    BY <1>2, <2>1, RecordingsAssumption
  <2>3. PICK reads : reads = [j \in DOMAIN prog[u].slots |-> j]
    OBVIOUS
  <2>4. QED
    BY <2>2, <2>3
<1>3. ASSUME NEW u \in Inner PROVE DOMAIN Execution[u] = {1} /\ Execution[u][1] = u
  <2>1. CASE prog[u].source = "LLVMIR"
    <3>1. PICK reads : prog[u].calls = <<[kernel |-> u, reads |-> reads]>>
      BY <1>2, <2>1
    <3>2. DOMAIN prog[u].calls = {1} /\ prog[u].calls[1].kernel = u
      BY <3>1
    <3>3. QED
      BY <1>1, <2>1, <3>2, ExecutionOf
  <2>2. CASE prog[u].source # "LLVMIR"
    <3>1. Execution[u] = <<u>>
      BY <1>1, <2>2, ExecutionOf
    <3>2. QED
      BY <3>1
  <2>3. QED
    BY <2>1, <2>2
<1> DEFINE C == Commands(g)
           X == Occurrences(C, Execution)
<1>4. C \subseteq Inner
  BY DEF Commands
<1>5. Live = C
  BY <1>1 DEF Live, Onward
<1> HIDE DEF C
<1>6. /\ \A u \in C : <<u, 1>> \in X
      /\ \A o \in X : o = <<o[1], o[2]>> /\ o[1] \in C /\ o[2] = 1
  BY <1>3, <1>4, OccurrenceOf
<1>7. \A o \in X : What(Execution, o) = o[1]
  BY <1>3, <1>4, <1>6 DEF What
<1> HIDE DEF X
<1>8. (\A o \in X : What(Execution, o) \in C) /\ \A x \in C : \E o \in X : What(Execution, o) = x
  <2>1. \A x \in C : What(Execution, <<x, 1>>) = x
    BY <1>6, <1>7
  <2>2. QED
    BY <1>6, <1>7, <2>1
<1>9. ASSUME NEW o \in X, NEW q \in X
      PROVE  /\ What(Execution, o) = What(Execution, q) => o = q
             /\ Before(Paths(g), o, q) <=> <<What(Execution, o), What(Execution, q)>> \in Precedence(g, C)
  <2>1. What(Execution, o) = o[1] /\ What(Execution, q) = q[1] /\ o[1] \in C /\ q[1] \in C
        /\ o[2] = 1 /\ q[2] = 1 /\ o = <<o[1], o[2]>> /\ q = <<q[1], q[2]>>
    BY <1>6, <1>7
  <2>2. QED
    BY <2>1 DEF Before, Precedence
<1>10. Faithful(C, Execution, Paths(g), C, Precedence(g, C))
  BY <1>8, <1>9 DEF Faithful, X
<1>11. recorded.commands = C /\ recorded.order = Precedence(g, C)
  BY <1>1 DEF C
<1>12. QED
  BY <1>5, <1>10, <1>11 DEF OrderInv

(* What is left of a chain goes on being executed at its first node. *)
LEMMA ContractLive ==
  ASSUME IInv, Contract
  PROVE  Live' = Live
<1>1. PICK u, v, d : u = chain[1] /\ v = chain[2] /\ d = chain'
  OBVIOUS
<1>2. /\ Len(chain) > 1 /\ g' = ContractUV(g, u, v) /\ d = Rest(chain)
      /\ UNCHANGED <<prog, recorded>>
  BY <1>1 DEF Contract, Rest
<1>3. /\ g'.members = g.members \ {v} /\ g'.type = g.type
      /\ \A a, b \in g'.members : a # b => (<<a, b>> \in Paths(g') <=> <<a, b>> \in Paths(g))
  BY <1>1, <1>2, ContractFacts
<1>4. Onward(d, 2) = Onward(chain, 3)
  <2>1. PICK S, c : S = Programmed /\ c = chain
    OBVIOUS
  <2>2. c \in Seq(S) /\ Len(c) > 1 /\ d = Rest(c)
    BY <1>2, <2>1 DEF IInv, ChainSound
  <2>3. Len(c) > 1
    BY <2>2
  <2>4. Onward(d, 2) = Onward(c, 3)
    BY <2>2, RestOf
  <2>5. QED
    BY <2>1, <2>4
<1>5. QED
  <2>1. Len(chain) \in Nat
    BY DEF IInv, ChainSound
  <2>2. \A x : x \in Onward(chain, 2) <=> x = v \/ x \in Onward(chain, 3)
    <3>1. \A k : k \in 2 .. Len(chain) <=> k = 2 \/ k \in 3 .. Len(chain)
      BY <1>2, <2>1
    <3>2. QED
      BY <1>1, <3>1 DEF Onward
  <2>3. Commands(g') = Commands(g) \ {v}
    BY <1>3 DEF Commands
  <2>4. Live' = Commands(g') \ Onward(d, 2)
    BY <1>1 DEF Live, Commands, Onward
  <2>5. QED
    BY <1>4, <2>2, <2>3, <2>4 DEF Live

LEMMA ContractOrder ==
  ASSUME IInv, OrderInv, Contract
  PROVE  OrderInv'
<1>1. PICK u, v : u = chain[1] /\ v = chain[2]
  OBVIOUS
<1>2. /\ Len(chain) > 1 /\ g' = ContractUV(g, u, v)
      /\ UNCHANGED <<prog, recorded>>
  BY <1>1 DEF Contract, Rest
<1>3. /\ g'.members = g.members \ {v} /\ g'.type = g.type
      /\ \A a, b \in g'.members : a # b => (<<a, b>> \in Paths(g') <=> <<a, b>> \in Paths(g))
  BY <1>1, <1>2, ContractFacts
<1>5. Live' = Live
  BY ContractLive
<1>6. Execution' = Execution
  BY <1>2 DEF Execution, Executed
<1>7. \A a, b \in Live : a # b => (<<a, b>> \in Paths(g') <=> <<a, b>> \in Paths(g))
  <2>1. Live' \subseteq g'.members
    BY DEF Live, Commands
  <2>2. QED
    BY <1>3, <1>5, <2>1
<1> DEFINE live == Live
           ex == Execution
           P == Paths(g)
           P2 == Paths(g')
<1>8. Faithful(live, ex, P2, recorded.commands, recorded.order)
  <2>1. Faithful(live, ex, P, recorded.commands, recorded.order)
    BY DEF OrderInv
  <2>2. Alike(live, ex, P2, ex, P)
    BY <1>7 DEF Alike
  <2> HIDE DEF live, ex, P, P2
  <2>3. QED
    BY <2>1, <2>2, SameOrder
<1>9. QED
  BY <1>2, <1>5, <1>6, <1>8 DEF OrderInv
(* The graph loses nothing but a control node, or nothing at all. *)
LEMMA QuietOrder ==
  ASSUME IInv, OrderInv, UNCHANGED <<recorded, chain>>, chain = <<>> \/ g' = g,
         Commands(g') = Commands(g),
         \A a, b \in Commands(g) : a # b => (<<a, b>> \in Paths(g') <=> <<a, b>> \in Paths(g)),
         \A u \in Inner : /\ recorded.prog[u].source = "LLVMIR" =>
                               /\ DOMAIN prog'[u].calls = DOMAIN prog[u].calls
                               /\ \A i \in DOMAIN prog[u].calls :
                                    prog'[u].calls[i].kernel = prog[u].calls[i].kernel
  PROVE  OrderInv'
<1>1. Live' = Live
  BY DEF Live, Commands
<1>2. ASSUME NEW u \in Inner
      PROVE  DOMAIN Execution'[u] = DOMAIN Execution[u]
             /\ \A i \in DOMAIN Execution[u] : Execution'[u][i] = Execution[u][i]
  BY <1>2 DEF Execution, Executed
<1> DEFINE live == Live
           ex == Execution
           ex2 == Execution'
           P == Paths(g)
           P2 == Paths(g')
<1>3. Faithful(live, ex, P, recorded.commands, recorded.order)
  BY DEF OrderInv
<1>4. Alike(live, ex2, P2, ex, P)
  BY <1>2 DEF Alike, Live, Commands
<1> HIDE DEF live, ex, ex2, P, P2
<1>5. Faithful(live, ex2, P2, recorded.commands, recorded.order)
  BY <1>3, <1>4, SameOrder
<1>6. QED
  BY <1>1, <1>5 DEF OrderInv, live, ex2, P2

LEMMA RemoveControlOrder ==
  ASSUME IInv, OrderInv, NEW u \in Inner, RemoveControl(u)
  PROVE  OrderInv'
<1>1. /\ pc = "idle" /\ u \in g.members /\ g.type[u] = "EMPTY" /\ g' = Remove(g, u)
      /\ UNCHANGED <<prog, recorded, chain>>
  BY DEF RemoveControl
<1>2. Dag(g) /\ chain = <<>>
  BY <1>1 DEF IInv, GraphSound, ChainSound
<1>3. g'.members = g.members \ {u} /\ g'.type = g.type
  BY <1>1, <1>2, RemoveKeepsType DEF Dag
<1>4. Commands(g') = Commands(g)
  BY <1>1, <1>3 DEF Commands
<1>5. ASSUME NEW a \in Commands(g), NEW b \in Commands(g)
      PROVE  <<a, b>> \in Paths(g') <=> <<a, b>> \in Paths(g)
  <2>1. a \in g.members \ {u} /\ b \in g.members \ {u}
    BY <1>1 DEF Commands
  <2>2. QED
    BY <1>1, <1>2, <2>1, RemovePaths DEF Dag
<1>6. QED
  BY <1>1, <1>2, <1>4, <1>5, QuietOrder

LEMMA CompileOrder ==
  ASSUME IInv, OrderInv, NEW u \in Inner, Compile(u)
  PROVE  OrderInv'
<1>1. CallsKept(prog[u].calls, prog'[u].calls) /\ \A x \in Inner \ {u} : prog'[x] = prog[x]
  BY CompileIInv
<1>2. UNCHANGED <<g, recorded, chain>>
  BY DEF Compile
<1>3. ASSUME NEW x \in Inner
      PROVE  /\ DOMAIN prog'[x].calls = DOMAIN prog[x].calls
             /\ \A i \in DOMAIN prog[x].calls : prog'[x].calls[i].kernel = prog[x].calls[i].kernel
  <2>1. DOMAIN prog'[u].calls = DOMAIN prog[u].calls
    BY <1>1 DEF CallsKept
  <2>2. \A i \in DOMAIN prog[u].calls : prog'[u].calls[i].kernel = prog[u].calls[i].kernel
    BY <1>1 DEF CallsKept
  <2>3. QED
    BY <1>1, <2>1, <2>2
<1>4. Commands(g') = Commands(g) /\ Paths(g') = Paths(g)
  BY <1>2
<1>5. QED
  BY <1>2, <1>3, <1>4, QuietOrder
(***************************************************************************)
(* The nodes of c are merged into the first of them, u: its place q is now *)
(* taken by the place pos[q][2] of the node c[pos[q][1]].                  *)
(***************************************************************************)
Merges(n, c, u, ss, l, pos, live2, ex2, live, ex, P) ==
  /\ n \in Nat /\ n > 1 /\ u = c[1] /\ u \in live2
  /\ \A i, j \in 1 .. n : i # j => c[i] # c[j] /\ (<<c[i], c[j]>> \in P <=> i < j)
  /\ \A k \in 1 .. n : c[k] \in live /\ DOMAIN ex[c[k]] = 1 .. Len(ss[k])
  /\ l \in Nat /\ pos \in [1 .. l -> Items(ss, n)]
  /\ \A x \in Items(ss, n) : \E q \in 1 .. l : pos[q] = x
  /\ \A q, r \in 1 .. l : q < r <=> Earlier(pos[q], pos[r])
  /\ DOMAIN ex2[u] = 1 .. l
  /\ \A q \in 1 .. l : ex2[u][q] = ex[c[pos[q][1]]][pos[q][2]]
  /\ \A x \in live2 \ {u} :
       /\ x \in live /\ DOMAIN ex2[x] = DOMAIN ex[x] /\ \A i \in DOMAIN ex[x] : ex2[x][i] = ex[x][i]
       /\ \A k \in 1 .. n : /\ x # c[k]
                            /\ <<x, c[k]>> \in P <=> <<x, u>> \in P
                            /\ <<c[k], x>> \in P <=> <<u, x>> \in P
  /\ \A x \in live : x \in live2 \ {u} \/ \E k \in 1 .. n : x = c[k]

LEMMA MergeMatches ==
  ASSUME NEW n, NEW c, NEW u, NEW ss, NEW l, NEW pos, NEW live2, NEW ex2, NEW live, NEW ex, NEW P,
         Merges(n, c, u, ss, l, pos, live2, ex2, live, ex, P)
  PROVE  \E m : Matches(m, live2, ex2, P, live, ex, P)
<1> DEFINE X == Occurrences(live, ex)
           Y == Occurrences(live2, ex2)
           m == [o \in Y |-> IF o[1] = u THEN <<c[pos[o[2]][1]], pos[o[2]][2]>> ELSE o]
           a(o) == pos[o[2]][1]
           b(o) == pos[o[2]][2]
<1>1. \A o \in Y : o[1] # u => m[o] = o
  OBVIOUS
<1>2. \A o \in Y : o[1] = u => m[o] = <<c[a(o)], b(o)>>
  OBVIOUS
<1>3. /\ \A x \in live : \A i \in DOMAIN ex[x] : <<x, i>> \in X
      /\ \A x \in live2 : \A i \in DOMAIN ex2[x] : <<x, i>> \in Y
      /\ \A o \in X : o = <<o[1], o[2]>> /\ o[1] \in live /\ o[2] \in DOMAIN ex[o[1]]
      /\ \A o \in Y : o = <<o[1], o[2]>> /\ o[1] \in live2 /\ o[2] \in DOMAIN ex2[o[1]]
  BY OccurrenceOf
<1>4. \A q \in 1 .. l : /\ pos[q] = <<pos[q][1], pos[q][2]>>
                        /\ pos[q][1] \in 1 .. n /\ pos[q][2] \in 1 .. Len(ss[pos[q][1]])
  BY DEF Merges, Items
<1>5. ASSUME NEW k \in 1 .. n, NEW i \in 1 .. Len(ss[k]) PROVE \E q \in 1 .. l : pos[q] = <<k, i>>
  <2>1. <<k, i>> \in Items(ss, n)
    BY DEF Items
  <2>2. \A x \in Items(ss, n) : \E q \in 1 .. l : pos[q] = x
    BY DEF Merges
  <2>3. QED
    BY <2>1, <2>2
<1> HIDE DEF X, Y, m
<1>6. ASSUME NEW o \in Y, o[1] = u
      PROVE  /\ o[2] \in 1 .. l /\ o = <<u, o[2]>>
             /\ a(o) \in 1 .. n /\ b(o) \in 1 .. Len(ss[a(o)]) /\ pos[o[2]] = <<a(o), b(o)>>
             /\ c[a(o)] \in live /\ b(o) \in DOMAIN ex[c[a(o)]] /\ m[o] \in X
             /\ m[o][1] = c[a(o)] /\ m[o][2] = b(o)
             /\ What(ex, m[o]) = What(ex2, o)
  <2>1. o[2] \in 1 .. l /\ o = <<u, o[2]>>
    BY <1>3, <1>6 DEF Merges
  <2>2. a(o) \in 1 .. n /\ b(o) \in 1 .. Len(ss[a(o)]) /\ pos[o[2]] = <<a(o), b(o)>>
    BY <1>4, <2>1
  <2>3. c[a(o)] \in live /\ b(o) \in DOMAIN ex[c[a(o)]]
    BY <2>2 DEF Merges
  <2>4. m[o] \in X /\ m[o][1] = c[a(o)] /\ m[o][2] = b(o)
    BY <1>2, <1>3, <1>6, <2>3
  <2>5. ex2[u][o[2]] = ex[c[a(o)]][b(o)]
    BY <2>1 DEF Merges
  <2>6. What(ex, m[o]) = What(ex2, o)
    BY <1>6, <2>4, <2>5 DEF What
  <2>7. QED
    BY <2>1, <2>2, <2>3, <2>4, <2>6
<1> HIDE DEF a, b
<1>7. ASSUME NEW o \in Y, o[1] # u
      PROVE  /\ o[1] \in live2 \ {u} /\ m[o] = o /\ m[o] \in X /\ What(ex, m[o]) = What(ex2, o)
  <2>1. o = <<o[1], o[2]>> /\ o[1] \in live2 \ {u} /\ o[2] \in DOMAIN ex2[o[1]] /\ m[o] = o
    BY <1>1, <1>3, <1>7
  <2>2. o[1] \in live /\ o[2] \in DOMAIN ex[o[1]] /\ ex2[o[1]][o[2]] = ex[o[1]][o[2]]
    <3>1. \A x \in live2 \ {u} :
            x \in live /\ DOMAIN ex2[x] = DOMAIN ex[x] /\ \A i \in DOMAIN ex[x] : ex2[x][i] = ex[x][i]
      BY DEF Merges
    <3>2. QED
      BY <2>1, <3>1
  <2>3. QED
    BY <1>3, <2>1, <2>2 DEF What
<1>8. ASSUME NEW x \in X PROVE \E o \in Y : m[o] = x
  <2>1. x = <<x[1], x[2]>> /\ x[1] \in live /\ x[2] \in DOMAIN ex[x[1]]
    BY <1>3
  <2>2. CASE x[1] \in live2 \ {u}
    <3>1. x[2] \in DOMAIN ex2[x[1]]
      BY <2>1, <2>2 DEF Merges
    <3>2. x \in Y
      BY <1>3, <2>1, <2>2, <3>1
    <3>3. QED
      BY <1>1, <2>2, <3>2
  <2>3. CASE \E k \in 1 .. n : x[1] = c[k]
    <3>1. PICK k \in 1 .. n : x[1] = c[k]
      BY <2>3
    <3>2. x[2] \in 1 .. Len(ss[k])
      BY <2>1, <3>1 DEF Merges
    <3>3. PICK q \in 1 .. l : pos[q] = <<k, x[2]>>
      BY <1>5, <3>2
    <3>4. u \in live2 /\ q \in DOMAIN ex2[u]
      BY DEF Merges
    <3>5. PICK o : o = <<u, q>>
      OBVIOUS
    <3>6. o \in Y /\ o[1] = u /\ o[2] = q
      BY <1>3, <3>4, <3>5
    <3>7. m[o] = <<c[a(o)], b(o)>> /\ a(o) = k /\ b(o) = x[2]
      BY <1>2, <3>3, <3>6 DEF a, b
    <3>8. QED
      BY <2>1, <3>1, <3>6, <3>7
  <2>4. QED
    BY <2>1, <2>2, <2>3 DEF Merges
<1>9. \A i, j \in 1 .. n : c[i] = c[j] => i = j
  BY DEF Merges
<1>10. \A q, r \in 1 .. l : pos[q] = pos[r] => q = r
  <2>1. ASSUME NEW q \in 1 .. l, NEW r \in 1 .. l, pos[q] = pos[r] PROVE q = r
    <3>1. pos[q][1] \in 1 .. n /\ \A z \in 1 .. n : \A y \in Int : ~(z < z) /\ ~(y < y)
      BY <1>4 DEF Merges
    <3>2. ~(q < r) /\ ~(r < q)
      <4>1. PICK y : y = pos[q][2]
        OBVIOUS
      <4>2. ~(y < y)
        BY <1>4, <4>1
      <4>3. ~Earlier(pos[q], pos[r]) /\ ~Earlier(pos[r], pos[q])
        BY <2>1, <3>1, <4>1, <4>2 DEF Earlier
      <4>4. QED
        BY <4>3 DEF Merges
    <3>3. l \in Nat
      BY DEF Merges
    <3>4. QED
      BY <3>2, <3>3
  <2>2. QED
    BY <2>1
<1>11. ASSUME NEW o \in Y, NEW q \in Y, m[o] = m[q] PROVE o = q
  <2>1. CASE o[1] = u /\ q[1] = u
    <3>1. a(o) = a(q) /\ b(o) = b(q)
      BY <1>6, <1>9, <1>11, <2>1
    <3>2. o[2] = q[2]
      <4>1. /\ o[2] \in 1 .. l /\ pos[o[2]] = <<a(o), b(o)>>
            /\ q[2] \in 1 .. l /\ pos[q[2]] = <<a(q), b(q)>>
        BY <1>6, <2>1
      <4>2. pos[o[2]] = pos[q[2]]
        BY <3>1, <4>1
      <4>3. QED
        BY <1>10, <4>1, <4>2
    <3>3. QED
      BY <1>6, <2>1, <3>2
  <2>2. CASE o[1] = u /\ q[1] # u
    <3>1. q[1] = c[a(o)] /\ a(o) \in 1 .. n /\ q[1] \in live2 \ {u}
      BY <1>6, <1>7, <1>11, <2>2
    <3>2. QED
      BY <3>1 DEF Merges
  <2>3. CASE o[1] # u /\ q[1] = u
    <3>1. o[1] = c[a(q)] /\ a(q) \in 1 .. n /\ o[1] \in live2 \ {u}
      BY <1>6, <1>7, <1>11, <2>3
    <3>2. QED
      BY <3>1 DEF Merges
  <2>4. CASE o[1] # u /\ q[1] # u
    BY <1>7, <1>11, <2>4
  <2>5. QED
    BY <2>1, <2>2, <2>3, <2>4
<1>12. ASSUME NEW o \in Y, NEW q \in Y PROVE Before(P, o, q) <=> Before(P, m[o], m[q])
  <2>1. CASE o[1] = u /\ q[1] = u
    <3>1. /\ a(o) \in 1 .. n /\ a(q) \in 1 .. n
          /\ m[o][1] = c[a(o)] /\ m[q][1] = c[a(q)] /\ m[o][2] = b(o) /\ m[q][2] = b(q)
          /\ o[2] \in 1 .. l /\ q[2] \in 1 .. l
          /\ pos[o[2]] = <<a(o), b(o)>> /\ pos[q[2]] = <<a(q), b(q)>>
      BY <1>6, <2>1
    <3>2. Before(P, o, q) <=> o[2] < q[2]
      BY <2>1 DEF Before
    <3>3. o[2] < q[2] <=> Earlier(pos[o[2]], pos[q[2]])
      BY <3>1 DEF Merges
    <3>4. Earlier(pos[o[2]], pos[q[2]]) <=> a(o) < a(q) \/ (a(o) = a(q) /\ b(o) < b(q))
      BY <3>1 DEF Earlier
    <3>5. a(o) # a(q) => c[a(o)] # c[a(q)] /\ (<<c[a(o)], c[a(q)]>> \in P <=> a(o) < a(q))
      BY <3>1 DEF Merges
    <3>6. a(o) = a(q) => ~(a(o) < a(q))
      BY <3>1 DEF Merges
    <3>7. CASE a(o) = a(q)
      BY <3>1, <3>2, <3>3, <3>4, <3>6, <3>7 DEF Before
    <3>8. CASE a(o) # a(q)
      BY <3>1, <3>2, <3>3, <3>4, <3>5, <3>8 DEF Before
    <3>9. QED
      BY <3>7, <3>8
  <2>2. CASE o[1] = u /\ q[1] # u
    <3>1. m[o][1] = c[a(o)] /\ a(o) \in 1 .. n /\ m[q] = q /\ q[1] \in live2 \ {u}
      BY <1>6, <1>7, <2>2
    <3>2. q[1] # c[a(o)] /\ (<<c[a(o)], q[1]>> \in P <=> <<u, q[1]>> \in P)
      BY <3>1 DEF Merges
    <3>3. QED
      BY <2>2, <3>1, <3>2 DEF Before
  <2>3. CASE o[1] # u /\ q[1] = u
    <3>1. m[q][1] = c[a(q)] /\ a(q) \in 1 .. n /\ m[o] = o /\ o[1] \in live2 \ {u}
      BY <1>6, <1>7, <2>3
    <3>2. o[1] # c[a(q)] /\ (<<o[1], c[a(q)]>> \in P <=> <<o[1], u>> \in P)
      BY <3>1 DEF Merges
    <3>3. QED
      BY <2>3, <3>1, <3>2 DEF Before
  <2>4. CASE o[1] # u /\ q[1] # u
    BY <1>7, <2>4
  <2>5. QED
    BY <2>1, <2>2, <2>3, <2>4
<1>13. \A o \in Y : m[o] \in X /\ What(ex, m[o]) = What(ex2, o)
  BY <1>6, <1>7
<1>14. Matches(m, live2, ex2, P, live, ex, P)
  BY <1>8, <1>11, <1>12, <1>13 DEF Matches, X, Y
<1>15. QED
  BY <1>14
LEMMA FuseOrder ==
  ASSUME IInv, OrderInv, NEW u \in Inner, Fuse(u)
  PROVE  OrderInv'
<1>1. PICK c, n, ss, s, l :
        c = Chain(u) /\ n = Len(c) /\ ss = ChainCalls(c) /\ s = prog'[u].calls /\ l = Len(s)
  OBVIOUS
<1>2. /\ chain = <<>> /\ Run(g, c) /\ n \in Nat /\ n > 1 /\ c[1] = u /\ chain' = c
      /\ \A k \in 1 .. n : c[k] \in Programmed /\ IsLLVMIR(c[k])
      /\ \A i, j \in 1 .. n : i # j => c[i] # c[j]
      /\ UNCHANGED <<g, recorded>>
  BY <1>1, FuseFacts
<1>3. \A x \in Inner \ {u} : prog'[x].calls = prog[x].calls
  BY <1>1, FuseFacts
<1>4. AreCalls(s) /\ Merged(s, ss, n)
  BY <1>1, FuseFacts
<1>5. PICK pos \in [1 .. l -> Items(ss, n)] :
        /\ \A q \in 1 .. l : s[q].kernel = ss[pos[q][1]][pos[q][2]].kernel
        /\ \A x \in Items(ss, n) : \E q \in 1 .. l : pos[q] = x
        /\ \A q, r \in 1 .. l : q < r <=> Earlier(pos[q], pos[r])
  <2>1. PICK pos \in [1 .. Len(s) -> Items(ss, n)] :
          /\ \A q \in 1 .. Len(s) : s[q].kernel = ss[pos[q][1]][pos[q][2]].kernel
          /\ \A x \in Items(ss, n) : \E q \in 1 .. Len(s) : pos[q] = x
          /\ \A q, r \in 1 .. Len(s) : q < r <=> Earlier(pos[q], pos[r])
    BY <1>4 DEF Merged
  <2>2. Len(s) = l
    BY <1>1
  <2>3. /\ pos \in [1 .. l -> Items(ss, n)]
        /\ \A q \in 1 .. l : s[q].kernel = ss[pos[q][1]][pos[q][2]].kernel
        /\ \A x \in Items(ss, n) : \E q \in 1 .. l : pos[q] = x
        /\ \A q, r \in 1 .. l : q < r <=> Earlier(pos[q], pos[r])
    BY <2>1, <2>2
  <2>4. QED
    BY <2>3
<1>6. PICK live2, ex2, live, ex, P :
        live2 = Live' /\ ex2 = Execution' /\ live = Live /\ ex = Execution /\ P = Paths(g)
  OBVIOUS
<1>7. live = Commands(g) /\ live2 = Commands(g) \ Onward(c, 2) /\ Commands(g) \subseteq Inner
  BY <1>2, <1>6 DEF Live, Onward, Commands
<1>8. ASSUME NEW k \in 1 .. n
      PROVE  /\ c[k] \in live /\ c[k] \in Inner /\ recorded.prog[c[k]].source = "LLVMIR"
             /\ DOMAIN ex[c[k]] = 1 .. Len(ss[k])
             /\ \A i \in 1 .. Len(ss[k]) : ex[c[k]][i] = ss[k][i].kernel
  <2>1. c[k] \in Programmed /\ IsLLVMIR(c[k])
    BY <1>2
  <2>2. c[k] \in live /\ c[k] \in Inner /\ prog[c[k]].source = "LLVMIR"
    BY <1>7, <2>1 DEF IsLLVMIR, Commands, Programmed
  <2>3. recorded.prog[c[k]].source = "LLVMIR" /\ AreCalls(prog[c[k]].calls)
    BY <2>2 DEF IInv, ProgramsSound
  <2>4. PICK x, t : x = c[k] /\ t = prog[x].calls
    OBVIOUS
  <2>5. AreCalls(t) /\ x \in Inner /\ recorded.prog[x].source = "LLVMIR"
    BY <2>2, <2>3, <2>4
  <2>6. ss[k] = t
    BY <1>1, <2>4 DEF ChainCalls
  <2>7. DOMAIN t = 1 .. Len(t)
    BY <2>5, CallsAreSequence
  <2>8. DOMAIN Execution[x] = DOMAIN t /\ \A i \in DOMAIN t : Execution[x][i] = t[i].kernel
    BY <2>4, <2>5, ExecutionOf
  <2>9. QED
    BY <1>6, <2>2, <2>3, <2>4, <2>6, <2>7, <2>8
<1>9. \A x : x \in Onward(c, 2) <=> \E k \in 1 .. n : k # 1 /\ x = c[k]
  <2>1. \A k : k \in 2 .. n <=> k \in 1 .. n /\ k # 1
    BY <1>2
  <2>2. QED
    BY <1>1, <2>1 DEF Onward
<1>10. u \in live2 /\ 1 \in 1 .. n
  <2>1. 1 \in 1 .. n
    BY <1>2
  <2>2. u \in live
    BY <1>2, <1>8, <2>1
  <2>3. u \notin Onward(c, 2)
    BY <1>2, <1>9, <2>1
  <2>4. QED
    BY <1>7, <2>1, <2>2, <2>3
<1>11. DOMAIN ex2[u] = 1 .. l /\ \A q \in 1 .. l : ex2[u][q] = s[q].kernel
  <2>1. recorded'.prog[u].source = "LLVMIR"
    BY <1>2, <1>8, <1>10
  <2>2. Execution'[u] = [i \in DOMAIN s |-> s[i].kernel]
    BY <1>1, <2>1 DEF Execution, Executed
  <2>3. DOMAIN s = 1 .. l
    BY <1>1, <1>4, CallsAreSequence
  <2>4. QED
    BY <1>6, <2>2, <2>3
<1>12. ASSUME NEW x \in Inner \ {u} PROVE ex2[x] = ex[x]
  <2>1. prog'[x].calls = prog[x].calls /\ recorded' = recorded
    BY <1>2, <1>3
  <2>2. Execution'[x] = Execution[x]
    BY <2>1 DEF Execution, Executed
  <2>3. QED
    BY <1>6, <2>2
<1>13. ASSUME NEW q \in 1 .. l PROVE ex2[u][q] = ex[c[pos[q][1]]][pos[q][2]]
  <2>1. pos[q][1] \in 1 .. n /\ pos[q][2] \in 1 .. Len(ss[pos[q][1]])
    <3>1. pos[q] \in Items(ss, n)
      BY <1>5
    <3>2. QED
      BY <3>1 DEF Items
  <2>2. s[q].kernel = ss[pos[q][1]][pos[q][2]].kernel
    BY <1>5
  <2>3. ex[c[pos[q][1]]][pos[q][2]] = ss[pos[q][1]][pos[q][2]].kernel
    BY <1>8, <2>1
  <2>4. QED
    BY <1>11, <2>2, <2>3
<1>14. Dag(g)
  BY DEF IInv, GraphSound
<1>15. ASSUME NEW i \in 1 .. n, NEW j \in 1 .. n, i # j
       PROVE  c[i] # c[j] /\ (<<c[i], c[j]>> \in P <=> i < j)
  <2>1. i < j \/ j < i
    BY <1>2, <1>15
  <2>2. i < j => <<c[i], c[j]>> \in Paths(g)
    BY <1>1, <1>2, <1>14, RunPaths
  <2>3. j < i => <<c[i], c[j]>> \notin Paths(g)
    BY <1>1, <1>2, <1>14, RunPaths
  <2>4. i < j => ~(j < i)
    BY <1>2
  <2>5. QED
    BY <1>2, <1>6, <1>15, <2>1, <2>2, <2>3, <2>4
<1>16. ASSUME NEW x \in live2 \ {u}
       PROVE  /\ x \in live /\ DOMAIN ex2[x] = DOMAIN ex[x] /\ \A i \in DOMAIN ex[x] : ex2[x][i] = ex[x][i]
              /\ \A k \in 1 .. n : /\ x # c[k]
                                   /\ <<x, c[k]>> \in P <=> <<x, u>> \in P
                                   /\ <<c[k], x>> \in P <=> <<u, x>> \in P
  <2>1. x \in live /\ x \in Inner \ {u} /\ x \in g.members
    BY <1>7 DEF Commands
  <2>2. \A k \in 1 .. n : x # c[k]
    BY <1>2, <1>7, <1>9
  <2>3. ASSUME NEW k \in 1 .. n
        PROVE  /\ <<x, c[k]>> \in P <=> <<x, u>> \in P
               /\ <<c[k], x>> \in P <=> <<u, x>> \in P
    <3>1. /\ <<x, c[k]>> \in Paths(g) <=> <<x, c[1]>> \in Paths(g)
          /\ <<c[k], x>> \in Paths(g) <=> <<c[1], x>> \in Paths(g)
      BY <1>1, <1>2, <1>14, <2>1, <2>2, RunAlike
    <3>2. QED
      BY <1>2, <1>6, <3>1
  <2>4. QED
    BY <1>12, <2>1, <2>2, <2>3
<1>17. \A x \in live : x \in live2 \ {u} \/ \E k \in 1 .. n : x = c[k]
  BY <1>2, <1>7, <1>9, <1>10
<1>18. l \in Nat
  BY <1>1, <1>4, CallsAreSequence
<1>19. Merges(n, c, u, ss, l, pos, live2, ex2, live, ex, P)
  BY <1>2, <1>5, <1>8, <1>10, <1>11, <1>13, <1>15, <1>16, <1>17, <1>18 DEF Merges
<1>20. PICK m : Matches(m, live2, ex2, P, live, ex, P)
  BY <1>19, MergeMatches
<1>21. Faithful(live, ex, P, recorded.commands, recorded.order)
  BY <1>6 DEF OrderInv
<1>22. Faithful(live2, ex2, P, recorded.commands, recorded.order)
  BY <1>20, <1>21, Transfer
<1>23. QED
  BY <1>2, <1>6, <1>22 DEF OrderInv

LEMMA NextOrder == IInv /\ OrderInv /\ [Next]_vars => OrderInv'
<1> SUFFICES ASSUME IInv, OrderInv, [Next]_vars PROVE OrderInv'
  OBVIOUS
<1>1. ASSUME UNCHANGED <<g, prog, recorded, chain>> PROVE OrderInv'
  BY <1>1 DEF OrderInv, Live, Commands, Execution, Executed
<1>2. CASE UNCHANGED vars
  BY <1>1, <1>2 DEF vars
<1>3. CASE StartProgFuse \/ Return \/ StartJit
  BY <1>1, <1>3 DEF StartProgFuse, Return, StartJit
<1>4. CASE Contract
  BY <1>4, ContractOrder
<1>5. ASSUME NEW u \in Inner, Pass(u) \/ Abort(u) \/ SkipJit(u) PROVE OrderInv'
  BY <1>1, <1>5 DEF Pass, Abort, SkipJit
<1>6. ASSUME NEW u \in Inner, RemoveControl(u) PROVE OrderInv'
  BY <1>6, RemoveControlOrder
<1>7. ASSUME NEW u \in Inner, Fuse(u) PROVE OrderInv'
  BY <1>7, FuseOrder
<1>8. ASSUME NEW u \in Inner, Compile(u) PROVE OrderInv'
  BY <1>8, CompileOrder
<1>9. QED
  BY <1>2, <1>3, <1>4, <1>5, <1>6, <1>7, <1>8 DEF Next

(* command_graph_t::pass_prog_fuse: whatever is fused, contracted, removed   *)
(* and compiled, every recorded command is executed once, and is ordered     *)
(* after exactly those it was recorded after.                                *)
THEOREM OrderStaysKept == Spec => []OrderKept
<1>1. Init => OrderInv
  BY InitOrder
<1>2. IInv /\ OrderInv /\ [Next]_vars => OrderInv'
  BY NextOrder
<1>3. OrderInv => OrderKept
  <2> SUFFICES ASSUME OrderInv, AtRest PROVE OrderKept
    BY DEF OrderKept
  <2> DEFINE C == Commands(g)
             X == UNION {{<<u, i>> : i \in DOMAIN Executed(u)} : u \in C}
             W(o) == Executed(o[1])[o[2]]
             P == Paths(g)
  <2>1. C \subseteq Inner /\ \A u \in Inner : Execution[u] = Executed(u)
    BY DEF Commands, Execution
  <2>2. Live = C
    BY DEF AtRest, Live, Onward
  <2>3. Occurrences(Live, Execution) = X
    <3> HIDE DEF C
    <3>1. QED
      BY <2>1, <2>2 DEF Occurrences
  <2>4. \A o \in X : W(o) = What(Execution, o)
    <3>1. \A o \in Occurrences(Live, Execution) : o[1] \in Live
      BY OccurrenceOf
    <3> HIDE DEF X, C
    <3>2. \A o \in X : o[1] \in Inner
      BY <2>1, <2>2, <2>3, <3>1
    <3>3. QED
      BY <2>1, <3>2 DEF What
  <2> HIDE DEF X, W, P
  <2>5. /\ \A o \in X : W(o) \in recorded.commands
        /\ \A x \in recorded.commands : \E o \in X : W(o) = x
        /\ \A o, q \in X : W(o) = W(q) => o = q
        /\ \A o, q \in X : Before(P, o, q) <=> <<W(o), W(q)>> \in recorded.order
    BY <2>3, <2>4 DEF OrderInv, Faithful, P
  <2>6. {W(o) : o \in X} = recorded.commands
    BY <2>5
  <2>7. \A o, q \in X : (IF o[1] = q[1] THEN o[2] < q[2] ELSE <<o[1], q[1]>> \in P) <=>
                          <<W(o), W(q)>> \in recorded.order
    BY <2>5 DEF Before
  <2>8. QED
    BY <2>5, <2>6, <2>7 DEF OrderKept, X, W, P
<1>4. QED
  BY <1>1, <1>2, <1>3, ProgFuseInvariant, PTL DEF Spec
-----------------------------------------------------------------------------
(***************************************************************************)
(* What the kernels are given.  The operators of ProgFuse fold over slots, *)
(* keys and offsets; each fold is reduced to a function of the number of   *)
(* steps taken, which can be reasoned about.                               *)
(***************************************************************************)
(* The greatest element of a set of naturals. *)
LEMMA GreatestNatural ==
  ASSUME NEW n \in Nat, NEW S, S \subseteq 0 .. n, S # {}
  PROVE  Seqs!Max(S) \in S /\ \A y \in S : y <= Seqs!Max(S)
<1> DEFINE T == {n - y : y \in S}
<1>1. T \subseteq Nat /\ T # {}
  <2>1. \A y \in S : y \in Int /\ n - y \in Nat
    OBVIOUS
  <2>2. \A x \in T : x \in Nat
    BY <2>1
  <2>3. PICK y \in S : TRUE
    OBVIOUS
  <2>4. n - y \in T
    BY <2>3
  <2> HIDE DEF T
  <2>5. QED
    BY <2>2, <2>4
<1>2. PICK m \in T : \A k \in T : m <= k
  <2> HIDE DEF T
  <2>1. QED
    BY <1>1, LeastNatural
<1>3. PICK x \in S : m = n - x
  BY <1>2
<1>4. \A y \in S : n - y \in T /\ y \in Int /\ x \in Int
  OBVIOUS
<1> HIDE DEF T
<1>5. \A y \in S : x >= y
  <2> SUFFICES ASSUME NEW y \in S PROVE x >= y
    OBVIOUS
  <2>1. m <= n - y
    BY <1>2, <1>4
  <2>2. QED
    BY <1>3, <1>4, <2>1
<1>6. \E z \in S : \A y \in S : z >= y
  BY <1>5
<1>7. Seqs!Max(S) \in S /\ \A y \in S : Seqs!Max(S) >= y
  BY <1>6 DEF Seqs!Max
<1>8. QED
  BY <1>4, <1>7

LEMMA MaxOfInterval ==
  ASSUME NEW m \in Nat, m > 0
  PROVE  Seqs!Max(1 .. m) = m /\ (1 .. m) \ {m} = 1 .. m - 1
<1> DEFINE S == 1 .. m
<1>1. S \subseteq 0 .. m /\ m \in S
  OBVIOUS
<1>2. Seqs!Max(S) \in S /\ \A y \in S : y <= Seqs!Max(S)
  <2> HIDE DEF S
  <2>1. QED
    BY <1>1, GreatestNatural
<1>3. Seqs!Max(S) = m
  BY <1>1, <1>2
<1>4. QED
  BY <1>3

(***************************************************************************)
(* A fold over a sequence of length n: steps[m] is the result after m of   *)
(* its elements.                                                           *)
(***************************************************************************)
IsFold(n, V, base, step, steps) ==
  /\ steps \in [0 .. n -> V]
  /\ steps[0] = base
  /\ \A m \in 1 .. n : steps[m] = step[<<m, steps[m - 1]>>]

(* The recursive function of FoldLeft exists, and takes these steps. *)
Iterates(n, base, step, iter) ==
  iter = [s \in SUBSET (1 .. n) |->
            IF s = {} THEN base ELSE step[<<Seqs!Max(s), iter[s \ {Seqs!Max(s)}]>>]]

LEMMA FoldsLeft ==
  ASSUME NEW n \in Nat, NEW V, NEW base \in V, NEW step \in [(1 .. n) \X V -> V]
  PROVE  \E iter : /\ Iterates(n, base, step, iter)
                   /\ iter \in [SUBSET (1 .. n) -> V]
<1> DEFINE S == 1 .. n
           pick == [s \in SUBSET S |-> Seqs!Max(s)]
<1>1. IsFiniteSet(S)
  BY FS_Interval
<1>2. \A s \in SUBSET S : pick[s] = Seqs!Max(s) /\ (s # {} => pick[s] \in s)
  <2> SUFFICES ASSUME NEW s \in SUBSET S PROVE s # {} => Seqs!Max(s) \in s
    OBVIOUS
  <2>1. s \subseteq 0 .. n
    OBVIOUS
  <2>2. QED
    BY <2>1, GreatestNatural
<1>3. step \in [S \X V -> V]
  OBVIOUS
<1> HIDE DEF S, pick
<1>4. PICK h : FoldingBy(SUBSET S, V, pick, base, step, h)
  BY <1>1, <1>2, <1>3, FoldByExists
<1>5. h \in [SUBSET S -> V]
  BY <1>4 DEF FoldingBy
<1>6. \A s \in SUBSET S :
        h[s] = IF s = {} THEN base ELSE step[<<Seqs!Max(s), h[s \ {Seqs!Max(s)}]>>]
  BY <1>2, <1>4 DEF FoldingBy
<1>7. Iterates(n, base, step, h)
  BY <1>5, <1>6 DEF Iterates, S
<1>8. QED
  BY <1>5, <1>7 DEF S

(* What takes these steps on the first m numbers, for every m. *)
LEMMA IterateSteps ==
  ASSUME NEW n \in Nat, NEW V, NEW base, NEW step, NEW steps, IsFold(n, V, base, step, steps),
         NEW iter, iter[{}] = base,
         \A m \in 1 .. n : iter[1 .. m - 1] \in V => iter[1 .. m] = step[<<m, iter[1 .. m - 1]>>]
  PROVE  iter[1 .. n] = steps[n]
<1> DEFINE B == {m \in 0 .. n : iter[1 .. m] # steps[m]}
<1>2. SUFFICES ASSUME B # {} PROVE FALSE
  OBVIOUS
<1>3. PICK m \in B : \A k \in B : m <= k
  <2>1. B \subseteq Nat
    OBVIOUS
  <2> HIDE DEF B
  <2>2. QED
    BY <1>2, <2>1, LeastNatural
<1>4. CASE m = 0
  <2>1. 1 .. 0 = {}
    OBVIOUS
  <2>2. QED
    BY <1>3, <1>4, <2>1 DEF IsFold
<1>5. CASE m # 0
  <2>1. m \in 1 .. n /\ m - 1 \in 0 .. n /\ m - 1 < m
    BY <1>3, <1>5
  <2>2. iter[1 .. m - 1] = steps[m - 1]
    BY <1>3, <2>1
  <2>3. steps[m - 1] \in V /\ steps[m] = step[<<m, steps[m - 1]>>]
    BY <2>1 DEF IsFold
  <2>4. QED
    BY <1>3, <2>1, <2>2, <2>3
<1>6. QED
  BY <1>4, <1>5

(* Two folds that take the same steps at first get the same results. *)
LEMMA SameSteps ==
  ASSUME NEW n \in Nat, NEW m \in 0 .. n, NEW V, NEW base, NEW step, NEW step2,
         NEW steps, IsFold(n, V, base, step, steps),
         NEW steps2, IsFold(m, V, base, step2, steps2),
         \A k \in 1 .. m : \A v \in V : step[<<k, v>>] = step2[<<k, v>>]
  PROVE  \A k \in 0 .. m : steps2[k] = steps[k]
<1> DEFINE B == {k \in 0 .. m : steps2[k] # steps[k]}
<1>1. SUFFICES ASSUME B # {} PROVE FALSE
  OBVIOUS
<1>2. PICK k \in B : \A l \in B : k <= l
  <2>1. B \subseteq Nat
    OBVIOUS
  <2> HIDE DEF B
  <2>2. QED
    BY <1>1, <2>1, LeastNatural
<1>3. k # 0
  BY <1>2 DEF IsFold
<1>4. k \in 1 .. m /\ k - 1 \in 0 .. m /\ k - 1 < k /\ k \in 1 .. n
  BY <1>2, <1>3
<1>5. steps2[k - 1] = steps[k - 1] /\ steps2[k - 1] \in V
  BY <1>2, <1>4 DEF IsFold
<1>6. steps[k] = step[<<k, steps[k - 1]>>] /\ steps2[k] = step2[<<k, steps2[k - 1]>>]
  BY <1>4 DEF IsFold
<1>7. QED
  BY <1>2, <1>4, <1>5, <1>6

LEMMA FoldStepsExist ==
  ASSUME NEW n \in Nat, NEW V, NEW base \in V, NEW step \in [(1 .. n) \X V -> V]
  PROVE  \E steps : IsFold(n, V, base, step, steps)
<1>1. PICK iter : Iterates(n, base, step, iter) /\ iter \in [SUBSET (1 .. n) -> V]
  BY FoldsLeft
<1>2. \A s \in SUBSET (1 .. n) :
        iter[s] = IF s = {} THEN base ELSE step[<<Seqs!Max(s), iter[s \ {Seqs!Max(s)}]>>]
  BY <1>1 DEF Iterates
<1> DEFINE steps == [m \in 0 .. n |-> iter[1 .. m]]
<1>3. \A m \in 0 .. n : 1 .. m \in SUBSET (1 .. n) /\ iter[1 .. m] \in V /\ steps[m] = iter[1 .. m]
  BY <1>1
<1>4. steps[0] = base
  <2>1. 1 .. 0 = {} /\ 1 .. 0 \in SUBSET (1 .. n) /\ 0 \in 0 .. n
    OBVIOUS
  <2>2. iter[1 .. 0] = base
    BY <1>2, <2>1
  <2>3. QED
    BY <1>3, <2>1, <2>2
<1>5. ASSUME NEW m \in 1 .. n PROVE steps[m] = step[<<m, steps[m - 1]>>]
  <2> DEFINE s == 1 .. m
  <2>1. m \in Nat /\ m > 0 /\ m - 1 \in 0 .. n /\ m \in 0 .. n
    OBVIOUS
  <2>2. s \in SUBSET (1 .. n) /\ s # {} /\ Seqs!Max(s) = m /\ s \ {m} = 1 .. m - 1
    BY SMTT(30), <2>1, MaxOfInterval
  <2>3. steps[m] = iter[s] /\ steps[m - 1] = iter[1 .. m - 1]
    BY <1>3, <2>1
  <2> HIDE DEF s, steps
  <2>4. iter[s] = step[<<Seqs!Max(s), iter[s \ {Seqs!Max(s)}]>>]
    BY <1>2, <2>2
  <2>5. QED
    BY <2>2, <2>3, <2>4
<1>6. steps \in [0 .. n -> V]
  BY <1>3
<1> HIDE DEF steps
<1>7. IsFold(n, V, base, step, steps)
  BY <1>4, <1>5, <1>6 DEF IsFold
<1>8. QED
  BY <1>7
-----------------------------------------------------------------------------
(* F[m] are the unique ones of the first m of the incoming slots inc. *)
Keyed(us, x) == \E k \in DOMAIN us : us[k].key = x.key

IsDedup(inc, X, F) ==
  /\ F \in [0 .. Len(inc) -> Seq(X)] /\ F[0] = <<>>
  /\ \A m \in 1 .. Len(inc) :
       F[m] = IF Keyed(F[m - 1], inc[m]) THEN F[m - 1] ELSE Append(F[m - 1], inc[m])

(* The slots are taken in one after the other. *)
Dedup(inc, X) ==
  [x \in (1 .. Len(inc)) \X Seq(X) |->
     IF Keyed(x[2], inc[x[1]]) THEN x[2] ELSE Append(x[2], inc[x[1]])]

LEMMA DedupSteps ==
  ASSUME NEW X, NEW inc \in Seq(X)
  PROVE  /\ Len(inc) \in Nat /\ Dedup(inc, X) \in [(1 .. Len(inc)) \X Seq(X) -> Seq(X)]
         /\ \A F : IsFold(Len(inc), Seq(X), <<>>, Dedup(inc, X), F) => IsDedup(inc, X, F)
<1>1. ASSUME NEW m \in 1 .. Len(inc), NEW us \in Seq(X)
      PROVE  /\ Dedup(inc, X)[<<m, us>>] = IF Keyed(us, inc[m]) THEN us ELSE Append(us, inc[m])
             /\ Dedup(inc, X)[<<m, us>>] \in Seq(X)
  <2>1. inc[m] \in X /\ Append(us, inc[m]) \in Seq(X)
    OBVIOUS
  <2>2. <<m, us>> \in (1 .. Len(inc)) \X Seq(X)
    OBVIOUS
  <2>3. Dedup(inc, X)[<<m, us>>] = IF Keyed(us, inc[m]) THEN us ELSE Append(us, inc[m])
    BY <2>2 DEF Dedup
  <2>4. QED
    BY <2>1, <2>3
<1>2. Dedup(inc, X) \in [(1 .. Len(inc)) \X Seq(X) -> Seq(X)]
  <2>1. \A x \in (1 .. Len(inc)) \X Seq(X) : x = <<x[1], x[2]>> /\ Dedup(inc, X)[x] \in Seq(X)
    BY <1>1
  <2>2. Dedup(inc, X) = [x \in (1 .. Len(inc)) \X Seq(X) |-> Dedup(inc, X)[x]]
    BY DEF Dedup
  <2>3. QED
    BY <2>1, <2>2
<1>3. ASSUME NEW F, IsFold(Len(inc), Seq(X), <<>>, Dedup(inc, X), F) PROVE IsDedup(inc, X, F)
  <2>1. \A m \in 1 .. Len(inc) : m - 1 \in 0 .. Len(inc)
    OBVIOUS
  <2>2. QED
    BY <1>1, <1>3, <2>1 DEF IsFold, IsDedup
<1>4. QED
  BY <1>2, <1>3

LEMMA UniqueSteps ==
  ASSUME NEW ps, NEW X, Incoming(ps) \in Seq(X)
  PROVE  \E F : /\ IsFold(Len(Incoming(ps)), Seq(X), <<>>, Dedup(Incoming(ps), X), F)
               /\ Unique(ps) = F[Len(Incoming(ps))]
<1> DEFINE inc == Incoming(ps)
           n == Len(inc)
           step == Dedup(inc, X)
           op(us, x) == IF \E k \in DOMAIN us : us[k].key = x.key THEN us ELSE Append(us, x)
           Q(it) == it = [s \in SUBSET (1 .. n) |->
                            IF s = {} THEN <<>> ELSE op(it[s \ {Seqs!Max(s)}], inc[Seqs!Max(s)])]
           fold == CHOOSE it : Q(it)
<1>1. n \in Nat /\ <<>> \in Seq(X) /\ DOMAIN inc = 1 .. n /\ step \in [(1 .. n) \X Seq(X) -> Seq(X)]
  <2>1. inc \in Seq(X)
    OBVIOUS
  <2> HIDE DEF inc
  <2>2. Len(inc) \in Nat /\ Dedup(inc, X) \in [(1 .. Len(inc)) \X Seq(X) -> Seq(X)]
    BY <2>1, DedupSteps
  <2>3. <<>> \in Seq(X) /\ DOMAIN inc = 1 .. n
    BY <2>1
  <2>4. QED
    BY <2>2, <2>3
<1>2. \A m \in 1 .. n, us \in Seq(X) : step[<<m, us>>] = op(us, inc[m])
  BY DEF Dedup, Keyed
<1>3. Unique(ps) = fold[1 .. n]
  BY <1>1 DEF Unique, Seqs!FoldLeft, Seqs!MapThenFoldSet
<1> HIDE DEF inc, n, step, op
<1>4. \E it : Q(it)
  <2>1. PICK it : Iterates(n, <<>>, step, it) /\ it \in [SUBSET (1 .. n) -> Seq(X)]
    BY <1>1, FoldsLeft
  <2>2. ASSUME NEW s \in SUBSET (1 .. n), s # {}
        PROVE  step[<<Seqs!Max(s), it[s \ {Seqs!Max(s)}]>>] = op(it[s \ {Seqs!Max(s)}], inc[Seqs!Max(s)])
    <3>1. s \subseteq 0 .. n
      BY <1>1
    <3>2. Seqs!Max(s) \in s
      BY <1>1, <2>2, <3>1, GreatestNatural
    <3>3. it[s \ {Seqs!Max(s)}] \in Seq(X)
      BY <2>1
    <3>4. QED
      BY <1>2, <3>2, <3>3
  <2>3. Q(it)
    BY <2>1, <2>2 DEF Iterates
  <2>4. QED
    BY <2>3
<1>5. Q(fold)
  BY <1>4
<1> HIDE DEF fold
<1>6. \A s \in SUBSET (1 .. n) :
        fold[s] = IF s = {} THEN <<>> ELSE op(fold[s \ {Seqs!Max(s)}], inc[Seqs!Max(s)])
  BY <1>5
<1>7. PICK F : IsFold(n, Seq(X), <<>>, step, F)
  BY <1>1, FoldStepsExist
<1>8. fold[{}] = <<>>
  BY <1>6
<1>9. ASSUME NEW m \in 1 .. n, fold[1 .. m - 1] \in Seq(X)
      PROVE  fold[1 .. m] = step[<<m, fold[1 .. m - 1]>>]
  <2> DEFINE s == 1 .. m
  <2>1. m \in Nat /\ m > 0
    BY <1>1
  <2>2. s \in SUBSET (1 .. n) /\ s # {} /\ Seqs!Max(s) = m /\ s \ {m} = 1 .. m - 1
    BY <1>1, <2>1, MaxOfInterval
  <2> HIDE DEF s
  <2>3. fold[s] = op(fold[s \ {Seqs!Max(s)}], inc[Seqs!Max(s)])
    BY <1>6, <2>2
  <2>4. fold[s] = op(fold[1 .. m - 1], inc[m])
    BY <2>2, <2>3
  <2>5. QED
    BY <1>2, <1>9, <2>4 DEF s
<1>10. fold[1 .. n] = F[n]
  BY <1>1, <1>7, <1>8, <1>9, IterateSteps
<1>11. QED
  BY <1>3, <1>7, <1>10 DEF inc, n, step
-----------------------------------------------------------------------------
(* The unique ones of the first m incoming slots are some of these, every  *)
(* one of these has the key of one of them, and they stay where they are.  *)
DedupAt(inc, F, m) ==
  /\ \A k \in 1 .. Len(F[m]) : \E q \in 1 .. m : F[m][k] = inc[q]
  /\ \A q \in 1 .. m : Keyed(F[m], inc[q])
  /\ \A l \in 0 .. m : /\ Len(F[l]) <= Len(F[m])
                       /\ \A k \in 1 .. Len(F[l]) : F[m][k] = F[l][k]

LEMMA DedupFacts ==
  ASSUME NEW X, NEW inc \in Seq(X), NEW F, IsDedup(inc, X, F)
  PROVE  \A m \in 0 .. Len(inc) : DedupAt(inc, F, m)
<1> DEFINE n == Len(inc)
           B == {m \in 0 .. n : ~DedupAt(inc, F, m)}
<1>1. SUFFICES ASSUME B # {} PROVE FALSE
  OBVIOUS
<1>2. n \in Nat
  OBVIOUS
<1>3. PICK m \in B : \A k \in B : m <= k
  <2>1. B \subseteq Nat
    OBVIOUS
  <2> HIDE DEF B
  <2>2. QED
    BY <1>1, <2>1, LeastNatural
<1>4. CASE m = 0
  <2>1. F[0] = <<>> /\ Len(F[0]) = 0 /\ 1 .. 0 = {} /\ \A l \in 0 .. 0 : l = 0
    BY DEF IsDedup
  <2>2. DedupAt(inc, F, 0)
    BY <2>1 DEF DedupAt
  <2>3. QED
    BY <1>3, <1>4, <2>2
<1>5. CASE m # 0
  <2> DEFINE p == m - 1
             us == F[p]
             vs == F[m]
             x == inc[m]
  <2>1. /\ m \in 1 .. n /\ p \in 0 .. n /\ p < m /\ p \in Nat
        /\ \A q \in 1 .. m : q \in 1 .. p \/ q = m
        /\ \A l \in 0 .. m : l \in 0 .. p \/ l = m
    BY <1>2, <1>3, <1>5
  <2>2. DedupAt(inc, F, p)
    BY <1>3, <2>1
  <2>3. us \in Seq(X) /\ vs \in Seq(X) /\ x \in X /\ Len(us) \in Nat
    BY <2>1 DEF IsDedup
  <2>4. vs = IF Keyed(us, x) THEN us ELSE Append(us, x)
    BY <2>1 DEF IsDedup
  <2>5. \A q \in 1 .. p : q \in 1 .. m
    BY <2>1
  <2>6. /\ \A k \in 1 .. Len(us) : \E q \in 1 .. p : us[k] = inc[q]
        /\ \A q \in 1 .. p : Keyed(us, inc[q])
        /\ \A l \in 0 .. p : /\ Len(F[l]) <= Len(us)
                             /\ \A k \in 1 .. Len(F[l]) : us[k] = F[l][k]
    BY <2>2 DEF DedupAt
  <2>7. \A l \in 0 .. n : Len(F[l]) \in Nat
    BY DEF IsDedup
  <2> HIDE DEF us, vs, x, n
  <2>8. CASE Keyed(us, x)
    <3>1. vs = us
      BY <2>4, <2>8
    <3>2. \A k \in 1 .. Len(vs) : \E q \in 1 .. m : vs[k] = inc[q]
      BY <2>5, <2>6, <3>1
    <3>3. \A q \in 1 .. m : Keyed(vs, inc[q])
      BY <2>1, <2>6, <2>8, <3>1 DEF x
    <3>4. \A l \in 0 .. m : /\ Len(F[l]) <= Len(vs)
                            /\ \A k \in 1 .. Len(F[l]) : vs[k] = F[l][k]
      BY <2>1, <2>3, <2>6, <3>1 DEF vs
    <3>5. DedupAt(inc, F, m)
      BY <3>2, <3>3, <3>4 DEF DedupAt, vs
    <3>6. QED
      BY <1>3, <3>5
  <2>9. CASE ~Keyed(us, x)
    <3>1. vs = Append(us, x)
      BY <2>4, <2>9
    <3>2. /\ Len(vs) = Len(us) + 1 /\ vs[Len(us) + 1] = x
          /\ \A k \in 1 .. Len(us) : vs[k] = us[k]
          /\ \A k \in 1 .. Len(vs) : k \in 1 .. Len(us) \/ k = Len(us) + 1
          /\ DOMAIN us = 1 .. Len(us) /\ DOMAIN vs = 1 .. Len(us) + 1
          /\ Len(us) + 1 \in 1 .. Len(us) + 1
          /\ \A k \in 1 .. Len(us) : k \in 1 .. Len(us) + 1
      BY <2>3, <3>1
    <3>3. \A k \in 1 .. Len(vs) : \E q \in 1 .. m : vs[k] = inc[q]
      BY <2>1, <2>5, <2>6, <3>2 DEF x
    <3>4. \A q \in 1 .. m : Keyed(vs, inc[q])
      <4>1. Keyed(vs, inc[m])
        BY <3>2 DEF Keyed, x
      <4>2. ASSUME NEW q \in 1 .. p PROVE Keyed(vs, inc[q])
        <5>1. PICK k \in DOMAIN us : us[k].key = inc[q].key
          BY <2>6 DEF Keyed
        <5>2. k \in DOMAIN vs /\ vs[k].key = inc[q].key
          BY <3>2, <5>1
        <5>3. QED
          BY <5>2 DEF Keyed
      <4>3. QED
        BY <2>1, <4>1, <4>2
    <3>5. ASSUME NEW l \in 0 .. m
          PROVE  /\ Len(F[l]) <= Len(vs)
                 /\ \A k \in 1 .. Len(F[l]) : vs[k] = F[l][k]
      <4>1. CASE l = m
        BY <2>3, <3>2, <4>1 DEF vs
      <4>2. CASE l \in 0 .. p
        <5>1. Len(F[l]) <= Len(us) /\ Len(F[l]) \in Nat /\ Len(us) \in Nat
              /\ \A k \in 1 .. Len(F[l]) : us[k] = F[l][k]
          <6>1. l \in 0 .. n
            BY <1>2, <2>1, <4>2
          <6>2. QED
            BY <2>3, <2>6, <2>7, <4>2, <6>1
        <5>2. \A k \in 1 .. Len(F[l]) : k \in 1 .. Len(us)
          BY <5>1
        <5>3. QED
          BY <3>2, <5>1, <5>2
      <4>3. QED
        BY <2>1, <4>1, <4>2
    <3>6. DedupAt(inc, F, m)
      BY <3>3, <3>4, <3>5 DEF DedupAt, vs
    <3>7. QED
      BY <1>3, <3>6
  <2>10. QED
    BY <2>8, <2>9
<1>6. QED
  BY <1>4, <1>5

(* Slots with keys that did not come before are appended one by one. *)
AllNew(inc, b, r) ==
  \A j \in 1 .. r : \A q \in 1 .. b + j - 1 : inc[q].key # inc[b + j].key

Appended(F, inc, b, r) ==
  \A j \in 1 .. r : Len(F[b + j]) = Len(F[b]) + j /\ F[b + j][Len(F[b]) + j] = inc[b + j]

LEMMA NewRun ==
  ASSUME NEW X, NEW inc \in Seq(X), NEW F, IsDedup(inc, X, F),
         NEW b \in Nat, NEW r \in Nat, b + r <= Len(inc), AllNew(inc, b, r)
  PROVE  Appended(F, inc, b, r)
<1> DEFINE n == Len(inc)
           l == Len(F[b])
           B == {j \in 0 .. r : Len(F[b + j]) # l + j}
<1>1. n \in Nat /\ b \in 0 .. n /\ \A j \in 0 .. r : b + j \in 0 .. n
  OBVIOUS
<1>2. \A m \in 0 .. n : F[m] \in Seq(X) /\ Len(F[m]) \in Nat
  <2>1. \A m \in 0 .. n : F[m] \in Seq(X)
    BY DEF IsDedup
  <2>2. \A s \in Seq(X) : Len(s) \in Nat
    OBVIOUS
  <2>3. QED
    BY <2>1, <2>2
<1>3. l \in Nat
  BY <1>1, <1>2
<1>4. ASSUME NEW j \in 1 .. r PROVE F[b + j] = Append(F[b + j - 1], inc[b + j])
  <2> DEFINE m == b + j
  <2>1. m \in 1 .. n /\ m - 1 \in 0 .. n
    BY <1>1
  <2>2. ~Keyed(F[m - 1], inc[m])
    <3>1. DedupAt(inc, F, m - 1)
      BY <2>1, DedupFacts
    <3>2. \A k \in 1 .. Len(F[m - 1]) : \E q \in 1 .. m - 1 : F[m - 1][k] = inc[q]
      BY <3>1 DEF DedupAt
    <3>3. DOMAIN F[m - 1] = 1 .. Len(F[m - 1])
      BY <1>2, <2>1
    <3>4. \A q \in 1 .. m - 1 : inc[q].key # inc[m].key
      <4>1. \A q \in 1 .. b + j - 1 : inc[q].key # inc[b + j].key
        BY DEF AllNew
      <4>2. \A q \in 1 .. m - 1 : q \in 1 .. b + j - 1
        OBVIOUS
      <4> HIDE DEF m
      <4>3. \A q \in 1 .. m - 1 : inc[q].key # inc[b + j].key
        BY <4>1, <4>2
      <4>4. QED
        BY <4>3 DEF m
    <3> HIDE DEF m
    <3>5. QED
      BY <3>2, <3>3, <3>4 DEF Keyed
  <2>3. F[m] = IF Keyed(F[m - 1], inc[m]) THEN F[m - 1] ELSE Append(F[m - 1], inc[m])
    BY <2>1 DEF IsDedup
  <2>4. QED
    BY <2>2, <2>3
<1>5. ASSUME NEW j \in 1 .. r
      PROVE  /\ Len(F[b + j]) = Len(F[b + j - 1]) + 1
             /\ F[b + j][Len(F[b + j - 1]) + 1] = inc[b + j]
  <2>1. b + j - 1 \in 0 .. n /\ b + j \in 1 .. n
    BY <1>1
  <2> DEFINE us == F[b + j - 1]
             x == inc[b + j]
  <2>2. us \in Seq(X) /\ x \in X /\ F[b + j] = Append(us, x)
    <3>1. us \in Seq(X)
      BY <1>2, <2>1
    <3>2. x \in X
      BY <2>1
    <3>3. F[b + j] = Append(us, x)
      BY <1>4
    <3>4. QED
      BY <3>1, <3>2, <3>3
  <2> HIDE DEF us, x
  <2>3. Len(F[b + j]) = Len(us) + 1 /\ F[b + j][Len(us) + 1] = x
    BY <2>2
  <2>4. QED
    BY <2>3 DEF us, x
<1>6. B = {}
  <2>1. SUFFICES ASSUME B # {} PROVE FALSE
    OBVIOUS
  <2>2. PICK j \in B : \A k \in B : j <= k
    <3>1. B \subseteq Nat
      OBVIOUS
    <3> HIDE DEF B
    <3>2. QED
      BY <2>1, <3>1, LeastNatural
  <2>3. j # 0
    BY <1>3, <2>2
  <2>4. j \in 1 .. r /\ j - 1 \in 0 .. r /\ j - 1 < j /\ b + j - 1 = b + (j - 1)
    BY <2>2, <2>3
  <2>5. Len(F[b + (j - 1)]) = l + (j - 1)
    <3> DEFINE i == j - 1
    <3>1. i \in 0 .. r /\ ~(j <= i)
      BY <2>4
    <3> HIDE DEF i, l
    <3>2. i \notin B
      <4> HIDE DEF B
      <4>1. QED
        BY <2>2, <3>1
    <3>3. Len(F[b + i]) = l + i
      BY <3>1, <3>2
    <3>4. QED
      BY <3>3 DEF i
  <2>6. Len(F[b + j]) = l + j
    <3>1. Len(F[b + j]) = Len(F[b + (j - 1)]) + 1
      BY <1>5, <2>4
    <3> HIDE DEF l
    <3>2. QED
      BY <1>3, <2>4, <2>5, <3>1
  <2>7. QED
    BY <2>2, <2>6
<1>7. ASSUME NEW j \in 1 .. r PROVE Len(F[b + j]) = l + j /\ F[b + j][l + j] = inc[b + j]
  <2>1. j \in 0 .. r /\ j - 1 \in 0 .. r /\ b + j - 1 = b + (j - 1)
    OBVIOUS
  <2>2. Len(F[b + j]) = l + j /\ Len(F[b + (j - 1)]) = l + (j - 1)
    BY <1>6, <2>1
  <2>3. Len(F[b + (j - 1)]) + 1 = l + j
    BY <1>3, <2>2
  <2>4. QED
    BY <1>5, <2>1, <2>2, <2>3
<1>8. QED
  BY <1>7 DEF Appended
-----------------------------------------------------------------------------
(* f[k] is the concatenation of the first k of the sequences ss. *)
IsConcat(ss, n, X, f) ==
  /\ f \in [0 .. n -> Seq(X)] /\ f[0] = <<>>
  /\ \A k \in 1 .. n : f[k] = f[k - 1] \o ss[k]

LEMMA ConcatSteps ==
  ASSUME NEW X, NEW ss \in Seq(Seq(X))
  PROVE  \E f : IsConcat(ss, Len(ss), X, f) /\ Seqs!FlattenSeq(ss) = f[Len(ss)]
<1> DEFINE n == Len(ss)
           F(h) == h = [i \in 1 .. n |-> IF i = 1 THEN ss[i] ELSE h[i - 1] \o ss[i]]
           flatten == CHOOSE h : F(h)
           f == [k \in 0 .. n |-> IF k = 0 THEN <<>> ELSE flatten[k]]
<1>1. n \in Nat /\ \A i \in 1 .. n : ss[i] \in Seq(X)
  OBVIOUS
<1>2. \E h : F(h)
  BY ZenonT(60), <1>1, FlatSteps
<1>3. F(flatten)
  BY ZenonT(60), <1>2
<1>4. Seqs!FlattenSeq(ss) = f[n]
  BY <1>1 DEF Seqs!FlattenSeq
<1> HIDE DEF flatten
<1>5. ASSUME NEW i \in 1 .. n PROVE flatten[i] = IF i = 1 THEN ss[i] ELSE flatten[i - 1] \o ss[i]
  BY <1>3
<1>6. f[0] = <<>> /\ \A k \in 1 .. n : f[k] = flatten[k]
  BY <1>1
<1>7. ASSUME NEW k \in 0 .. n PROVE k = 0 \/ (k \in 1 .. n /\ k - 1 \in 0 .. n /\ k - 1 < k)
  OBVIOUS
<1>8. f = [k \in 0 .. n |-> f[k]]
  OBVIOUS
<1> HIDE DEF f, F
<1>9. ASSUME NEW k \in 0 .. n, f[k] \notin Seq(X) PROVE FALSE
  <2> DEFINE B == {m \in 0 .. n : f[m] \notin Seq(X)}
  <2>1. PICK m \in B : \A l \in B : m <= l
    <3>1. B \subseteq Nat /\ B # {}
      BY <1>9
    <3> HIDE DEF B
    <3>2. QED
      BY <3>1, LeastNatural
  <2>2. m # 0
    <3>1. f[0] \in Seq(X)
      BY <1>6
    <3>2. QED
      BY <2>1, <3>1
  <2>3. m \in 1 .. n /\ m - 1 \in 0 .. n /\ m - 1 < m
    BY <1>7, <2>1, <2>2
  <2>4. f[m - 1] \in Seq(X) /\ ss[m] \in Seq(X)
    BY <1>1, <2>1, <2>3
  <2>5. CASE m = 1
    BY <1>5, <1>6, <2>1, <2>3, <2>4, <2>5
  <2>6. CASE m # 1
    <3>1. m - 1 \in 1 .. n
      BY <2>3, <2>6
    <3>2. f[m] = f[m - 1] \o ss[m]
      BY <1>5, <1>6, <2>3, <2>6, <3>1
    <3>3. f[m] \in Seq(X)
      BY <2>4, <3>2
    <3>4. QED
      BY <2>1, <3>3
  <2>7. QED
    BY <2>5, <2>6
<1>10. ASSUME NEW k \in 1 .. n PROVE f[k] = f[k - 1] \o ss[k]
  <2>1. CASE k = 1
    <3>1. f[k] = ss[1] /\ ss[1] \in Seq(X)
      BY <1>1, <1>5, <1>6, <2>1
    <3>2. <<>> \o ss[1] = ss[1]
      BY <3>1
    <3>3. k - 1 = 0
      BY <2>1
    <3>4. f[k - 1] = <<>>
      BY <1>6, <3>3
    <3>5. QED
      BY <2>1, <3>1, <3>2, <3>4
  <2>2. CASE k # 1
    <3>1. k - 1 \in 1 .. n
      BY <2>2
    <3>2. QED
      BY <1>5, <1>6, <2>2, <3>1
  <2>3. QED
    BY <2>1, <2>2
<1>11. f \in [0 .. n -> Seq(X)]
  BY <1>8, <1>9
<1>12. IsConcat(ss, n, X, f)
  BY <1>6, <1>10, <1>11 DEF IsConcat
<1>13. QED
  BY <1>4, <1>12

(* Flattened, the first i - 1 of the sequences ss come first, then ss[i]. *)
Splits(X, inc, head, t) ==
  /\ inc \in Seq(X) /\ head \in Seq(X) /\ Len(head) \in Nat /\ Len(t) \in Nat
  /\ Len(inc) \in Nat /\ Len(head) + Len(t) <= Len(inc)
  /\ \A q \in 1 .. Len(head) : inc[q] = head[q]
  /\ \A j \in 1 .. Len(t) : inc[Len(head) + j] = t[j]

LEMMA FlatSplit ==
  ASSUME NEW X, NEW ss \in Seq(Seq(X)), NEW i \in 1 .. Len(ss), NEW p, p = i - 1,
         NEW front \in Seq(Seq(X)), Len(front) = p, \A k \in 1 .. p : front[k] = ss[k]
  PROVE  Splits(X, Seqs!FlattenSeq(ss), Seqs!FlattenSeq(front), ss[i])
<1> DEFINE n == Len(ss)
<1>0. PICK inc, head, b, r : /\ inc = Seqs!FlattenSeq(ss) /\ head = Seqs!FlattenSeq(front)
                            /\ b = Len(head) /\ r = Len(ss[i])
  OBVIOUS
<1>1. PICK f : IsConcat(ss, n, X, f) /\ inc = f[n]
  BY <1>0, ConcatSteps
<1>2. PICK h : IsConcat(front, p, X, h) /\ head = h[p]
  BY <1>0, ConcatSteps
<1>3. /\ n \in Nat /\ p \in Nat /\ p \in 0 .. n /\ i \in 0 .. n /\ i - 1 = p /\ ss[i] \in Seq(X)
      /\ \A k \in 1 .. n : ss[k] \in Seq(X)
      /\ \A k \in 1 .. p : front[k] = ss[k] /\ k \in 1 .. n
  OBVIOUS
<1> HIDE DEF n
<1>4. \A k \in 0 .. n : f[k] \in Seq(X) /\ Len(f[k]) \in Nat
  <2>1. \A k \in 0 .. n : f[k] \in Seq(X)
    BY <1>1 DEF IsConcat
  <2>2. \A s \in Seq(X) : Len(s) \in Nat
    OBVIOUS
  <2>3. QED
    BY <2>1, <2>2
<1>5. ASSUME NEW k \in 1 .. n
      PROVE  Len(f[k - 1]) <= Len(f[k]) /\ \A q \in 1 .. Len(f[k - 1]) : f[k][q] = f[k - 1][q]
  <2>1. k - 1 \in 0 .. n /\ k \in 0 .. n
    BY <1>3
  <2>2. PICK s, t : s = f[k - 1] /\ t = ss[k]
    OBVIOUS
  <2>3. s \in Seq(X) /\ t \in Seq(X) /\ f[k] = s \o t
    BY <1>1, <1>3, <1>4, <2>1, <2>2 DEF IsConcat
  <2>4. Len(s) <= Len(s \o t) /\ \A q \in 1 .. Len(s) : (s \o t)[q] = s[q]
    BY <2>3
  <2>5. QED
    BY <2>2, <2>3, <2>4
<1>6. \A k \in 0 .. p : h[k] = f[k]
  <2> DEFINE B == {k \in 0 .. p : h[k] # f[k]}
  <2>1. SUFFICES ASSUME B # {} PROVE FALSE
    OBVIOUS
  <2>2. PICK k \in B : \A l \in B : k <= l
    <3>1. B \subseteq Nat
      OBVIOUS
    <3> HIDE DEF B
    <3>2. QED
      BY <2>1, <3>1, LeastNatural
  <2>3. k # 0
    BY <1>1, <1>2, <2>2 DEF IsConcat
  <2>4. k \in 1 .. p /\ k - 1 \in 0 .. p /\ k - 1 < k
    BY <1>3, <2>2, <2>3
  <2>5. h[k - 1] = f[k - 1]
    BY <2>2, <2>4
  <2>6. h[k] = h[k - 1] \o front[k] /\ f[k] = f[k - 1] \o ss[k] /\ front[k] = ss[k]
    BY <1>1, <1>2, <1>3, <2>4 DEF IsConcat
  <2>7. QED
    BY <2>2, <2>5, <2>6
<1>7. \A m \in i .. n : Len(f[i]) <= Len(f[m]) /\ \A q \in 1 .. Len(f[i]) : f[m][q] = f[i][q]
  <2> DEFINE Grown(m) == Len(f[i]) <= Len(f[m]) /\ \A q \in 1 .. Len(f[i]) : f[m][q] = f[i][q]
             B == {m \in i .. n : ~Grown(m)}
  <2>0. \A k \in 1 .. n : /\ Len(f[k - 1]) <= Len(f[k])
                          /\ \A q \in 1 .. Len(f[k - 1]) : f[k][q] = f[k - 1][q]
    BY <1>5
  <2>1. SUFFICES ASSUME B # {} PROVE FALSE
    OBVIOUS
  <2>2. PICK m \in B : \A l \in B : m <= l
    <3>1. B \subseteq Nat
      BY <1>3
    <3> HIDE DEF B
    <3>2. QED
      BY <2>1, <3>1, LeastNatural
  <2>3. m # i
    BY <1>3, <1>4, <2>2
  <2> DEFINE l == m - 1
  <2>4. m \in 1 .. n /\ l \in i .. n /\ l < m /\ l \in 0 .. n /\ m \in 0 .. n /\ l \in Int
    BY <1>3, <2>2, <2>3
  <2>5. Grown(l)
    <3> HIDE DEF Grown, l
    <3>1. l \notin B
      BY <2>2, <2>4
    <3>2. QED
      BY <2>4, <3>1
  <2>6. Len(f[l]) <= Len(f[m]) /\ \A q \in 1 .. Len(f[l]) : f[m][q] = f[l][q]
    BY <2>0, <2>4
  <2> HIDE DEF l
  <2>7. Len(f[i]) \in Nat /\ Len(f[l]) \in Nat /\ Len(f[m]) \in Nat
    BY <1>3, <1>4, <2>4
  <2>8. \A q \in 1 .. Len(f[i]) : q \in 1 .. Len(f[l])
    BY <2>5, <2>7
  <2>9. Grown(m)
    <3>1. Len(f[i]) <= Len(f[m])
      BY <2>5, <2>6, <2>7
    <3>2. ASSUME NEW q \in 1 .. Len(f[i]) PROVE f[m][q] = f[i][q]
      BY <2>5, <2>6, <2>8
    <3>3. QED
      BY <3>1, <3>2
  <2>10. QED
    BY <2>2, <2>9
<1>8. head = f[p] /\ head \in Seq(X) /\ b \in Nat
  BY <1>0, <1>2, <1>3, <1>4, <1>6
<1>9. f[i] = head \o ss[i]
  <2>1. f[i] = f[i - 1] \o ss[i]
    BY <1>1, <1>3 DEF IsConcat, n
  <2>2. QED
    BY <1>3, <1>8, <2>1
<1>10. PICK t : t = ss[i]
  OBVIOUS
<1>11. t \in Seq(X) /\ r = Len(t) /\ r \in Nat
  BY <1>0, <1>3, <1>10
<1>12. /\ Len(head \o t) = b + r
       /\ \A q \in 1 .. b : (head \o t)[q] = head[q] /\ q \in 1 .. b + r
       /\ \A j \in 1 .. r : (head \o t)[b + j] = t[j] /\ b + j \in 1 .. b + r
  BY <1>0, <1>8, <1>11
<1>13. n \in i .. n /\ n \in 0 .. n
  BY <1>3 DEF n
<1>14. b + r <= Len(inc) /\ inc \in Seq(X) /\ \A q \in 1 .. b + r : inc[q] = (head \o t)[q]
  BY <1>1, <1>4, <1>7, <1>9, <1>10, <1>12, <1>13
<1>15. /\ \A q \in 1 .. b : inc[q] = head[q]
       /\ \A j \in 1 .. r : inc[b + j] = t[j]
       /\ Len(inc) \in Nat
  <2>1. Len(inc) \in Nat
    BY <1>14
  <2>2. ASSUME NEW q \in 1 .. b PROVE inc[q] = head[q]
    BY <1>12, <1>14
  <2>3. ASSUME NEW j \in 1 .. r PROVE inc[b + j] = t[j]
    BY <1>12, <1>14
  <2>4. QED
    BY <2>1, <2>2, <2>3
<1>16. QED
  BY <1>0, <1>8, <1>10, <1>11, <1>14, <1>15 DEF Splits
-----------------------------------------------------------------------------
(* The slots of a program are a sequence. *)
AreSlots(s) ==
  /\ s \in Seq({s[k] : k \in DOMAIN s})
  /\ \A k \in DOMAIN s : s[k].kind \in {"ref", "copy"} /\ s[k].size \in Nat

LEMMA SlotsAreSequence ==
  ASSUME NEW s, AreSlots(s)
  PROVE  /\ Len(s) \in Nat /\ DOMAIN s = 1 .. Len(s) /\ s = [k \in 1 .. Len(s) |-> s[k]]
         /\ \A k \in 1 .. Len(s) : s[k].kind \in {"ref", "copy"} /\ s[k].size \in Nat
BY DEF AreSlots

LEMMA KeyCases ==
  ASSUME NEW ps, NEW i, NEW j, NEW p, p = ps[i], NEW s, s = p.slots[j]
  PROVE  /\ Entry(p) = "pointers" => Key(ps, i, j) = <<"slice", i, j>>
         /\ Entry(p) # "pointers" /\ p.table => Key(ps, i, j) = <<s.kind, Size(s), Value[s.addr]>>
         /\ Entry(p) # "pointers" /\ ~p.table /\ ByValue(p) => Key(ps, i, j) = <<"value", s.type, Value[s.addr]>>
         /\ Entry(p) # "pointers" /\ ~p.table /\ ~ByValue(p) => Key(ps, i, j) = <<"address", s.addr>>
<1>1. PICK isSlice, table, byValue : /\ isSlice = (Entry(p) = "pointers") /\ isSlice \in BOOLEAN
                                     /\ table = (p.table = TRUE) /\ byValue = (ByValue(p) = TRUE)
  OBVIOUS
<1>2. QED
  BY DEF Key

(* Slots that have one key hold one value, and a slice is one of its own. *)
SameSlot(ps, i, j, k, l) ==
  /\ Value[ps[i].slots[j].addr] = Value[ps[k].slots[l].addr]
  /\ Entry(ps[i]) = "pointers" => i = k /\ j = l
  /\ Entry(ps[k]) = "pointers" => i = k /\ j = l
  /\ Entry(ps[i]) # "pointers" /\ ps[i].table => Size(ps[i].slots[j]) = Size(ps[k].slots[l])

LEMMA KeyValue ==
  ASSUME NEW ps, NEW i, NEW j, NEW k, NEW l,
         ps[i].slots[j].kind \in {"ref", "copy"}, ps[k].slots[l].kind \in {"ref", "copy"},
         Key(ps, i, j) = Key(ps, k, l)
  PROVE  SameSlot(ps, i, j, k, l)
<1>0. SUFFICES /\ Value[ps[i].slots[j].addr] = Value[ps[k].slots[l].addr]
               /\ Entry(ps[i]) = "pointers" => i = k /\ j = l
               /\ Entry(ps[k]) = "pointers" => i = k /\ j = l
               /\ Entry(ps[i]) # "pointers" /\ ps[i].table =>
                    Size(ps[i].slots[j]) = Size(ps[k].slots[l])
  BY DEF SameSlot
<1>1. PICK p, s, q, t : p = ps[i] /\ s = p.slots[j] /\ q = ps[k] /\ t = q.slots[l]
  OBVIOUS
<1>2. PICK x, y : x = Key(ps, i, j) /\ y = Key(ps, k, l) /\ x = y
  OBVIOUS
<1>3. /\ Entry(p) = "pointers" => x = <<"slice", i, j>>
      /\ Entry(p) # "pointers" /\ p.table => x = <<s.kind, Size(s), Value[s.addr]>>
      /\ Entry(p) # "pointers" /\ ~p.table /\ ByValue(p) => x = <<"value", s.type, Value[s.addr]>>
      /\ Entry(p) # "pointers" /\ ~p.table /\ ~ByValue(p) => x = <<"address", s.addr>>
  BY <1>1, <1>2, KeyCases
<1>4. /\ Entry(q) = "pointers" => x = <<"slice", k, l>>
      /\ Entry(q) # "pointers" /\ q.table => x = <<t.kind, Size(t), Value[t.addr]>>
      /\ Entry(q) # "pointers" /\ ~q.table /\ ByValue(q) => x = <<"value", t.type, Value[t.addr]>>
      /\ Entry(q) # "pointers" /\ ~q.table /\ ~ByValue(q) => x = <<"address", t.addr>>
  BY <1>1, <1>2, KeyCases
<1>5. s.kind \in {"ref", "copy"} /\ t.kind \in {"ref", "copy"}
  BY <1>1
<1> DEFINE Same == /\ Value[s.addr] = Value[t.addr]
                   /\ Entry(p) = "pointers" => i = k /\ j = l
                   /\ Entry(q) = "pointers" => i = k /\ j = l
                   /\ Entry(p) # "pointers" /\ p.table => Size(s) = Size(t)
<1>6. \A a, b, c, d, e2 : <<a, b, c>> # <<d, e2>>
  OBVIOUS
<1>7. CASE Entry(p) = "pointers"
  <2>1. x = <<"slice", i, j>>
    BY <1>3, <1>7
  <2>2. Entry(q) = "pointers"
    BY <1>4, <1>5, <1>6, <2>1
  <2>3. i = k /\ j = l
    BY <1>4, <2>1, <2>2
  <2>4. Same
    BY <1>1, <1>7, <2>3
  <2>5. QED
    BY <1>1, <2>4
<1>8. CASE Entry(p) # "pointers" /\ p.table
  <2>1. x = <<s.kind, Size(s), Value[s.addr]>>
    BY <1>3, <1>8
  <2>2. Entry(q) # "pointers" /\ q.table
    BY <1>4, <1>5, <1>6, <2>1
  <2>3. x = <<t.kind, Size(t), Value[t.addr]>>
    BY <1>4, <2>2
  <2>4. Same
    BY <1>8, <2>1, <2>2, <2>3
  <2>5. QED
    BY <1>1, <2>4
<1>9. CASE Entry(p) # "pointers" /\ ~p.table /\ ByValue(p)
  <2>1. x = <<"value", s.type, Value[s.addr]>>
    BY <1>3, <1>9
  <2>2. Entry(q) # "pointers" /\ ~q.table /\ ByValue(q)
    BY <1>4, <1>5, <1>6, <2>1
  <2>3. x = <<"value", t.type, Value[t.addr]>>
    BY <1>4, <2>2
  <2>4. Same
    BY <1>9, <2>1, <2>2, <2>3
  <2>5. QED
    BY <1>1, <2>4
<1>10. CASE Entry(p) # "pointers" /\ ~p.table /\ ~ByValue(p)
  <2>1. x = <<"address", s.addr>>
    BY <1>3, <1>10
  <2>2. Entry(q) # "pointers" /\ ~q.table /\ ~ByValue(q)
    BY <1>4, <1>6, <2>1
  <2>3. x = <<"address", t.addr>>
    BY <1>4, <2>2
  <2>4. Same
    BY <1>10, <2>1, <2>2, <2>3
  <2>5. QED
    BY <1>1, <2>4
<1>11. QED
  BY <1>7, <1>8, <1>9, <1>10

LEMMA KeyOfPrefix ==
  ASSUME NEW ps, NEW qs, NEW i, NEW j, qs[i] = ps[i]
  PROVE  Key(qs, i, j) = Key(ps, i, j)
BY DEF Key
-----------------------------------------------------------------------------
(* The inputs of a fusion, and the slots that input i brings into it. *)
AreInputs(ps, n) ==
  /\ n \in Nat /\ ps \in Seq({ps[i] : i \in 1 .. n}) /\ Len(ps) = n /\ DOMAIN ps = 1 .. n
  /\ \A i \in 1 .. n : AreSlots(ps[i].slots)

Entered(ps, i) ==
  [j \in DOMAIN ps[i].slots |-> [key |-> Key(ps, i, j), slot |-> ps[i].slots[j], input |-> i]]

Rows(ps) == [i \in DOMAIN ps |-> Entered(ps, i)]

Cells(ps) == UNION {{Entered(ps, i)[j] : j \in DOMAIN ps[i].slots} : i \in DOMAIN ps}

LEMMA RowsOf ==
  ASSUME NEW ps, NEW n, AreInputs(ps, n)
  PROVE  /\ Rows(ps) \in Seq(Seq(Cells(ps))) /\ Len(Rows(ps)) = n
         /\ Incoming(ps) = Seqs!FlattenSeq(Rows(ps))
         /\ \A i \in 1 .. n :
              /\ Rows(ps)[i] = Entered(ps, i) /\ Len(Rows(ps)[i]) = Len(ps[i].slots)
              /\ Len(ps[i].slots) \in Nat
              /\ \A j \in 1 .. Len(ps[i].slots) :
                   /\ Rows(ps)[i][j].key = Key(ps, i, j)
                   /\ Rows(ps)[i][j].slot = ps[i].slots[j]
<1>1. n \in Nat /\ DOMAIN ps = 1 .. n
  BY DEF AreInputs
<1>2. Incoming(ps) = Seqs!FlattenSeq(Rows(ps))
  BY DEF Incoming, Rows, Entered
<1> DEFINE X == Cells(ps)
<1>3. ASSUME NEW i \in 1 .. n
      PROVE  /\ Entered(ps, i) \in Seq(X) /\ Len(Entered(ps, i)) = Len(ps[i].slots)
             /\ Len(ps[i].slots) \in Nat
             /\ \A j \in 1 .. Len(ps[i].slots) :
                  /\ Entered(ps, i)[j].key = Key(ps, i, j) /\ Entered(ps, i)[j].slot = ps[i].slots[j]
  <2>1. PICK s, l : s = ps[i].slots /\ l = Len(s)
    OBVIOUS
  <2>2. AreSlots(s)
    BY <2>1 DEF AreInputs
  <2>3. l \in Nat /\ DOMAIN s = 1 .. l
    BY <2>1, <2>2, SlotsAreSequence
  <2>4. \A j \in 1 .. l : Entered(ps, i)[j] \in X
    BY <1>1, <2>1, <2>3 DEF Cells
  <2>5. Entered(ps, i) = [j \in 1 .. l |-> Entered(ps, i)[j]]
    BY <2>1, <2>3 DEF Entered
  <2> HIDE DEF X
  <2>6. Entered(ps, i) \in Seq(X) /\ Len(Entered(ps, i)) = l
    BY <2>3, <2>4, <2>5, SequenceOf
  <2>7. \A j \in 1 .. l : Entered(ps, i)[j].key = Key(ps, i, j) /\ Entered(ps, i)[j].slot = ps[i].slots[j]
    BY <2>1, <2>3 DEF Entered
  <2>8. QED
    BY <2>1, <2>3, <2>6, <2>7
<1>4. \A i \in 1 .. n : Rows(ps)[i] = Entered(ps, i)
  BY <1>1 DEF Rows
<1>5. Rows(ps) = [i \in 1 .. n |-> Rows(ps)[i]]
  BY <1>1 DEF Rows
<1>6. Rows(ps) \in Seq(Seq(X)) /\ Len(Rows(ps)) = n
  <2>1. \A i \in 1 .. n : Rows(ps)[i] \in Seq(X)
    BY <1>3, <1>4
  <2> DEFINE S == Seq(X)
  <2>2. \A i \in 1 .. n : Rows(ps)[i] \in S
    BY <2>1
  <2> HIDE DEF S
  <2>3. Rows(ps) \in Seq(S) /\ Len(Rows(ps)) = n
    BY <1>1, <1>5, <2>2, SequenceOf
  <2>4. QED
    BY <2>3 DEF S
<1>7. QED
  BY <1>2, <1>3, <1>4, <1>6

(* A sequence s of slots that are those of the inputs, every key among them. *)
FromInputs(ps, n, x) ==
  \E i \in 1 .. n : \E j \in 1 .. Len(ps[i].slots) :
    x.key = Key(ps, i, j) /\ x.slot = ps[i].slots[j]

SlotsOfInputs(ps, n, X, s) ==
  /\ s \in Seq(X) /\ Len(s) \in Nat
  /\ \A q \in 1 .. Len(s) : FromInputs(ps, n, s[q])
  /\ \A i \in 1 .. n : \A j \in 1 .. Len(ps[i].slots) :
       \E q \in 1 .. Len(s) : s[q].key = Key(ps, i, j)

LEMMA IncomingOf ==
  ASSUME NEW ps, NEW n, AreInputs(ps, n)
  PROVE  SlotsOfInputs(ps, n, Cells(ps), Incoming(ps))
<1>0. PICK X, inc : X = Cells(ps) /\ inc = Incoming(ps)
  OBVIOUS
<1>1. PICK ss : ss = Rows(ps)
  OBVIOUS
<1>2. /\ ss \in Seq(Seq(X)) /\ Len(ss) = n /\ inc = Seqs!FlattenSeq(ss)
      /\ \A i \in 1 .. n : /\ Len(ss[i]) = Len(ps[i].slots)
                           /\ \A j \in 1 .. Len(ps[i].slots) :
                                /\ ss[i][j].key = Key(ps, i, j) /\ ss[i][j].slot = ps[i].slots[j]
  BY <1>0, <1>1, RowsOf
<1>3. PICK at : IsFlat(ss, n, X, inc, at)
  BY <1>2, FlatOf
<1>4. /\ inc \in Seq(X)
      /\ \A q \in 1 .. Len(inc) : at[q] \in Items(ss, n) /\ inc[q] = ss[at[q][1]][at[q][2]]
      /\ \A x \in Items(ss, n) : \E q \in 1 .. Len(inc) : at[q] = x
  BY <1>3 DEF IsFlat
<1>5. /\ \A x \in Items(ss, n) : x[1] \in 1 .. n /\ x[2] \in 1 .. Len(ss[x[1]])
      /\ \A i \in 1 .. n : \A j \in 1 .. Len(ss[i]) : <<i, j>> \in Items(ss, n)
  BY DEF Items
<1>6. ASSUME NEW q \in 1 .. Len(inc)
      PROVE  FromInputs(ps, n, inc[q])
  <2>1. PICK i, j : i = at[q][1] /\ j = at[q][2]
    OBVIOUS
  <2>2. i \in 1 .. n /\ j \in 1 .. Len(ss[i]) /\ inc[q] = ss[i][j]
    BY <1>4, <1>5, <2>1
  <2>3. j \in 1 .. Len(ps[i].slots)
    BY <1>2, <2>2
  <2>4. inc[q].key = Key(ps, i, j) /\ inc[q].slot = ps[i].slots[j]
    BY <1>2, <2>2, <2>3
  <2>5. QED
    BY <2>2, <2>3, <2>4 DEF FromInputs
<1>7. ASSUME NEW i \in 1 .. n, NEW j \in 1 .. Len(ps[i].slots)
      PROVE  \E q \in 1 .. Len(inc) : inc[q].key = Key(ps, i, j)
  <2>1. j \in 1 .. Len(ss[i])
    BY <1>2
  <2>2. PICK q \in 1 .. Len(inc) : at[q] = <<i, j>>
    BY <1>4, <1>5, <2>1
  <2>3. inc[q] = ss[i][j]
    BY <1>4, <2>2
  <2>4. QED
    BY <1>2, <2>3
<1>8. Len(inc) \in Nat
  BY <1>4
<1>9. QED
  BY <1>0, <1>4, <1>6, <1>7, <1>8 DEF SlotsOfInputs

(* The unique slots are those of inputs, and every slot has its key there. *)
LEMMA UniqueOf ==
  ASSUME NEW ps, NEW n, AreInputs(ps, n)
  PROVE  SlotsOfInputs(ps, n, Cells(ps), Unique(ps))
<1>1. PICK X, inc, m, us : X = Cells(ps) /\ inc = Incoming(ps) /\ m = Len(inc) /\ us = Unique(ps)
  OBVIOUS
<1>2. /\ inc \in Seq(X) /\ m \in Nat
      /\ \A q \in 1 .. m : FromInputs(ps, n, inc[q])
      /\ \A i \in 1 .. n : \A j \in 1 .. Len(ps[i].slots) :
           \E q \in 1 .. m : inc[q].key = Key(ps, i, j)
  <2>1. SlotsOfInputs(ps, n, X, inc)
    BY <1>1, IncomingOf
  <2>2. QED
    BY <1>1, <2>1 DEF SlotsOfInputs
<1>3. PICK F : IsFold(m, Seq(X), <<>>, Dedup(inc, X), F) /\ us = F[m]
  BY <1>1, <1>2, UniqueSteps
<1>4. IsDedup(inc, X, F)
  BY <1>1, <1>2, <1>3, DedupSteps
<1>5. m \in 0 .. m /\ m = Len(inc)
  BY <1>1, <1>2
<1>6. us \in Seq(X)
  BY <1>3, <1>4, <1>5 DEF IsDedup
<1>7. DedupAt(inc, F, m)
  BY <1>2, <1>4, <1>5, DedupFacts
<1>8. /\ \A k \in 1 .. Len(us) : \E q \in 1 .. m : us[k] = inc[q]
      /\ \A q \in 1 .. m : Keyed(us, inc[q])
  BY <1>3, <1>7 DEF DedupAt
<1>9. DOMAIN us = 1 .. Len(us)
  BY <1>6
<1>10. ASSUME NEW k \in 1 .. Len(us)
       PROVE  FromInputs(ps, n, us[k])
  <2>1. PICK q \in 1 .. m : us[k] = inc[q]
    BY <1>8
  <2>2. QED
    BY <1>2, <2>1
<1>11. ASSUME NEW i \in 1 .. n, NEW j \in 1 .. Len(ps[i].slots)
       PROVE  \E k \in 1 .. Len(us) : us[k].key = Key(ps, i, j)
  <2>1. PICK q \in 1 .. m : inc[q].key = Key(ps, i, j)
    BY <1>2
  <2>2. QED
    BY <1>8, <1>9, <2>1 DEF Keyed
<1>12. Len(us) \in Nat
  BY <1>6
<1>13. QED
  BY <1>1, <1>6, <1>10, <1>11, <1>12 DEF SlotsOfInputs

(* The first m of the inputs. *)
ArePrefix(ps, n, qs, m) == AreInputs(qs, m) /\ \A k \in 1 .. m : qs[k] = ps[k] /\ k \in 1 .. n

LEMMA InputsOfPrefix ==
  ASSUME NEW ps, NEW n, AreInputs(ps, n), NEW i \in 1 .. n, NEW m, m = i - 1,
         NEW qs, qs = SubSeq(ps, 1, m)
  PROVE  ArePrefix(ps, n, qs, m)
<1> DEFINE X == {ps[k] : k \in 1 .. n}
           Y == {qs[k] : k \in 1 .. m}
<1>1. /\ n \in Nat /\ ps \in Seq(X) /\ Len(ps) = n /\ DOMAIN ps = 1 .. n
      /\ \A k \in 1 .. n : AreSlots(ps[k].slots)
  BY DEF AreInputs
<1>2. m \in Nat /\ m <= n /\ \A k \in 1 .. m : k \in 1 .. n
  BY <1>1
<1> HIDE DEF X
<1>3. Len(qs) = m /\ DOMAIN qs = 1 .. m /\ qs \in Seq(X) /\ \A k \in 1 .. m : qs[k] = ps[k]
  <2>2. 1 \in Int /\ m \in Int /\ \A k \in 1 .. m : k \in 1 .. Len(ps)
    BY <1>1, <1>2
  <2>3. qs = [k \in 1 .. m |-> ps[k]]
    BY <1>1, <1>2
  <2>4. \A k \in 1 .. m : ps[k] \in X
    BY <1>1, <1>2
  <2>5. qs = [k \in 1 .. m |-> qs[k]] /\ \A k \in 1 .. m : qs[k] \in X /\ qs[k] = ps[k]
    BY <2>3, <2>4
  <2>6. qs \in Seq(X) /\ Len(qs) = m
    BY Zenon, <1>2, <2>5, SequenceOf
  <2>7. QED
    BY <2>3, <2>5, <2>6
<1>4. qs \in Seq(Y) /\ Len(qs) = m
  <2>1. qs = [k \in 1 .. m |-> qs[k]] /\ \A k \in 1 .. m : qs[k] \in Y
    BY <1>3
  <2> HIDE DEF Y
  <2>2. QED
    BY Zenon, <1>2, <2>1, SequenceOf
<1>5. \A k \in 1 .. m : AreSlots(qs[k].slots)
  BY <1>1, <1>2, <1>3
<1>6. QED
  BY <1>2, <1>3, <1>4, <1>5 DEF AreInputs, ArePrefix

(* A program over pointers is given a slice of the array: its slots follow *)
(* the unique slots of the inputs before it.                               *)
LEMMA SliceOf ==
  ASSUME NEW ps, NEW n, AreInputs(ps, n), NEW i \in 1 .. n, Entry(ps[i]) = "pointers",
         NEW us, us = Unique(ps), NEW j \in 1 .. Len(ps[i].slots),
         NEW l, l = Len(Unique(SubSeq(ps, 1, i - 1)))
  PROVE  l + j \in 1 .. Len(us) /\ us[l + j].key = Key(ps, i, j)
<1>1. PICK X, ss, inc, m, p, qs, fs, head, b, r :
        /\ X = Cells(ps) /\ ss = Rows(ps) /\ inc = Incoming(ps) /\ m = Len(inc)
        /\ p = i - 1 /\ qs = SubSeq(ps, 1, p) /\ fs = Rows(qs) /\ head = Incoming(qs) /\ b = Len(head)
        /\ r = Len(ss[i])
  OBVIOUS
<1>2. n \in Nat /\ p \in Nat /\ p < i
  BY <1>1 DEF AreInputs
<1>3. /\ ss \in Seq(Seq(X)) /\ Len(ss) = n /\ inc = Seqs!FlattenSeq(ss)
      /\ \A k \in 1 .. n : /\ ss[k] = Entered(ps, k)
                           /\ Len(ss[k]) = Len(ps[k].slots) /\ Len(ps[k].slots) \in Nat
                           /\ \A h \in 1 .. Len(ps[k].slots) : ss[k][h].key = Key(ps, k, h)
  BY <1>1, RowsOf
<1>4. AreInputs(qs, p) /\ \A k \in 1 .. p : qs[k] = ps[k] /\ k \in 1 .. n
  <2>1. ArePrefix(ps, n, qs, p)
    BY <1>1, InputsOfPrefix
  <2>2. QED
    BY <2>1 DEF ArePrefix
<1>5. /\ Len(fs) = p /\ head = Seqs!FlattenSeq(fs) /\ fs \in Seq(Seq(Cells(qs)))
      /\ \A k \in 1 .. p : fs[k] = Entered(qs, k)
  BY <1>1, <1>4, RowsOf
<1>6. \A k \in 1 .. p : Entered(qs, k) = Entered(ps, k)
  BY <1>4, KeyOfPrefix DEF Entered
<1>7. \A k \in 1 .. p : fs[k] = ss[k]
  BY <1>3, <1>4, <1>5, <1>6
<1>8. fs \in Seq(Seq(X))
  <2> DEFINE S == Seq(X)
  <2>3. \A k \in 1 .. n : ss[k] \in Seq(X)
    BY <1>3
  <2>1. \A k \in 1 .. p : fs[k] \in S
    BY <1>4, <1>7, <2>3
  <2>2. fs = [k \in 1 .. p |-> fs[k]]
    BY <1>5
  <2> HIDE DEF S
  <2>4. fs \in Seq(S)
    BY Zenon, <1>2, <2>1, <2>2, SequenceOf
  <2>5. QED
    BY <2>4 DEF S
<1>9. /\ inc \in Seq(X) /\ head \in Seq(X) /\ b \in Nat /\ r \in Nat /\ b + r <= Len(inc)
      /\ \A q \in 1 .. b : inc[q] = head[q]
      /\ \A h \in 1 .. r : inc[b + h] = ss[i][h]
      /\ m \in Nat
  <2>1. i \in 1 .. Len(ss) /\ p = i - 1
    BY <1>1, <1>3
  <2>2. Splits(X, inc, head, ss[i])
    BY <1>3, <1>5, <1>7, <1>8, <2>1, FlatSplit
  <2>3. QED
    BY <1>1, <2>2 DEF Splits
<1>10. PICK F : IsFold(m, Seq(X), <<>>, Dedup(inc, X), F) /\ us = F[m]
  BY <1>1, <1>9, UniqueSteps
<1>11. PICK H : IsFold(b, Seq(X), <<>>, Dedup(head, X), H) /\ Unique(qs) = H[b]
  BY <1>1, <1>9, UniqueSteps
<1>12. m \in Nat /\ b \in 0 .. m /\ m = Len(inc)
  <2>1. m = Len(inc) /\ m \in Nat /\ b \in Nat /\ r \in Nat /\ b + r <= m
    BY <1>1, <1>9
  <2>2. QED
    BY <2>1
<1>13. \A k \in 1 .. b : \A v \in Seq(X) : Dedup(inc, X)[<<k, v>>] = Dedup(head, X)[<<k, v>>]
  <2>1. ASSUME NEW k \in 1 .. b, NEW v \in Seq(X)
        PROVE  Dedup(inc, X)[<<k, v>>] = Dedup(head, X)[<<k, v>>]
    <3>1. k \in 1 .. Len(inc) /\ k \in 1 .. Len(head) /\ inc[k] = head[k]
      BY <1>1, <1>9, <1>12
    <3>2. Dedup(inc, X)[<<k, v>>] = IF Keyed(v, inc[k]) THEN v ELSE Append(v, inc[k])
      BY <3>1 DEF Dedup
    <3>3. Dedup(head, X)[<<k, v>>] = IF Keyed(v, head[k]) THEN v ELSE Append(v, head[k])
      BY <3>1 DEF Dedup
    <3>4. QED
      BY <3>1, <3>2, <3>3
  <2>2. QED
    BY <2>1
<1>14. \A k \in 0 .. b : H[k] = F[k]
  <2> DEFINE V == Seq(X)
  <2> HIDE DEF V
  <2>1. QED
    BY <1>10, <1>11, <1>12, <1>13, SameSteps DEF V
<1>15. l = Len(F[b])
  <2>1. b \in 0 .. b
    BY <1>9
  <2>2. QED
    BY <1>1, <1>11, <1>14, <2>1
<1>16. IsDedup(inc, X, F)
  BY <1>9, <1>10, <1>12, DedupSteps
<1>17. \A h \in 1 .. r : inc[b + h].key = <<"slice", i, h>>
  <2>1. \A h \in 1 .. r : Key(ps, i, h) = <<"slice", i, h>>
    BY KeyCases
  <2>2. i \in 1 .. n /\ r = Len(ps[i].slots)
    BY <1>1, <1>3
  <2>3. \A h \in 1 .. r : ss[i][h].key = Key(ps, i, h)
    BY <1>3, <2>2
  <2>4. QED
    BY <1>9, <2>1, <2>3
<1>18. \A q \in 1 .. b : \A h \in 1 .. r : inc[q].key # <<"slice", i, h>>
  <2> SUFFICES ASSUME NEW q \in 1 .. b, NEW h \in 1 .. r, inc[q].key = <<"slice", i, h>> PROVE FALSE
    OBVIOUS
  <2>1. FromInputs(qs, p, head[q])
    <3>1. SlotsOfInputs(qs, p, Cells(qs), head) /\ q \in 1 .. Len(head)
      BY <1>1, <1>4, IncomingOf
    <3>2. QED
      BY <3>1 DEF SlotsOfInputs
  <2>2. PICK k \in 1 .. p : \E f \in 1 .. Len(qs[k].slots) : head[q].key = Key(qs, k, f)
    BY <2>1 DEF FromInputs
  <2>9. PICK f \in 1 .. Len(qs[k].slots) : head[q].key = Key(qs, k, f)
    BY <2>2
  <2>3. qs[k] = ps[k] /\ k \in 1 .. n /\ k # i
    BY <1>2, <1>4
  <2>4. Key(ps, k, f) = <<"slice", i, h>> /\ f \in 1 .. Len(ps[k].slots)
    <3>1. Key(qs, k, f) = Key(ps, k, f)
      BY <2>3, KeyOfPrefix
    <3>2. inc[q] = head[q]
      BY <1>9
    <3>3. QED
      BY <2>3, <2>9, <3>1, <3>2
  <2>5. Key(ps, i, h) = <<"slice", i, h>>
    BY SMTT(30), KeyCases
  <2>6. ps[k].slots[f].kind \in {"ref", "copy"} /\ ps[i].slots[h].kind \in {"ref", "copy"}
    <3>1. AreSlots(ps[k].slots) /\ AreSlots(ps[i].slots)
      BY <2>3 DEF AreInputs
    <3>2. PICK s, t : s = ps[k].slots /\ t = ps[i].slots
      OBVIOUS
    <3>3. AreSlots(s) /\ AreSlots(t) /\ f \in 1 .. Len(s) /\ h \in 1 .. Len(t)
      BY <1>1, <1>3, <2>4, <3>1, <3>2
    <3>4. s[f].kind \in {"ref", "copy"} /\ t[h].kind \in {"ref", "copy"}
      BY <3>3, SlotsAreSequence
    <3>5. QED
      BY <3>2, <3>4
  <2>7. k = i
    <3>1. SameSlot(ps, k, f, i, h)
      BY SMTT(30), <2>4, <2>5, <2>6, KeyValue
    <3>2. QED
      BY <3>1 DEF SameSlot
  <2>8. QED
    BY <2>3, <2>7
<1>19. \A h \in 1 .. r : \A q \in 1 .. b + h - 1 : inc[q].key # inc[b + h].key
  <2> SUFFICES ASSUME NEW h \in 1 .. r, NEW q \in 1 .. b + h - 1 PROVE inc[q].key # inc[b + h].key
    OBVIOUS
  <2>1. CASE q \in 1 .. b
    BY <1>17, <1>18, <2>1
  <2>2. CASE q \notin 1 .. b
    <3>1. PICK h2 : h2 = q - b
      OBVIOUS
    <3>2. h2 \in 1 .. r /\ h2 # h /\ b + h2 = q
      BY <1>9, <2>2, <3>1
    <3>3. inc[q].key = <<"slice", i, h2>> /\ inc[b + h].key = <<"slice", i, h>>
      BY <1>17, <3>2
    <3>4. QED
      BY <3>2, <3>3
  <2>3. QED
    BY <2>1, <2>2
<1>20. j \in 1 .. r
  BY <1>1, <1>3
<1>21. Len(F[b + j]) = Len(F[b]) + j /\ F[b + j][Len(F[b]) + j] = inc[b + j]
  <2>1. AllNew(inc, b, r)
    BY <1>19 DEF AllNew
  <2>2. Appended(F, inc, b, r)
    BY <1>9, <1>16, <2>1, NewRun
  <2>3. QED
    BY <1>20, <2>2 DEF Appended
<1>22. b + j \in 0 .. m /\ m \in 0 .. m
  BY <1>9, <1>12, <1>20
<1>23. F[b] \in Seq(X) /\ Len(F[b]) \in Nat
  <2>1. F[b] \in Seq(X)
    BY <1>12, <1>16 DEF IsDedup
  <2>2. QED
    BY <2>1
<1>24. Len(F[b + j]) <= Len(F[m]) /\ \A k \in 1 .. Len(F[b + j]) : F[m][k] = F[b + j][k]
  <2>1. DedupAt(inc, F, m)
    BY <1>9, <1>12, <1>16, <1>22, DedupFacts
  <2>2. QED
    BY <1>22, <2>1 DEF DedupAt
<1>25. Len(F[m]) \in Nat
  <2>1. F[m] \in Seq(X)
    BY <1>12, <1>16, <1>22 DEF IsDedup
  <2>2. QED
    BY <2>1
<1>26. l + j \in 1 .. Len(F[b + j]) /\ l + j \in 1 .. Len(F[m])
  BY <1>15, <1>20, <1>21, <1>23, <1>24, <1>25
<1>27. us[l + j] = inc[b + j]
  BY <1>10, <1>15, <1>21, <1>24, <1>26
<1>28. QED
  BY SMTT(30), <1>3, <1>9, <1>10, <1>20, <1>26, <1>27, <1>1
(* The place a slot of an input has in the fusion holds its key. *)
LEMMA PlaceOf ==
  ASSUME NEW ps, NEW n, AreInputs(ps, n), NEW i \in 1 .. n, NEW j \in 1 .. Len(ps[i].slots),
         NEW us, us = Unique(ps)
  PROVE  Place(ps, i, j) \in 1 .. Len(us) /\ us[Place(ps, i, j)].key = Key(ps, i, j)
<1>1. CASE Entry(ps[i]) = "pointers"
  BY <1>1, SliceOf DEF Place
<1>2. CASE Entry(ps[i]) # "pointers"
  <2>1. SlotsOfInputs(ps, n, Cells(ps), us)
    BY UniqueOf
  <2>2. us \in Seq(Cells(ps)) /\ \E k \in 1 .. Len(us) : us[k].key = Key(ps, i, j)
    BY <2>1 DEF SlotsOfInputs
  <2>3. DOMAIN us = 1 .. Len(us)
    BY <2>2
  <2>4. Place(ps, i, j) = CHOOSE k \in DOMAIN us : us[k].key = Key(ps, i, j)
    BY <1>2 DEF Place
  <2>5. QED
    BY <2>2, <2>3, <2>4
<1>3. QED
  BY <1>1, <1>2
-----------------------------------------------------------------------------
(* Rounding up goes on to a multiple. *)
LEMMA RoundedUp ==
  ASSUME NEW n \in Nat, NEW a \in Nat \ {0}
  PROVE  RoundUp(n, a) \in Nat /\ n <= RoundUp(n, a)
<1> DEFINE m == n + a - 1
           q == m \div a
           r == m % a
<1>1. m \in Nat /\ q \in Nat /\ r \in Nat /\ r < a /\ m = a * q + r
  OBVIOUS
<1>2. RoundUp(n, a) = q * a
  <2>1. m = (n + a) - 1
    OBVIOUS
  <2> QED
    BY <2>1 DEF RoundUp
<1>4. a \in Nat
  OBVIOUS
<1>5. n = m - a + 1
  OBVIOUS
<1> HIDE DEF m, q, r
<1>6. PICK t : t = a * q
  OBVIOUS
<1>7. t \in Nat /\ q * a = t
  BY <1>1, <1>4, <1>6
<1>8. n <= t
  BY <1>1, <1>4, <1>5, <1>6, <1>7
<1>9. QED
  BY <1>2, <1>7, <1>8

(* A slot is copied to an address of its own. *)
Packs(slots, offsets, size) ==
  /\ size \in Nat
  /\ \A k \in DOMAIN slots : /\ offsets[k] \in Nat /\ Size(slots[k]) \in Nat
                             /\ offsets[k] + Size(slots[k]) <= size
  /\ \A k, l \in DOMAIN slots : k # l => \/ offsets[k] + Size(slots[k]) <= offsets[l]
                                        \/ offsets[l] + Size(slots[l]) <= offsets[k]

(* The bytes of the value of the slot s are at the offset o. *)
Stored(bytes, o, s) ==
  \A b \in 0 .. Size(s) - 1 : o + b \in DOMAIN bytes /\ bytes[o + b] = <<Value[s.addr], b>>

LEMMA MaxOfOne ==
  ASSUME NEW k \in Int
  PROVE  Seqs!Max({k}) = k
BY DEF Seqs!Max

LEMMA BufferOf ==
  ASSUME NEW slots, NEW n \in Nat, DOMAIN slots = 1 .. n, NEW offsets, NEW size, Packs(slots, offsets, size),
         NEW k \in 1 .. n
  PROVE  Stored(Buffer(slots, offsets, size), offsets[k], slots[k])
<1> SUFFICES ASSUME NEW b \in 0 .. Size(slots[k]) - 1
             PROVE  /\ offsets[k] + b \in DOMAIN Buffer(slots, offsets, size)
                    /\ Buffer(slots, offsets, size)[offsets[k] + b] = <<Value[slots[k].addr], b>>
  BY DEF Stored
<1>1. PICK o : o = offsets[k] + b
  OBVIOUS
<1>2. /\ size \in Nat
      /\ \A l \in 1 .. n : /\ offsets[l] \in Nat /\ Size(slots[l]) \in Nat
                           /\ offsets[l] + Size(slots[l]) <= size
      /\ \A l \in 1 .. n : k # l => \/ offsets[k] + Size(slots[k]) <= offsets[l]
                                    \/ offsets[l] + Size(slots[l]) <= offsets[k]
  BY DEF Packs
<1>3. offsets[k] \in Nat /\ Size(slots[k]) \in Nat /\ b \in Nat /\ b < Size(slots[k])
      /\ offsets[k] + Size(slots[k]) <= size
  BY <1>2
<1>4. o \in 0 .. size - 1 /\ o - offsets[k] = b
  <2>1. PICK at : at = offsets[k]
    OBVIOUS
  <2>2. PICK wide : wide = Size(slots[k])
    OBVIOUS
  <2>3. at \in Nat /\ wide \in Nat /\ b \in Nat /\ b < wide /\ at + wide <= size /\ size \in Nat /\ o = at + b
    BY <1>1, <1>2, <1>3, <2>1, <2>2
  <2>4. o \in 0 .. size - 1 /\ o - at = b
    BY <2>3
  <2> QED
    BY <2>1, <2>4
<1> DEFINE Covering(x) == {l \in DOMAIN slots : offsets[l] <= x /\ x < offsets[l] + Size(slots[l])}
<1>5. Covering(o) = {k}
  <2>1. k \in Covering(o)
    BY <1>1, <1>3
  <2>2. ASSUME NEW l \in Covering(o), l # k PROVE FALSE
    <3>1. l \in 1 .. n /\ offsets[l] <= o /\ o < offsets[l] + Size(slots[l])
      BY <2>2
    <3>2. offsets[l] \in Nat /\ Size(slots[l]) \in Nat
      BY <1>2, <3>1
    <3>3. \/ offsets[k] + Size(slots[k]) <= offsets[l]
          \/ offsets[l] + Size(slots[l]) <= offsets[k]
      BY <1>2, <2>2, <3>1
    <3>4. QED
      BY SMTT(30), <1>1, <1>3, <3>1, <3>2, <3>3
  <2>3. QED
    BY <2>1, <2>2
<1>6. Seqs!Max(Covering(o)) = k
  <2>1. Seqs!Max({k}) = k
    BY MaxOfOne
  <2>2. QED
    BY <1>5, <2>1
<1>7. DOMAIN Buffer(slots, offsets, size) = 0 .. size - 1
  BY DEF Buffer
<1>8. Buffer(slots, offsets, size)[o] =
         IF Covering(o) = {} THEN <<"zero", 0>>
         ELSE <<Value[slots[Seqs!Max(Covering(o))].addr], o - offsets[Seqs!Max(Covering(o))]>>
  BY <1>4 DEF Buffer
<1> HIDE DEF Covering
<1>9. Buffer(slots, offsets, size)[o] = <<Value[slots[k].addr], b>>
  BY <1>4, <1>5, <1>6, <1>8
<1>10. QED
  BY <1>1, <1>4, <1>7, <1>9
-----------------------------------------------------------------------------
(* The layout after m slots: the offsets go up, each behind the slot before. *)
Layouts == [offsets : Seq(Nat), size : Nat]

LayStep(slots) ==
  [x \in (1 .. Len(slots)) \X Layouts |->
     LET at == RoundUp(x[2].size, Align(slots[x[1]]))
     IN  [offsets |-> Append(x[2].offsets, at), size |-> at + Size(slots[x[1]])]]

(* The layout w goes on from v with a slot of the size s. *)
GoesBehind(v, w, s) ==
  \E at \in Nat : v.size <= at /\ w.offsets = Append(v.offsets, at) /\ w.size = at + s

LEMMA LaySteps ==
  ASSUME Pointer \in Nat \ {0}, NEW slots, AreSlots(slots), NEW m \in 1 .. Len(slots), NEW v \in Layouts
  PROVE  /\ LayStep(slots)[<<m, v>>] \in Layouts
         /\ GoesBehind(v, LayStep(slots)[<<m, v>>], Size(slots[m]))
<1>1. slots[m].kind \in {"ref", "copy"} /\ slots[m].size \in Nat
  BY SlotsAreSequence
<1>2. Align(slots[m]) \in Nat \ {0} /\ Size(slots[m]) \in Nat
  BY <1>1 DEF Align, Size
<1>3. PICK at : at = RoundUp(v.size, Align(slots[m]))
  OBVIOUS
<1>4. v.size \in Nat /\ v.offsets \in Seq(Nat)
  BY DEF Layouts
<1>5. at \in Nat /\ v.size <= at
  BY <1>2, <1>3, <1>4, RoundedUp
<1>6. PICK w : w = [offsets |-> Append(v.offsets, at), size |-> at + Size(slots[m])]
  OBVIOUS
<1>7. LayStep(slots)[<<m, v>>] = w
  <2>1. <<m, v>> \in (1 .. Len(slots)) \X Layouts
    OBVIOUS
  <2>2. QED
    BY <1>3, <1>6, <2>1 DEF LayStep
<1>8. w \in Layouts /\ w.offsets = Append(v.offsets, at) /\ w.size = at + Size(slots[m])
  BY <1>2, <1>4, <1>5, <1>6 DEF Layouts
<1>9. GoesBehind(v, w, Size(slots[m]))
  BY <1>5, <1>8 DEF GoesBehind
<1>10. QED
  BY <1>7, <1>8, <1>9

LEMMA LayoutSteps ==
  ASSUME Pointer \in Nat \ {0}, NEW slots, AreSlots(slots)
  PROVE  \E F : /\ IsFold(Len(slots), Layouts, [offsets |-> <<>>, size |-> 0], LayStep(slots), F)
                /\ Layout(slots) = F[Len(slots)]
<1> DEFINE n == Len(slots)
           step == LayStep(slots)
           base == [offsets |-> <<>>, size |-> 0]
           op(l, s) == LET at == RoundUp(l.size, Align(s))
                       IN  [offsets |-> Append(l.offsets, at), size |-> at + Size(s)]
           Q(it) == it = [s \in SUBSET (1 .. n) |->
                            IF s = {} THEN base ELSE op(it[s \ {Seqs!Max(s)}], slots[Seqs!Max(s)])]
           fold == CHOOSE it : Q(it)
<1>1. n \in Nat /\ DOMAIN slots = 1 .. n
  BY SlotsAreSequence
<1>2. \A m \in 1 .. n, l \in Layouts : step[<<m, l>>] = op(l, slots[m])
  BY DEF LayStep
<1>3. base \in Layouts
  BY DEF Layouts
<1>4. step \in [(1 .. n) \X Layouts -> Layouts]
  <2>1. \A x \in (1 .. n) \X Layouts : x[1] \in 1 .. n /\ x[2] \in Layouts /\ x = <<x[1], x[2]>>
    OBVIOUS
  <2>2. \A m \in 1 .. n, l \in Layouts : step[<<m, l>>] \in Layouts
    BY LaySteps
  <2>3. \A x \in (1 .. n) \X Layouts : step[x] \in Layouts
    BY <2>1, <2>2
  <2>4. step = [x \in (1 .. n) \X Layouts |-> step[x]]
    BY DEF LayStep
  <2> HIDE DEF step, n
  <2>5. QED
    BY <2>3, <2>4
<1>5. Layout(slots) = fold[1 .. n]
  BY <1>1 DEF Layout, Seqs!FoldLeft, Seqs!MapThenFoldSet
<1> HIDE DEF n, step, op, base
<1>6. \E it : Q(it)
  <2>1. PICK it : Iterates(n, base, step, it) /\ it \in [SUBSET (1 .. n) -> Layouts]
    BY <1>1, <1>3, <1>4, FoldsLeft
  <2>2. ASSUME NEW s \in SUBSET (1 .. n), s # {}
        PROVE  step[<<Seqs!Max(s), it[s \ {Seqs!Max(s)}]>>] = op(it[s \ {Seqs!Max(s)}], slots[Seqs!Max(s)])
    <3>1. s \subseteq 0 .. n
      BY <1>1
    <3>2. Seqs!Max(s) \in s
      BY <1>1, <2>2, <3>1, GreatestNatural
    <3>3. it[s \ {Seqs!Max(s)}] \in Layouts
      BY <2>1
    <3>4. QED
      BY <1>2, <3>2, <3>3
  <2>3. Q(it)
    BY <2>1, <2>2 DEF Iterates
  <2>4. QED
    BY <2>3
<1>7. Q(fold)
  BY <1>6
<1> HIDE DEF fold
<1>8. \A s \in SUBSET (1 .. n) :
        fold[s] = IF s = {} THEN base ELSE op(fold[s \ {Seqs!Max(s)}], slots[Seqs!Max(s)])
  BY <1>7
<1>9. PICK F : IsFold(n, Layouts, base, step, F)
  BY <1>1, <1>3, <1>4, FoldStepsExist
<1>10. fold[{}] = base
  BY <1>8
<1>11. ASSUME NEW m \in 1 .. n, fold[1 .. m - 1] \in Layouts
       PROVE  fold[1 .. m] = step[<<m, fold[1 .. m - 1]>>]
  <2> DEFINE s == 1 .. m
  <2>1. m \in Nat /\ m > 0
    BY <1>1
  <2>2. s \in SUBSET (1 .. n) /\ s # {} /\ Seqs!Max(s) = m /\ s \ {m} = 1 .. m - 1
    BY <1>1, <2>1, MaxOfInterval
  <2> HIDE DEF s
  <2>3. fold[s] = op(fold[s \ {Seqs!Max(s)}], slots[Seqs!Max(s)])
    BY <1>8, <2>2
  <2>4. fold[s] = op(fold[1 .. m - 1], slots[m])
    BY <2>2, <2>3
  <2>5. QED
    BY <1>2, <1>11, <2>4 DEF s
<1>12. fold[1 .. n] = F[n]
  BY <1>1, <1>9, <1>10, <1>11, IterateSteps
<1>13. QED
  BY <1>5, <1>9, <1>12 DEF n, step, base

LaidOut(slots, m, l) ==
  /\ Len(l.offsets) = m
  /\ \A k \in 1 .. m : l.offsets[k] \in Nat /\ l.offsets[k] + Size(slots[k]) <= l.size
  /\ \A k, j \in 1 .. m : k < j => l.offsets[k] + Size(slots[k]) <= l.offsets[j]

LEMMA LayoutOf ==
  ASSUME Pointer \in Nat \ {0}, NEW slots, AreSlots(slots)
  PROVE  Packs(slots, Layout(slots).offsets, Layout(slots).size)
<1>1. PICK n : n = Len(slots)
  OBVIOUS
<1>2. PICK F : /\ IsFold(n, Layouts, [offsets |-> <<>>, size |-> 0], LayStep(slots), F)
               /\ Layout(slots) = F[n]
  BY <1>1, LayoutSteps
<1>3. n \in Nat /\ DOMAIN slots = 1 .. n /\ \A k \in 1 .. n : Size(slots[k]) \in Nat
  <2>1. n \in Nat /\ DOMAIN slots = 1 .. n
        /\ \A k \in 1 .. n : slots[k].kind \in {"ref", "copy"} /\ slots[k].size \in Nat
    BY <1>1, SlotsAreSequence
  <2>2. QED
    BY <2>1 DEF Size
<1>4. \A m \in 0 .. n : F[m] \in Layouts
  BY <1>2 DEF IsFold
<1> DEFINE B == {m \in 0 .. n : ~LaidOut(slots, m, F[m])}
<1>5. B = {}
  <2>1. SUFFICES ASSUME B # {} PROVE FALSE
    OBVIOUS
  <2>2. PICK m \in B : \A k \in B : m <= k
    <3>1. B \subseteq Nat
      OBVIOUS
    <3> HIDE DEF B
    <3>2. QED
      BY <2>1, <3>1, LeastNatural
  <2>3. CASE m = 0
    <3>1. F[0] = [offsets |-> <<>>, size |-> 0] /\ 1 .. 0 = {}
      BY <1>2 DEF IsFold
    <3>2. F[0].offsets = <<>> /\ Len(<<>>) = 0
      BY <3>1
    <3>3. LaidOut(slots, 0, F[0])
      BY <3>1, <3>2 DEF LaidOut
    <3>4. QED
      BY <2>2, <2>3, <3>3
  <2>4. CASE m # 0
    <3>1. PICK p, v, w, o, s : /\ p = m - 1 /\ v = F[p] /\ w = F[m] /\ o = v.offsets
                               /\ s = Size(slots[m])
      OBVIOUS
    <3>2. m \in 1 .. n /\ p \in 0 .. n /\ p \in Nat /\ p < m /\ ~(m <= p) /\ p + 1 = m
          /\ \A k \in 1 .. m : k \in 1 .. p \/ k = m
      BY <1>3, <2>2, <2>4, <3>1
    <3>3. LaidOut(slots, p, v)
      <4>1. p \notin B
        <5> HIDE DEF B
        <5>1. QED
          BY <2>2, <3>2
      <4>2. QED
        BY <3>1, <3>2, <4>1
    <3>4. v \in Layouts /\ w = LayStep(slots)[<<m, v>>]
      BY <1>2, <1>4, <3>1, <3>2 DEF IsFold
    <3>5. PICK at \in Nat : v.size <= at /\ w.offsets = Append(o, at) /\ w.size = at + s
      <4>1. GoesBehind(v, w, s)
        BY <1>1, <3>1, <3>2, <3>4, LaySteps
      <4>2. QED
        BY <3>1, <4>1 DEF GoesBehind
    <3>6. o \in Seq(Nat) /\ v.size \in Nat /\ s \in Nat
      BY <1>3, <3>1, <3>2, <3>4 DEF Layouts
    <3>7. /\ Len(o) = p
          /\ \A k \in 1 .. p : o[k] \in Nat /\ o[k] + Size(slots[k]) <= v.size /\ Size(slots[k]) \in Nat
          /\ \A k, j \in 1 .. p : k < j => o[k] + Size(slots[k]) <= o[j]
      BY <1>3, <3>1, <3>2, <3>3 DEF LaidOut
    <3>8. Len(w.offsets) = m /\ w.offsets[m] = at /\ \A k \in 1 .. p : w.offsets[k] = o[k]
      BY <3>2, <3>5, <3>6, <3>7
    <3>9. ASSUME NEW k \in 1 .. m
          PROVE  w.offsets[k] \in Nat /\ w.offsets[k] + Size(slots[k]) <= w.size
      <4>1. CASE k = m
        BY <3>1, <3>5, <3>6, <3>8, <4>1
      <4>2. CASE k \in 1 .. p
        <5>1. o[k] \in Nat /\ o[k] + Size(slots[k]) <= v.size /\ Size(slots[k]) \in Nat /\ w.offsets[k] = o[k]
          BY <3>7, <3>8, <4>2
        <5>2. QED
          BY SMTT(30), <3>5, <3>6, <5>1
      <4>3. QED
        BY <3>2, <4>1, <4>2
    <3>10. ASSUME NEW k \in 1 .. m, NEW j \in 1 .. m, k < j
           PROVE  w.offsets[k] + Size(slots[k]) <= w.offsets[j]
      <4>1. k \in 1 .. p
        BY <3>2, <3>10
      <4>2. o[k] \in Nat /\ o[k] + Size(slots[k]) <= v.size /\ Size(slots[k]) \in Nat /\ w.offsets[k] = o[k]
        BY <3>7, <3>8, <4>1
      <4>3. CASE j = m
        BY <3>5, <3>6, <3>8, <4>2, <4>3
      <4>4. CASE j \in 1 .. p
        BY <3>7, <3>8, <3>10, <4>1, <4>2, <4>4
      <4>5. QED
        BY <3>2, <4>3, <4>4
    <3>11. LaidOut(slots, m, w)
      BY <3>8, <3>9, <3>10 DEF LaidOut
    <3>12. QED
      BY <2>2, <3>1, <3>11
  <2>5. QED
    BY <2>3, <2>4
<1>6. PICK l : l = Layout(slots)
  OBVIOUS
<1>7. n \in 0 .. n /\ l = F[n]
  BY <1>2, <1>3, <1>6
<1>8. LaidOut(slots, n, l) /\ l.size \in Nat
  BY <1>4, <1>5, <1>7 DEF Layouts
<1>9. \A k, j \in 1 .. n : k # j => k < j \/ j < k
  OBVIOUS
<1>10. Packs(slots, l.offsets, l.size)
  BY <1>3, <1>8, <1>9 DEF LaidOut, Packs
<1>11. QED
  BY <1>6, <1>10
-----------------------------------------------------------------------------
(* The slots of a fused program, before they are packed. *)
SlotsOf(us) == [k \in DOMAIN us |-> us[k].slot]

LEMMA FusedSlots ==
  ASSUME NEW ps, NEW n, AreInputs(ps, n), NEW us, us = Unique(ps), NEW slots, slots = SlotsOf(us)
  PROVE  /\ AreSlots(slots) /\ Len(us) \in Nat /\ DOMAIN us = 1 .. Len(us)
         /\ Len(slots) = Len(us) /\ DOMAIN slots = 1 .. Len(us)
         /\ \A k \in 1 .. Len(us) : slots[k] = us[k].slot /\ FromInputs(ps, n, us[k])
<1>1. PICK X, m : X = Cells(ps) /\ m = Len(us)
  OBVIOUS
<1>2. /\ us \in Seq(X) /\ m \in Nat /\ DOMAIN us = 1 .. m
      /\ \A k \in 1 .. m : FromInputs(ps, n, us[k])
  <2>1. SlotsOfInputs(ps, n, X, us)
    BY <1>1, UniqueOf
  <2>2. us \in Seq(X) /\ Len(us) \in Nat /\ \A k \in 1 .. Len(us) : FromInputs(ps, n, us[k])
    BY <2>1 DEF SlotsOfInputs
  <2>3. QED
    BY <1>1, <2>2
<1>3. \A k \in 1 .. m : slots[k] = us[k].slot
  BY <1>2 DEF SlotsOf
<1>4. ASSUME NEW k \in 1 .. m
      PROVE  slots[k].kind \in {"ref", "copy"} /\ slots[k].size \in Nat
  <2>1. PICK i \in 1 .. n : \E j \in 1 .. Len(ps[i].slots) : us[k].slot = ps[i].slots[j]
    BY <1>2 DEF FromInputs
  <2>2. PICK s : s = ps[i].slots
    OBVIOUS
  <2>3. PICK j \in 1 .. Len(s) : us[k].slot = s[j]
    BY <2>1, <2>2
  <2>4. AreSlots(s)
    BY <2>2 DEF AreInputs
  <2>5. s[j].kind \in {"ref", "copy"} /\ s[j].size \in Nat
    BY <2>3, <2>4, SlotsAreSequence
  <2>6. QED
    BY <1>3, <2>3, <2>5
<1>5. slots = [k \in 1 .. m |-> slots[k]] /\ DOMAIN slots = 1 .. m
  BY <1>2 DEF SlotsOf
<1> DEFINE Y == {slots[k] : k \in DOMAIN slots}
<1>6. \A k \in 1 .. m : slots[k] \in Y
  BY <1>5
<1> HIDE DEF Y
<1>7. slots \in Seq(Y) /\ Len(slots) = m
  BY ZenonT(30), <1>2, <1>5, <1>6, SequenceOf
<1>8. AreSlots(slots)
  BY <1>4, <1>5, <1>7 DEF AreSlots, Y
<1>9. QED
  BY <1>1, <1>2, <1>3, <1>5, <1>7, <1>8

(* The slot s of a fused program has the value of the slot t of an input;  *)
(* it is as large if the input has a table.                                *)
StandsFor(p, s, t) ==
  /\ Value[s.addr] = Value[t.addr]
  /\ Entry(p) # "pointers" /\ p.table => Size(s) = Size(t)

LEMMA FusedSlot ==
  ASSUME NEW ps, NEW n, AreInputs(ps, n), NEW slots, slots = SlotsOf(Unique(ps)),
         NEW i \in 1 .. n, NEW r \in 1 .. Len(ps[i].slots), NEW k, k = Place(ps, i, r)
  PROVE  k \in DOMAIN slots /\ StandsFor(ps[i], slots[k], ps[i].slots[r])
<1>1. PICK us : us = Unique(ps)
  OBVIOUS
<1>2. k \in 1 .. Len(us) /\ us[k].key = Key(ps, i, r)
  BY <1>1, PlaceOf
<1>3. DOMAIN slots = 1 .. Len(us) /\ slots[k] = us[k].slot /\ FromInputs(ps, n, us[k])
  BY <1>1, <1>2, FusedSlots
<1>4. PICK l \in 1 .. n : \E j \in 1 .. Len(ps[l].slots) :
        us[k].key = Key(ps, l, j) /\ us[k].slot = ps[l].slots[j]
  BY <1>3 DEF FromInputs
<1>5. PICK j \in 1 .. Len(ps[l].slots) : us[k].key = Key(ps, l, j) /\ us[k].slot = ps[l].slots[j]
  BY <1>4
<1>6. ASSUME NEW a \in 1 .. n, NEW b \in 1 .. Len(ps[a].slots)
      PROVE  ps[a].slots[b].kind \in {"ref", "copy"}
  <2>1. PICK s : s = ps[a].slots
    OBVIOUS
  <2>2. AreSlots(s)
    BY <2>1 DEF AreInputs
  <2>3. QED
    BY <2>1, <2>2, SlotsAreSequence
<1>7. Key(ps, i, r) = Key(ps, l, j)
  BY <1>2, <1>5
<1>8. ps[i].slots[r].kind \in {"ref", "copy"} /\ ps[l].slots[j].kind \in {"ref", "copy"}
  BY <1>6
<1>9. SameSlot(ps, i, r, l, j)
  BY <1>7, <1>8, KeyValue
<1>10. StandsFor(ps[i], ps[l].slots[j], ps[i].slots[r])
  BY <1>9 DEF SameSlot, StandsFor
<1>11. QED
  BY <1>2, <1>3, <1>5, <1>10
-----------------------------------------------------------------------------
(* A program gives a call the values that were recorded for the kernel. *)
Holds(p, call, was) ==
  \A j \in DOMAIN was.slots :
    LET r == call.reads[j]
    IN  \/ /\ p.bytes = <<>> /\ r \in DOMAIN p.slots
           /\ Value[p.slots[r].addr] = Value[was.slots[j].addr]
        \/ /\ p.bytes # <<>> /\ r # Nowhere
           /\ Stored(p.bytes, r, was.slots[j])

(* What the fusion of ps makes of the arguments, and where it moves slot k. *)
FusedInto(ps, p, at) ==
  LET slots == SlotsOf(Unique(ps))
      layout == Layout(slots)
  IN  /\ Packed(ps) =>
           /\ p.slots = <<>>
           /\ p.bytes = Buffer(slots, layout.offsets, Seqs!Max({1, layout.size}))
           /\ \A k \in DOMAIN slots : at[k] = layout.offsets[k]
      /\ ~Packed(ps) =>
           /\ p.slots = slots /\ p.bytes = <<>>
           /\ \A k \in DOMAIN slots : at[k] = k

MovedReads(ps, i, at, reads) ==
  [j \in DOMAIN reads |-> IF reads[j] = Nowhere THEN Nowhere ELSE at[Place(ps, i, reads[j])]]

LEMMA MaxOfTwo ==
  ASSUME NEW n \in Nat
  PROVE  Seqs!Max({1, n}) \in Nat /\ 1 <= Seqs!Max({1, n}) /\ n <= Seqs!Max({1, n})
<1> DEFINE S == {1, n}
<1>1. S \subseteq 0 .. n + 1 /\ S # {} /\ n + 1 \in Nat
  OBVIOUS
<1> HIDE DEF S
<1>2. Seqs!Max(S) \in S /\ \A x \in S : x <= Seqs!Max(S)
  BY <1>1, GreatestNatural
<1>3. 1 \in S /\ n \in S /\ \A x \in S : x \in Nat
  BY DEF S
<1>4. QED
  BY <1>2, <1>3 DEF S

LEMMA PacksMore ==
  ASSUME NEW slots, NEW offsets, NEW m, Packs(slots, offsets, m), NEW n \in Nat, m <= n
  PROVE  Packs(slots, offsets, n)
BY DEF Packs

(* Bytes that hold something are not empty. *)
LEMMA BufferFilled ==
  ASSUME NEW slots, NEW offsets, NEW size \in Nat, 1 <= size
  PROVE  Buffer(slots, offsets, size) # <<>>
<1>1. 0 \in DOMAIN Buffer(slots, offsets, size)
  BY DEF Buffer
<1>2. 0 \notin DOMAIN <<>>
  OBVIOUS
<1>3. QED
  BY <1>1, <1>2

LEMMA FusedHolds ==
  ASSUME Pointer \in Nat \ {0}, NEW ps, NEW n, AreInputs(ps, n), NEW i \in 1 .. n,
         NEW in, in = ps[i], in.bytes = <<>>,
         NEW call, NEW was, DOMAIN call.reads = DOMAIN was.slots, Holds(in, call, was),
         Packed(ps) => /\ Entry(in) # "pointers" /\ in.table
                       /\ \A j \in DOMAIN was.slots : Size(in.slots[call.reads[j]]) = Size(was.slots[j]),
         NEW p, NEW at, FusedInto(ps, p, at),
         NEW moved, moved.reads = MovedReads(ps, i, at, call.reads)
  PROVE  Holds(p, moved, was)
<1>1. PICK slots, layout, size, bytes :
        /\ slots = SlotsOf(Unique(ps)) /\ layout = Layout(slots)
        /\ size = Seqs!Max({1, layout.size}) /\ bytes = Buffer(slots, layout.offsets, size)
  OBVIOUS
<1>2. AreSlots(slots) /\ Len(slots) \in Nat /\ DOMAIN slots = 1 .. Len(slots)
  <2>1. AreSlots(slots)
    BY <1>1, FusedSlots
  <2>2. QED
    BY <2>1, SlotsAreSequence
<1>3. Packs(slots, layout.offsets, size) /\ bytes # <<>>
  <2>1. Packs(slots, layout.offsets, layout.size)
    BY <1>1, <1>2, LayoutOf
  <2>2. layout.size \in Nat
    BY <2>1 DEF Packs
  <2>3. size \in Nat /\ 1 <= size /\ layout.size <= size
    BY <1>1, <2>2, MaxOfTwo
  <2>4. Packs(slots, layout.offsets, size)
    BY <2>1, <2>3, PacksMore
  <2>5. bytes # <<>>
    BY <1>1, <2>3, BufferFilled
  <2>6. QED
    BY <2>4, <2>5
<1>4. ASSUME NEW j \in DOMAIN was.slots
      PROVE  LET r == moved.reads[j]
             IN  \/ /\ p.bytes = <<>> /\ r \in DOMAIN p.slots
                    /\ Value[p.slots[r].addr] = Value[was.slots[j].addr]
                 \/ /\ p.bytes # <<>> /\ r # Nowhere
                    /\ Stored(p.bytes, r, was.slots[j])
  <2>1. PICK r, k, s, t, w : /\ r = call.reads[j] /\ k = Place(ps, i, r) /\ s = slots[k]
                             /\ t = in.slots[r] /\ w = was.slots[j]
    OBVIOUS
  <2>2. r \in DOMAIN in.slots /\ Value[t.addr] = Value[w.addr]
    BY <2>1 DEF Holds
  <2>3. DOMAIN in.slots = 1 .. Len(in.slots)
    <3>1. PICK q : q = in.slots
      OBVIOUS
    <3>2. AreSlots(q)
      BY <3>1 DEF AreInputs
    <3>3. QED
      BY <3>1, <3>2, SlotsAreSequence
  <2>4. r # Nowhere
    BY <2>2, <2>3 DEF Nowhere
  <2>5. moved.reads[j] = at[k]
    BY <2>1, <2>4 DEF MovedReads
  <2>6. k \in DOMAIN slots /\ StandsFor(in, s, t)
    BY <1>1, <2>1, <2>2, <2>3, FusedSlot
  <2>7. Value[s.addr] = Value[w.addr]
    BY <2>2, <2>6 DEF StandsFor
  <2>8. CASE ~Packed(ps)
    <3>1. p.slots = slots /\ p.bytes = <<>> /\ at[k] = k
      BY <1>1, <2>6, <2>8 DEF FusedInto
    <3>2. QED
      BY <2>1, <2>5, <2>6, <2>7, <3>1
  <2>9. CASE Packed(ps)
    <3>1. p.bytes = bytes /\ at[k] = layout.offsets[k]
      BY <1>1, <2>6, <2>9 DEF FusedInto
    <3>2. Stored(bytes, layout.offsets[k], s)
      BY <1>1, <1>2, <1>3, <2>1, <2>6, BufferOf
    <3>3. Size(s) = Size(w)
      BY <2>1, <2>6, <2>9 DEF StandsFor
    <3>4. Stored(bytes, at[k], w)
      BY <2>7, <3>1, <3>2, <3>3 DEF Stored
    <3>5. layout.offsets[k] # Nowhere
      BY <1>3, <2>6 DEF Packs, Nowhere
    <3>6. QED
      BY <1>3, <2>1, <2>5, <3>1, <3>4, <3>5
  <2>10. QED
    BY <2>8, <2>9
<1>5. QED
  BY <1>4 DEF Holds
-----------------------------------------------------------------------------
(* The call d of a fused program is a call that an input makes. *)
Takes(ps, i, at, call, d) ==
  /\ d.kernel = call.kernel /\ DOMAIN d.reads = DOMAIN call.reads
  /\ Entry(ps[i]) = ps[i].entry => d.reads = MovedReads(ps, i, at, call.reads)

TakesOne(ps, n, at, d) ==
  \E i \in 1 .. n : \E c \in 1 .. Len(ps[i].calls) : Takes(ps, i, at, ps[i].calls[c], d)

LEMMA CallsTaken ==
  ASSUME NEW ps, NEW n \in Nat, DOMAIN ps = 1 .. n, \A i \in 1 .. n : AreCalls(ps[i].calls),
         NEW at, NEW s, s = Calls(ps, at), NEW q \in 1 .. Len(s)
  PROVE  TakesOne(ps, n, at, s[q])
<1> DEFINE Moved(i) == [c \in DOMAIN ps[i].calls |-> [ps[i].calls[c] EXCEPT
                         !.reads = [j \in DOMAIN @ |-> IF @[j] = Nowhere THEN Nowhere
                                                       ELSE at[Place(ps, i, @[j])]]]]
           T == [i \in 1 .. n |-> IF Entry(ps[i]) = ps[i].entry THEN Moved(i) ELSE Misread(ps[i].calls)]
           X == UNION {{T[i][c] : c \in 1 .. Len(T[i])} : i \in 1 .. n}
<1>1. s = Seqs!FlattenSeq(T)
  BY SMTT(30) DEF Calls
<1>2. ASSUME NEW i \in 1 .. n
      PROVE  /\ Len(T[i]) = Len(ps[i].calls) /\ Len(T[i]) \in Nat /\ T[i] = [c \in 1 .. Len(T[i]) |-> T[i][c]]
             /\ \A c \in 1 .. Len(T[i]) : Takes(ps, i, at, ps[i].calls[c], T[i][c])
  <2>1. PICK calls, t, m : calls = ps[i].calls /\ t = T[i] /\ m = Len(calls)
    OBVIOUS
  <2>2. AreCalls(calls)
    BY <2>1
  <2>3. m \in Nat /\ DOMAIN calls = 1 .. m /\ \A c \in 1 .. m : DOMAIN calls[c] = {"kernel", "reads"}
    BY SMTT(30), <2>1, <2>2, CallsAreSequence
  <2>4. CASE Entry(ps[i]) = ps[i].entry
    <3>1. t = [c \in 1 .. m |-> t[c]] /\ \A c \in 1 .. m :
            t[c] = [calls[c] EXCEPT !.reads = [j \in DOMAIN @ |-> IF @[j] = Nowhere THEN Nowhere
                                                                 ELSE at[Place(ps, i, @[j])]]]
      BY <2>1, <2>3, <2>4
    <3>2. ASSUME NEW c \in 1 .. m PROVE Takes(ps, i, at, calls[c], t[c])
      <4>1. t[c].kernel = calls[c].kernel
        BY <2>3, <3>1
      <4>2. t[c].reads = MovedReads(ps, i, at, calls[c].reads)
        BY <2>3, <3>1 DEF MovedReads
      <4>3. DOMAIN t[c].reads = DOMAIN calls[c].reads
        BY <4>2 DEF MovedReads
      <4>4. QED
        BY <4>1, <4>2, <4>3 DEF Takes
    <3>3. DOMAIN t = 1 .. m /\ Len(t) = m
      BY SMTT(30), <2>3, <3>1
    <3>4. QED
      BY <2>1, <2>3, <3>1, <3>2, <3>3
  <2>5. CASE Entry(ps[i]) # ps[i].entry
    <3>1. t = [c \in 1 .. m |-> t[c]] /\ \A c \in 1 .. m :
            t[c] = [calls[c] EXCEPT !.reads = [j \in DOMAIN calls[c].reads |-> Nowhere]]
      BY <2>1, <2>3, <2>5 DEF Misread
    <3>2. ASSUME NEW c \in 1 .. m PROVE Takes(ps, i, at, calls[c], t[c])
      <4>1. t[c].kernel = calls[c].kernel
        BY <2>3, <3>1
      <4>2. t[c].reads = [j \in DOMAIN calls[c].reads |-> Nowhere]
        BY <2>3, <3>1
      <4>3. QED
        BY <2>5, <4>1, <4>2 DEF Takes
    <3>3. DOMAIN t = 1 .. m /\ Len(t) = m
      BY <2>3, <3>1
    <3>4. QED
      BY <2>1, <2>3, <3>1, <3>2, <3>3
  <2>6. QED
    BY <2>4, <2>5
<1>3. T = [i \in 1 .. n |-> T[i]]
  OBVIOUS
<1> HIDE DEF T
<1>4. ASSUME NEW i \in 1 .. n PROVE T[i] \in Seq(X)
  <2>1. PICK t, l : t = T[i] /\ l = Len(t)
    OBVIOUS
  <2>2. l \in Nat /\ t = [k \in 1 .. l |-> t[k]]
    BY <1>2, <2>1
  <2>3. \A k \in 1 .. l : t[k] \in X
    BY <2>1
  <2> HIDE DEF X
  <2>4. t \in Seq(X)
    BY <2>2, <2>3, SequenceOf
  <2>5. QED
    BY <2>1, <2>4
<1>5. T \in Seq(Seq(X)) /\ Len(T) = n
  <2> DEFINE Y == Seq(X)
  <2>1. \A i \in 1 .. n : T[i] \in Y
    BY <1>4
  <2> HIDE DEF Y
  <2>2. T \in Seq(Y) /\ Len(T) = n
    BY <1>3, <2>1, SequenceOf
  <2>3. QED
    BY <2>2 DEF Y
<1> HIDE DEF X
<1>6. PICK pos : IsFlat(T, n, X, s, pos)
  BY <1>1, <1>5, FlatOf
<1>7. s[q] = T[pos[q][1]][pos[q][2]] /\ pos[q] \in Items(T, n)
  BY <1>6 DEF IsFlat
<1>8. PICK i, c : i = pos[q][1] /\ c = pos[q][2]
  OBVIOUS
<1>9. i \in 1 .. n /\ c \in 1 .. Len(T[i]) /\ s[q] = T[i][c]
  BY <1>7, <1>8 DEF Items
<1>10. c \in 1 .. Len(ps[i].calls) /\ Takes(ps, i, at, ps[i].calls[c], s[q])
  BY <1>2, <1>9
<1>11. QED
  BY <1>9, <1>10 DEF TakesOne
-----------------------------------------------------------------------------
Launched(p) == <<p.mode, p.grid, p.target>>

(* Slots at offsets of their own. *)
Apart(slots) ==
  /\ \A j \in DOMAIN slots : slots[j].offset \in Nat
  /\ \A j, k \in DOMAIN slots : j # k => \/ slots[j].offset + Size(slots[j]) <= slots[k].offset
                                        \/ slots[k].offset + Size(slots[k]) <= slots[j].offset

(* The program p is one of the client's. *)
Recordable(p) ==
  /\ AreSlots(p.slots) /\ p.bytes = <<>>
  /\ p.target \in {"host", "device"}
  /\ p.target = "device" => p.mode # "task"
  /\ p.entry = "buffer" => p.table /\ p.mode = "task" /\ Apart(p.slots)

OfClient(R, p) ==
  \E u \in DOMAIN R : /\ p = R[u] /\ Recordable(p)
                      /\ p.calls = <<[kernel |-> u, reads |-> [j \in DOMAIN p.slots |-> j]]>>

(* The program p was fused. *)
OfFusion(p) ==
  /\ ~p.table
  /\ \/ p.target = "device" /\ p.entry = "values" /\ p.mode # "task" /\ p.bytes = <<>>
     \/ p.target = "host" /\ p.entry = "pointers" /\ p.bytes = <<>>
     \/ p.target = "host" /\ p.entry = "buffer" /\ p.bytes # <<>>

(* The signature of a task body is that of another form. *)
TakenWrong(w) == Shape(w) # w.entry /\ w.mode = "task"

(* The program p can launch what the call was recorded to launch. *)
Launches(R, p, call) ==
  LET w == R[call.kernel]
  IN  /\ call.kernel \in DOMAIN R /\ w.source = "LLVMIR" /\ Launched(p) = Launched(w)
      /\ w.externs \subseteq p.externs
      /\ DOMAIN call.reads = DOMAIN w.slots

Binds(R, p, call) == Launches(R, p, call) /\ (Holds(p, call, R[call.kernel]) \/ TakenWrong(R[call.kernel]))

IsInput(R, p) ==
  /\ AreCalls(p.calls) /\ AreSlots(p.slots)
  /\ \A c \in 1 .. Len(p.calls) : Binds(R, p, p.calls[c])
  /\ OfClient(R, p) \/ OfFusion(p)

(* How prog-fuse may misjudge a program, and how it may not. *)
LEMMA EntryCases ==
  ASSUME NEW p
  PROVE  /\ p.entry # "values" => Shape(p) = p.entry /\ Entry(p) = p.entry
         /\ p.mode # "task" => Entry(p) = p.entry
         /\ p.mode = "task" => Entry(p) = Shape(p)
BY DEF Entry, Shape

LEMMA OneCallIs ==
  ASSUME NEW x, NEW s, s = <<x>>
  PROVE  Len(s) = 1 /\ DOMAIN s = 1 .. 1 /\ s[1] = x /\ \A c \in 1 .. Len(s) : s[c] = x
OBVIOUS

(* A program of the client calls its own kernel. *)
LEMMA ClientCall ==
  ASSUME NEW R, NEW p, OfClient(R, p), NEW c \in 1 .. Len(p.calls)
  PROVE  /\ Len(p.calls) = 1 /\ R[p.calls[c].kernel] = p
         /\ DOMAIN p.calls[c].reads = DOMAIN p.slots
         /\ \A j \in DOMAIN p.slots : p.calls[c].reads[j] = j
<1>1. PICK u \in DOMAIN R : p = R[u] /\ p.calls = <<[kernel |-> u, reads |-> [j \in DOMAIN p.slots |-> j]]>>
  BY DEF OfClient
<1>2. PICK x, s : x = [kernel |-> u, reads |-> [j \in DOMAIN p.slots |-> j]] /\ s = p.calls
  OBVIOUS
<1>3. s = <<x>> /\ c \in 1 .. Len(s)
  BY <1>1, <1>2
<1>4. Len(s) = 1 /\ s[c] = x
  BY <1>3, OneCallIs
<1>5. x.kernel = u /\ x.reads = [j \in DOMAIN p.slots |-> j]
  BY <1>2
<1>6. QED
  BY <1>1, <1>2, <1>4, <1>5

(* What the programs of a fusion are, if it is not given up. *)
Fusable(R, ps, p) ==
  /\ p.bytes = <<>>
  /\ p.target = "device" => p.mode # "task"
  /\ p.target \in {"host", "device"}
  /\ Entry(p) # p.entry => OfClient(R, p) /\ TakenWrong(p)
  /\ Packed(ps) => Entry(p) = "buffer" /\ OfClient(R, p) /\ p.table /\ p.target = "host"

LEMMA InputFacts ==
  ASSUME NEW R, NEW ps, NEW n, DOMAIN ps = 1 .. n, ~Refused(ps), NEW i \in 1 .. n,
         NEW p, p = ps[i], IsInput(R, p)
  PROVE  Fusable(R, ps, p)
<1> SUFFICES /\ p.bytes = <<>>
             /\ p.target = "device" => p.mode # "task"
             /\ p.target \in {"host", "device"}
             /\ Entry(p) # p.entry => OfClient(R, p) /\ TakenWrong(p)
             /\ Packed(ps) => Entry(p) = "buffer" /\ OfClient(R, p) /\ p.table /\ p.target = "host"
  BY DEF Fusable
<1>1. /\ Packed(ps) => Entry(p) = "buffer"
      /\ ~Packed(ps) => Entry(p) # "buffer"
      /\ Entry(p) = "buffer" => p.table
  BY DEF Refused, Mixed, Packed, Untabled
<1>2. OfClient(R, p) \/ OfFusion(p)
  BY DEF IsInput
<1>3. /\ p.entry # "values" => Shape(p) = p.entry /\ Entry(p) = p.entry
      /\ p.mode # "task" => Entry(p) = p.entry
      /\ p.mode = "task" => Entry(p) = Shape(p)
  BY EntryCases
<1>4. CASE OfClient(R, p)
  <2>1. /\ p.bytes = <<>> /\ p.target \in {"host", "device"}
        /\ p.target = "device" => p.mode # "task"
        /\ p.entry = "buffer" => p.table /\ p.mode = "task"
    BY <1>4 DEF OfClient, Recordable
  <2>2. Entry(p) # p.entry => TakenWrong(p)
    BY <1>3 DEF TakenWrong
  <2>3. Packed(ps) => p.target = "host"
    BY <1>1, <1>3, <2>1
  <2>4. QED
    BY <1>1, <1>4, <2>1, <2>2, <2>3
<1>5. CASE OfFusion(p)
  <2>1. /\ ~p.table
        /\ \/ p.target = "device" /\ p.entry = "values" /\ p.mode # "task" /\ p.bytes = <<>>
           \/ p.target = "host" /\ p.entry = "pointers" /\ p.bytes = <<>>
           \/ p.target = "host" /\ p.entry = "buffer" /\ p.bytes # <<>>
    BY <1>5 DEF OfFusion
  <2>2. Entry(p) = p.entry
    BY <1>3, <2>1
  <2>3. p.entry # "buffer" /\ ~Packed(ps)
    BY <1>1, <2>1, <2>2
  <2>4. QED
    BY <2>1, <2>2, <2>3
<1>6. QED
  BY <1>2, <1>4, <1>5
-----------------------------------------------------------------------------
(* What the fusion of ps makes of the arguments and calls. *)
LEMMA FusedArgs ==
  ASSUME NEW ps, DOMAIN ps[1] = Fields, NEW own, NEW p, p = Fused(ps, own)
  PROVE  /\ ~p.table /\ p.externs = Externs(ps)
         /\ ps[1].target = "device" => p.entry = "values"
         /\ ps[1].target # "device" /\ Packed(ps) => p.entry = "buffer"
         /\ ps[1].target # "device" /\ ~Packed(ps) => p.entry = "pointers"
         /\ \E at : FusedInto(ps, p, at) /\ p.calls = Calls(ps, at)
<1> DEFINE us == Unique(ps)
           slots == [k \in DOMAIN us |-> us[k].slot]
           layout == Layout(slots)
           packed == Packed(ps)
           bytes == Buffer(slots, layout.offsets, Seqs!Max({1, layout.size}))
           at == [k \in DOMAIN us |-> IF packed THEN layout.offsets[k] ELSE k]
           calls == Calls(ps, at)
           externs == Externs(ps)
           new == IF ps[1].target = "device" THEN "values" ELSE IF packed THEN "buffer" ELSE "pointers"
           bracket == Collapsed(ps)
<1>1. /\ "entry" \in Fields /\ "table" \in Fields /\ "slots" \in Fields /\ "bytes" \in Fields
      /\ "calls" \in Fields /\ "externs" \in Fields /\ "owned" \in Fields
  BY DEF Fields
<1>2. p = [ps[1] EXCEPT !.entry = new, !.table = FALSE, !.bracket = bracket,
                        !.slots = IF packed THEN <<>> ELSE slots,
                        !.bytes = IF packed THEN bytes ELSE <<>>,
                        !.calls = calls, !.externs = externs, !.owned = own]
  BY DEF Fused
<1>3. slots = SlotsOf(us)
  BY DEF SlotsOf
<1>4. \A k \in DOMAIN slots : at[k] = IF packed THEN layout.offsets[k] ELSE k
  OBVIOUS
<1>5. /\ packed => bytes = Buffer(slots, layout.offsets, Seqs!Max({1, layout.size}))
      /\ layout = Layout(slots) /\ calls = Calls(ps, at) /\ externs = Externs(ps) /\ us = Unique(ps)
      /\ packed <=> Packed(ps)
      /\ ps[1].target = "device" => new = "values"
      /\ ps[1].target # "device" /\ packed => new = "buffer"
      /\ ps[1].target # "device" /\ ~packed => new = "pointers"
  OBVIOUS
<1>6. packed \in BOOLEAN
  BY DEF Packed
<1> HIDE DEF slots, layout, packed, bytes, at, calls, externs, us, new, bracket
<1>7. /\ p.entry = new /\ p.table = FALSE /\ p.calls = calls /\ p.externs = externs
      /\ packed => p.slots = <<>> /\ p.bytes = bytes
      /\ ~packed => p.slots = slots /\ p.bytes = <<>>
  BY <1>1, <1>2, <1>6
<1>8. FusedInto(ps, p, at)
  BY <1>3, <1>4, <1>5, <1>7 DEF FusedInto
<1>9. QED
  BY <1>5, <1>7, <1>8

LEMMA FusedFilled ==
  ASSUME Pointer \in Nat \ {0}, NEW ps, NEW n, AreInputs(ps, n), NEW p, NEW at, FusedInto(ps, p, at)
  PROVE  /\ AreSlots(p.slots)
         /\ Packed(ps) => p.bytes # <<>>
         /\ ~Packed(ps) => p.bytes = <<>>
<1>1. PICK slots, layout, size :
        slots = SlotsOf(Unique(ps)) /\ layout = Layout(slots) /\ size = Seqs!Max({1, layout.size})
  OBVIOUS
<1>2. AreSlots(slots)
  BY <1>1, FusedSlots
<1>3. AreSlots(<<>>)
  BY DEF AreSlots
<1>4. Packs(slots, layout.offsets, layout.size)
  BY <1>1, <1>2, LayoutOf
<1>5. layout.size \in Nat
  BY <1>4 DEF Packs
<1>6. size \in Nat /\ 1 <= size
  BY <1>1, <1>5, MaxOfTwo
<1>7. Buffer(slots, layout.offsets, size) # <<>>
  BY <1>6, BufferFilled
<1>8. /\ Packed(ps) => p.slots = <<>> /\ p.bytes = Buffer(slots, layout.offsets, size)
      /\ ~Packed(ps) => p.slots = slots /\ p.bytes = <<>>
  BY <1>1 DEF FusedInto
<1>9. QED
  BY <1>2, <1>3, <1>7, <1>8

(* The fusion of a chain of programs is a program like them. *)
LEMMA FusedIsInput ==
  ASSUME Pointer \in Nat \ {0}, NEW R, NEW ps, NEW n \in Nat, 1 <= n, ps \in Seq({ps[i] : i \in 1 .. n}),
         Len(ps) = n, DOMAIN ps[1] = Fields,
         \A i \in 1 .. n : IsInput(R, ps[i]) /\ Launched(ps[i]) = Launched(ps[1]),
         ~Refused(ps), NEW own, NEW p, p = Fused(ps, own)
  PROVE  IsInput(R, p) /\ OfFusion(p)
<1>1. AreInputs(ps, n) /\ DOMAIN ps = 1 .. n /\ 1 \in 1 .. n
  BY DEF AreInputs, IsInput
<1>2. PICK first : first = ps[1]
  OBVIOUS
<1>3. /\ p.source = first.source /\ p.mode = first.mode /\ p.grid = first.grid /\ p.target = first.target
  BY <1>2, FusedFields
<1>4. PICK at : FusedInto(ps, p, at) /\ p.calls = Calls(ps, at)
  BY FusedArgs
<1>5. /\ ~p.table /\ p.externs = Externs(ps)
      /\ first.target = "device" => p.entry = "values"
      /\ first.target # "device" /\ Packed(ps) => p.entry = "buffer"
      /\ first.target # "device" /\ ~Packed(ps) => p.entry = "pointers"
  BY <1>2, FusedArgs
<1>6. /\ AreSlots(p.slots)
      /\ Packed(ps) => p.bytes # <<>>
      /\ ~Packed(ps) => p.bytes = <<>>
  BY <1>1, <1>4, FusedFilled
<1>7. OfFusion(p)
  <2>1. /\ first.target = "device" => first.mode # "task"
        /\ first.target \in {"host", "device"}
        /\ Packed(ps) => first.target = "host"
    <3>1. IsInput(R, first) /\ DOMAIN ps = 1 .. n /\ 1 \in 1 .. n
      BY <1>1, <1>2
    <3>2. Fusable(R, ps, first)
      BY <1>2, <3>1, InputFacts
    <3>3. QED
      BY <3>2 DEF Fusable
  <2>2. QED
    BY <1>3, <1>5, <1>6, <2>1 DEF OfFusion
<1>8. PICK s : s = p.calls
  OBVIOUS
<1>9. \A i \in 1 .. n : AreCalls(ps[i].calls)
  BY DEF IsInput
<1>10. AreCalls(s)
  BY <1>1, <1>4, <1>8, <1>9, CallsOf
<1>11. ASSUME NEW q \in 1 .. Len(s)
       PROVE  Binds(R, p, s[q])
  <2>1. TakesOne(ps, n, at, s[q])
    BY <1>1, <1>4, <1>8, <1>9, CallsTaken
  <2>2. PICK d : d = s[q]
    OBVIOUS
  <2>3. PICK i \in 1 .. n : \E c \in 1 .. Len(ps[i].calls) : Takes(ps, i, at, ps[i].calls[c], d)
    BY <2>1, <2>2 DEF TakesOne
  <2>4. PICK in : in = ps[i]
    OBVIOUS
  <2>5. PICK c \in 1 .. Len(in.calls) : Takes(ps, i, at, in.calls[c], d)
    BY <2>3, <2>4
  <2>6. PICK call, w : call = in.calls[c] /\ w = R[call.kernel]
    OBVIOUS
  <2>7. IsInput(R, in) /\ Launched(in) = Launched(first)
    BY <1>2, <2>4
  <2>8. Launches(R, in, call) /\ (Holds(in, call, w) \/ TakenWrong(w))
    BY <2>5, <2>6, <2>7 DEF IsInput, Binds
  <2>9. /\ d.kernel = call.kernel /\ DOMAIN d.reads = DOMAIN call.reads
        /\ Entry(in) = in.entry => d.reads = MovedReads(ps, i, at, call.reads)
    BY <2>4, <2>5, <2>6 DEF Takes
  <2>10. Launches(R, p, d)
    <3>1. Launched(p) = Launched(first)
      BY <1>3 DEF Launched
    <3>2. in.externs \subseteq p.externs
      BY <1>1, <1>5, <2>4 DEF Externs
    <3>3. QED
      BY <2>6, <2>7, <2>8, <2>9, <3>1, <3>2 DEF Launches
  <2>11. /\ in.bytes = <<>>
         /\ Entry(in) # in.entry => OfClient(R, in) /\ TakenWrong(in)
         /\ Packed(ps) => Entry(in) = "buffer" /\ OfClient(R, in) /\ in.table
    <3>1. Fusable(R, ps, in)
      BY <1>1, <2>4, <2>7, InputFacts
    <3>2. QED
      BY <3>1 DEF Fusable
  <2>12. OfClient(R, in) => w = in /\ \A j \in DOMAIN in.slots : call.reads[j] = j
    BY <2>5, <2>6, ClientCall
  <2>13. Holds(p, d, w) \/ TakenWrong(w)
    <3>1. CASE TakenWrong(w)
      BY <3>1
    <3>2. CASE Entry(in) # in.entry
      BY <2>11, <2>12, <3>2
    <3>3. CASE ~TakenWrong(w) /\ Entry(in) = in.entry
      <4>1. Holds(in, call, w) /\ DOMAIN call.reads = DOMAIN w.slots
        BY <2>6, <2>8, <3>3 DEF Launches
      <4>2. Packed(ps) => /\ Entry(in) # "pointers" /\ in.table
                          /\ \A j \in DOMAIN w.slots : Size(in.slots[call.reads[j]]) = Size(w.slots[j])
        BY <2>11, <2>12
      <4>3. d.reads = MovedReads(ps, i, at, call.reads)
        BY <2>9, <3>3
      <4>4. Holds(p, d, w)
        BY <1>1, <1>4, <2>4, <2>11, <4>1, <4>2, <4>3, FusedHolds
      <4>5. QED
        BY <4>4
    <3>4. QED
      BY <3>1, <3>2, <3>3
  <2>14. QED
    BY <2>2, <2>6, <2>9, <2>10, <2>13 DEF Binds
<1>12. QED
  BY <1>6, <1>7, <1>8, <1>10, <1>11 DEF IsInput
-----------------------------------------------------------------------------
LEMMA Bounded ==
  ASSUME NEW n \in Nat, NEW v, \A j \in 1 .. n : v[j] \in Nat
  PROVE  \E m \in Nat : \A j \in 1 .. n : v[j] <= m
<1> DEFINE Upto(k) == \E m \in Nat : \A j \in 1 .. k : v[j] <= m
           B == {k \in 0 .. n : ~Upto(k)}
<1>1. SUFFICES ASSUME B # {} PROVE FALSE
  <2>1. n \in 0 .. n
    OBVIOUS
  <2>2. B = {} => Upto(n)
    BY <2>1
  <2>3. QED
    BY <2>2
<1>2. PICK k \in B : \A l \in B : k <= l
  <2>1. B \subseteq Nat
    OBVIOUS
  <2> HIDE DEF B
  <2>2. QED
    BY <1>1, <2>1, LeastNatural
<1>3. k # 0
  <2>1. \A j \in 1 .. 0 : v[j] <= 0
    OBVIOUS
  <2>2. Upto(0)
    BY <2>1
  <2>3. QED
    BY <1>2, <2>2
<1>4. PICK p : p = k - 1
  OBVIOUS
<1>5. p \in 0 .. n /\ ~(k <= p) /\ k \in 1 .. n /\ \A j \in 1 .. k : j \in 1 .. p \/ j = k
  BY <1>2, <1>3, <1>4
<1>6. Upto(p)
  BY <1>2, <1>5
<1>7. PICK m \in Nat : \A j \in 1 .. p : v[j] <= m
  BY <1>6
<1>8. PICK t : t = m + v[k]
  OBVIOUS
<1>9. v[k] \in Nat /\ t \in Nat /\ m <= t /\ v[k] <= t
  BY <1>5, <1>8
<1>10. ASSUME NEW j \in 1 .. k PROVE v[j] <= t
  <2>1. CASE j = k
    BY <1>9, <2>1
  <2>2. CASE j \in 1 .. p
    <3>1. v[j] <= m /\ v[j] \in Nat
      BY <1>5, <1>7, <2>2
    <3>2. QED
      BY <1>9, <3>1
  <2>3. QED
    BY <1>5, <2>1, <2>2
<1>11. Upto(k)
  BY <1>9, <1>10
<1>12. QED
  BY <1>2, <1>11

(* The buffer that jit makes of the captures of a packed body. *)
LEMMA PacksApart ==
  ASSUME Pointer \in Nat \ {0}, NEW slots, AreSlots(slots), Apart(slots),
         NEW offsets, offsets = [j \in DOMAIN slots |-> slots[j].offset],
         NEW size, size = Seqs!Max({offsets[j] + Size(slots[j]) : j \in DOMAIN slots} \union {1})
  PROVE  Packs(slots, offsets, size) /\ 1 <= size
<1>1. PICK n : n = Len(slots)
  OBVIOUS
<1>2. n \in Nat /\ DOMAIN slots = 1 .. n
      /\ \A j \in 1 .. n : slots[j].kind \in {"ref", "copy"} /\ slots[j].size \in Nat
  BY <1>1, SlotsAreSequence
<1>3. \A j \in 1 .. n : Size(slots[j]) \in Nat
  BY <1>2 DEF Size
<1>4. \A j \in 1 .. n : offsets[j] = slots[j].offset /\ offsets[j] \in Nat
  <2>1. DOMAIN offsets = 1 .. n /\ \A j \in 1 .. n : offsets[j] = slots[j].offset
    BY <1>2
  <2>2. \A j \in 1 .. n : slots[j].offset \in Nat
    BY <1>2 DEF Apart
  <2>3. QED
    BY <2>1, <2>2
<1>5. PICK v : v = [j \in 1 .. n |-> offsets[j] + Size(slots[j])]
  OBVIOUS
<1>6. \A j \in 1 .. n : v[j] \in Nat /\ v[j] = offsets[j] + Size(slots[j])
  BY SMTT(30), <1>3, <1>4, <1>5
<1>7. PICK m \in Nat : \A j \in 1 .. n : v[j] <= m
  BY <1>2, <1>6, Bounded
<1> DEFINE S == {offsets[j] + Size(slots[j]) : j \in DOMAIN slots} \union {1}
<1>8. \A x \in S : x = 1 \/ \E j \in 1 .. n : x = v[j]
  BY <1>2, <1>6
<1>9. 1 \in S /\ \A j \in 1 .. n : v[j] \in S
  BY <1>2, <1>6
<1>10. size = Seqs!Max(S)
  OBVIOUS
<1> HIDE DEF S
<1>11. S \subseteq 0 .. m + 1 /\ S # {} /\ m + 1 \in Nat
  BY <1>6, <1>7, <1>8, <1>9
<1>12. size \in S /\ \A x \in S : x <= size
  BY <1>10, <1>11, GreatestNatural
<1>13. size \in Nat /\ 1 <= size /\ \A j \in 1 .. n : v[j] <= size
  <2>1. \A x \in 0 .. m + 1 : x \in Nat
    OBVIOUS
  <2>2. size \in Nat
    BY <1>11, <1>12, <2>1
  <2>3. QED
    BY <1>9, <1>12, <2>2
<1>14. \A j \in 1 .. n : offsets[j] + Size(slots[j]) <= size
  BY <1>6, <1>13
<1>15. \A j, k \in 1 .. n : j # k => \/ offsets[j] + Size(slots[j]) <= offsets[k]
                                    \/ offsets[k] + Size(slots[k]) <= offsets[j]
  BY <1>2, <1>4 DEF Apart
<1>16. QED
  BY <1>2, <1>3, <1>4, <1>13, <1>14, <1>15 DEF Packs
-----------------------------------------------------------------------------
(* What jit makes of the arguments and the calls of a program. *)
AlikeLaunched(p, q) ==
  Launched(q) = Launched(p) /\ q.externs = p.externs /\ q.table = p.table

BufferedBy(p, q) ==
  LET offsets == [j \in DOMAIN p.slots |-> p.slots[j].offset]
      size == Seqs!Max({offsets[j] + Size(p.slots[j]) : j \in DOMAIN p.slots} \union {1})
  IN  /\ q.slots = <<>> /\ q.bytes = Buffer(p.slots, offsets, size)
      /\ q.entry = p.entry /\ q.calls = Loaded(p.calls, offsets)

LEMMA CompiledArgs ==
  ASSUME NEW p, DOMAIN p = Fields, p.target \in {"host", "device"}, NEW own, NEW q, q = Compiled(p, own)
  PROVE  /\ AlikeLaunched(p, q)
         /\ \/ /\ p.target = "device"
               /\ q.slots = p.slots /\ q.bytes = p.bytes /\ q.calls = p.calls
            \/ /\ p.target = "host" /\ Shape(p) # p.entry
               /\ q.slots = p.slots /\ q.bytes = p.bytes /\ q.calls = Misread(p.calls)
               /\ q.entry = Shape(p)
            \/ p.target = "host" /\ Shape(p) = p.entry /\ Unbuffered(p) /\ BufferedBy(p, q)
            \/ /\ p.target = "host" /\ Shape(p) = p.entry /\ ~Unbuffered(p)
               /\ q.slots = p.slots /\ q.bytes = p.bytes /\ q.calls = p.calls
               /\ q.entry = IF p.entry = "values" THEN "pointers" ELSE p.entry
<1>1. \A f \in {"entry", "table", "mode", "grid", "target", "slots", "bytes", "calls", "externs", "owned",
                "source"} : f \in Fields
  BY DEF Fields
<1> DEFINE offsets == [j \in DOMAIN p.slots |-> p.slots[j].offset]
           size == Seqs!Max({offsets[j] + Size(p.slots[j]) : j \in DOMAIN p.slots} \union {1})
           buffer == Buffer(p.slots, offsets, size)
           loaded == Loaded(p.calls, offsets)
<1>2. /\ p.target = "device" => q = [p EXCEPT !.source = "PTX", !.owned = own]
      /\ p.target = "host" /\ Shape(p) # p.entry =>
           q = [p EXCEPT !.entry = Shape(p), !.calls = Misread(p.calls), !.owned = own]
      /\ p.target = "host" /\ Shape(p) = p.entry /\ Unbuffered(p) =>
           q = [p EXCEPT !.bytes = buffer, !.slots = <<>>, !.owned = own, !.calls = loaded]
      /\ p.target = "host" /\ Shape(p) = p.entry /\ ~Unbuffered(p) =>
           q = [p EXCEPT !.entry = IF @ = "values" THEN "pointers" ELSE @]
  BY SMTT(40) DEF Compiled
<1>3. q.bytes = buffer /\ q.slots = <<>> /\ q.calls = loaded /\ q.entry = p.entry => BufferedBy(p, q)
  BY DEF BufferedBy
<1> HIDE DEF offsets, size, buffer, loaded
<1>4. CASE p.target = "device"
  <2>1. q = [p EXCEPT !.source = "PTX", !.owned = own]
    BY <1>2, <1>4
  <2>2. QED
    BY <1>1, <1>4, <2>1 DEF AlikeLaunched, Launched
<1>5. CASE p.target = "host" /\ Shape(p) # p.entry
  <2>1. q = [p EXCEPT !.entry = Shape(p), !.calls = Misread(p.calls), !.owned = own]
    BY <1>2, <1>5
  <2>2. QED
    BY <1>1, <1>5, <2>1 DEF AlikeLaunched, Launched
<1>6. CASE p.target = "host" /\ Shape(p) = p.entry /\ Unbuffered(p)
  <2>1. q = [p EXCEPT !.bytes = buffer, !.slots = <<>>, !.owned = own, !.calls = loaded]
    BY <1>2, <1>6
  <2>2. /\ q.bytes = buffer /\ q.slots = <<>> /\ q.calls = loaded /\ q.entry = p.entry
        /\ q.mode = p.mode /\ q.grid = p.grid /\ q.target = p.target
        /\ q.externs = p.externs /\ q.table = p.table
    BY <1>1, <2>1
  <2>3. AlikeLaunched(p, q) /\ BufferedBy(p, q)
    BY <1>3, <2>2 DEF AlikeLaunched, Launched
  <2>4. QED
    BY <1>6, <2>3
<1>7. CASE p.target = "host" /\ Shape(p) = p.entry /\ ~Unbuffered(p)
  <2>1. q = [p EXCEPT !.entry = IF @ = "values" THEN "pointers" ELSE @]
    BY <1>2, <1>7
  <2>2. QED
    BY <1>1, <1>7, <2>1 DEF AlikeLaunched, Launched
<1>8. QED
  BY <1>4, <1>5, <1>6, <1>7
-----------------------------------------------------------------------------
(* The signature decides what a kernel over values is taken for. *)
Lost(p, w) == Shape(w) # w.entry /\ (w.mode = "task" \/ Len(p.calls) = 1)

AllLost(R, p) == \A c \in 1 .. Len(p.calls) : Lost(p, R[p.calls[c].kernel])

(* Once jit has met a program, it does not take it for another one again. *)
Settled(R, p) == p.entry # "values" /\ (Unbuffered(p) => AllLost(R, p))

IsBound(R, p) ==
  /\ AreCalls(p.calls) /\ AreSlots(p.slots)
  /\ \A c \in 1 .. Len(p.calls) :
       /\ Launches(R, p, p.calls[c])
       /\ Holds(p, p.calls[c], R[p.calls[c].kernel]) \/ Lost(p, R[p.calls[c].kernel])
  /\ OfClient(R, p) \/ Settled(R, p) \/ p.target = "device"

LEMMA InputIsBound ==
  ASSUME NEW R, NEW p, IsInput(R, p)
  PROVE  IsBound(R, p)
<1>1. \A c \in 1 .. Len(p.calls) :
        /\ Launches(R, p, p.calls[c])
        /\ Holds(p, p.calls[c], R[p.calls[c].kernel]) \/ Lost(p, R[p.calls[c].kernel])
  BY DEF IsInput, Binds, TakenWrong, Lost
<1>2. OfFusion(p) => Settled(R, p) \/ p.target = "device"
  <2>1. SUFFICES ASSUME OfFusion(p), p.target # "device" PROVE Settled(R, p)
    OBVIOUS
  <2>2. p.entry # "values" /\ ~p.table
    BY <2>1 DEF OfFusion
  <2>3. ~Unbuffered(p)
    BY <2>2 DEF Unbuffered
  <2>4. QED
    BY <2>2, <2>3 DEF Settled
<1>3. QED
  BY <1>1, <1>2 DEF IsInput, IsBound

LEMMA LaunchesAlike ==
  ASSUME NEW R, NEW p, NEW q, NEW call, NEW d, Launches(R, p, call), AlikeLaunched(p, q),
         d.kernel = call.kernel, DOMAIN d.reads = DOMAIN call.reads
  PROVE  Launches(R, q, d)
BY DEF Launches, AlikeLaunched

(* Misread leaves the kernel and takes the values. *)
LEMMA MisreadCall ==
  ASSUME NEW s, AreCalls(s), NEW c \in 1 .. Len(s)
  PROVE  /\ Misread(s)[c].kernel = s[c].kernel
         /\ DOMAIN Misread(s)[c].reads = DOMAIN s[c].reads
<1>1. c \in DOMAIN s /\ DOMAIN s[c] = {"kernel", "reads"}
  BY CallsAreSequence
<1>2. PICK x, y : x = s[c] /\ y = Misread(s)[c]
  OBVIOUS
<1>3. y = [x EXCEPT !.reads = [j \in DOMAIN x.reads |-> Nowhere]]
  BY <1>1, <1>2 DEF Misread
<1>4. y.kernel = x.kernel /\ DOMAIN y.reads = DOMAIN x.reads
  BY <1>1, <1>2, <1>3
<1>5. QED
  BY <1>2, <1>4

LEMMA LoadedCall ==
  ASSUME NEW s, AreCalls(s), NEW at, NEW c \in 1 .. Len(s)
  PROVE  /\ Loaded(s, at)[c].kernel = s[c].kernel
         /\ DOMAIN Loaded(s, at)[c].reads = DOMAIN s[c].reads
         /\ \A j \in DOMAIN s[c].reads : Loaded(s, at)[c].reads[j] = at[s[c].reads[j]]
<1>1. c \in DOMAIN s /\ DOMAIN s[c] = {"kernel", "reads"}
  BY CallsAreSequence
<1>2. PICK x, y : x = s[c] /\ y = Loaded(s, at)[c]
  OBVIOUS
<1>3. y = [x EXCEPT !.reads = [j \in DOMAIN x.reads |-> at[x.reads[j]]]]
  BY <1>1, <1>2 DEF Loaded
<1>4. /\ y.kernel = x.kernel /\ DOMAIN y.reads = DOMAIN x.reads
      /\ \A j \in DOMAIN x.reads : y.reads[j] = at[x.reads[j]]
  BY <1>1, <1>2, <1>3
<1>5. QED
  BY <1>2, <1>4

LEMMA BufferedFilled ==
  ASSUME Pointer \in Nat \ {0}, NEW R, NEW p, OfClient(R, p), p.entry = "buffer", NEW q, BufferedBy(p, q)
  PROVE  q.bytes # <<>>
<1>1. PICK slots, offsets, size :
        /\ slots = p.slots /\ offsets = [j \in DOMAIN slots |-> slots[j].offset]
        /\ size = Seqs!Max({offsets[j] + Size(slots[j]) : j \in DOMAIN slots} \union {1})
  OBVIOUS
<1>2. AreSlots(slots) /\ Apart(slots)
  BY <1>1 DEF OfClient, Recordable
<1>3. Packs(slots, offsets, size) /\ 1 <= size
  BY <1>1, <1>2, PacksApart
<1>4. size \in Nat
  BY <1>3 DEF Packs
<1>5. q.bytes = Buffer(slots, offsets, size)
  BY <1>1 DEF BufferedBy
<1>6. QED
  BY <1>3, <1>4, <1>5, BufferFilled

(* The buffer that is made of a program of the client has its values. *)
LEMMA BufferedHolds ==
  ASSUME Pointer \in Nat \ {0}, NEW R, NEW p, OfClient(R, p), p.entry = "buffer", NEW q, BufferedBy(p, q),
         AreCalls(p.calls), NEW c \in 1 .. Len(p.calls)
  PROVE  Holds(q, q.calls[c], p)
<1>1. PICK slots, offsets, size, s :
        /\ slots = p.slots /\ offsets = [j \in DOMAIN slots |-> slots[j].offset] /\ s = p.calls
        /\ size = Seqs!Max({offsets[j] + Size(slots[j]) : j \in DOMAIN slots} \union {1})
  OBVIOUS
<1>2. AreSlots(slots) /\ Apart(slots)
  BY <1>1 DEF OfClient, Recordable
<1>3. Packs(slots, offsets, size) /\ 1 <= size
  BY <1>1, <1>2, PacksApart
<1>4. q.bytes = Buffer(slots, offsets, size) /\ q.calls = Loaded(s, offsets)
  BY <1>1 DEF BufferedBy
<1>5. size \in Nat /\ q.bytes # <<>>
  <2>1. size \in Nat
    BY <1>3 DEF Packs
  <2>2. QED
    BY <2>1, BufferedFilled
<1>6. Len(slots) \in Nat /\ DOMAIN slots = 1 .. Len(slots)
  BY <1>2, SlotsAreSequence
<1>7. DOMAIN s[c].reads = DOMAIN slots /\ \A j \in DOMAIN slots : s[c].reads[j] = j
  BY <1>1, ClientCall
<1>8. ASSUME NEW j \in DOMAIN slots
      PROVE  /\ q.calls[c].reads[j] # Nowhere
             /\ Stored(q.bytes, q.calls[c].reads[j], slots[j])
  <2>1. q.calls[c].reads[j] = offsets[j]
    BY <1>1, <1>4, <1>7, LoadedCall
  <2>2. offsets[j] # Nowhere
    BY <1>3 DEF Packs, Nowhere
  <2>3. Stored(q.bytes, offsets[j], slots[j])
    BY <1>3, <1>4, <1>6, BufferOf
  <2>4. QED
    BY <2>1, <2>2, <2>3
<1>9. QED
  BY <1>1, <1>5, <1>8 DEF Holds
-----------------------------------------------------------------------------
LEMMA CompiledIsBound ==
  ASSUME Pointer \in Nat \ {0}, NEW R, NEW p, IsBound(R, p), DOMAIN p = Fields,
         p.target \in {"host", "device"}, NEW own, NEW q, q = Compiled(p, own),
         CallsKept(p.calls, q.calls)
  PROVE  IsBound(R, q)
<1>1. PICK s, t, n : s = p.calls /\ t = q.calls /\ n = Len(s)
  OBVIOUS
<1>2. AreCalls(s) /\ AreSlots(p.slots)
  BY <1>1 DEF IsBound
<1>3. AreCalls(t) /\ Len(t) = n /\ \A c \in 1 .. n : t[c].kernel = s[c].kernel
  <2>1. CallsKept(s, t)
    BY <1>1
  <2>2. QED
    BY <1>1, <1>2, <2>1, MovedCalls
<1>4. \A c \in 1 .. n : /\ Launches(R, p, s[c])
                        /\ Holds(p, s[c], R[s[c].kernel]) \/ Lost(p, R[s[c].kernel])
  BY <1>1 DEF IsBound
<1>5. OfClient(R, p) \/ Settled(R, p) \/ p.target = "device"
  BY DEF IsBound
<1>6. AlikeLaunched(p, q) /\ q.target = p.target
  <2>1. AlikeLaunched(p, q)
    BY CompiledArgs
  <2>2. QED
    BY <2>1 DEF AlikeLaunched, Launched
<1>7. \A w : Lost(p, w) <=> Lost(q, w)
  BY <1>1, <1>3 DEF Lost
<1>8. AllLost(R, p) => AllLost(R, q)
  BY <1>1, <1>3, <1>7 DEF AllLost
(* It is enough that the calls are bound, and the rest follows. *)
<1>9. SUFFICES /\ AreSlots(q.slots)
               /\ \A c \in 1 .. n : /\ DOMAIN t[c].reads = DOMAIN s[c].reads
                                    /\ Holds(q, t[c], R[s[c].kernel]) \/ Lost(q, R[s[c].kernel])
               /\ OfClient(R, q) \/ Settled(R, q) \/ q.target = "device"
  <2>1. ASSUME \A c \in 1 .. n : DOMAIN t[c].reads = DOMAIN s[c].reads
        PROVE  \A c \in 1 .. n : Launches(R, q, t[c])
    BY <1>3, <1>4, <1>6, <2>1, LaunchesAlike
  <2>2. QED
    BY <1>1, <1>3, <2>1 DEF IsBound
<1>10. ASSUME q.slots = p.slots, q.bytes = p.bytes, q.calls = p.calls
       PROVE  /\ AreSlots(q.slots)
              /\ \A c \in 1 .. n : /\ DOMAIN t[c].reads = DOMAIN s[c].reads
                                   /\ Holds(q, t[c], R[s[c].kernel]) \/ Lost(q, R[s[c].kernel])
  <2>1. t = s
    BY <1>1, <1>10
  <2>2. \A call, w : Holds(p, call, w) <=> Holds(q, call, w)
    BY <1>10 DEF Holds
  <2>3. QED
    BY <1>2, <1>4, <1>7, <1>10, <2>1, <2>2
<1>11. CASE /\ p.target = "device"
            /\ q.slots = p.slots /\ q.bytes = p.bytes /\ q.calls = p.calls
  BY <1>6, <1>10, <1>11
<1>12. CASE /\ p.target = "host" /\ Shape(p) # p.entry
            /\ q.slots = p.slots /\ q.bytes = p.bytes /\ q.calls = Misread(p.calls)
            /\ q.entry = Shape(p)
  <2>1. p.entry = "values"
    BY <1>12, EntryCases
  <2>2. OfClient(R, p)
    BY <1>5, <1>12, <2>1 DEF Settled
  <2>3. \A c \in 1 .. n : R[s[c].kernel] = p /\ n = 1
    BY <1>1, <2>2, ClientCall
  <2>4. \A c \in 1 .. n : Lost(q, R[s[c].kernel])
    BY <1>1, <1>3, <1>12, <2>3 DEF Lost
  <2>5. \A c \in 1 .. n : DOMAIN t[c].reads = DOMAIN s[c].reads
    BY <1>1, <1>2, <1>12, MisreadCall
  <2>6. AllLost(R, q)
    BY <1>1, <1>3, <2>4 DEF AllLost
  <2>7. Settled(R, q)
    BY <1>12, <2>1, <2>6 DEF Settled
  <2>8. QED
    BY <1>2, <1>12, <2>4, <2>5, <2>7
<1>13. CASE p.target = "host" /\ Shape(p) = p.entry /\ Unbuffered(p) /\ BufferedBy(p, q)
  <2>1. p.entry = "buffer"
    BY <1>13 DEF Unbuffered
  <2>2. PICK at : t = Loaded(s, at) /\ q.slots = <<>> /\ q.entry = "buffer"
    BY <1>1, <1>13, <2>1 DEF BufferedBy
  <2>3. \A c \in 1 .. n : DOMAIN t[c].reads = DOMAIN s[c].reads
    BY <1>1, <1>2, <2>2, LoadedCall
  <2>4. AreSlots(q.slots)
    BY <2>2 DEF AreSlots
  <2>5. CASE OfClient(R, p)
    <3>1. \A c \in 1 .. n : R[s[c].kernel] = p
      BY <1>1, <2>5, ClientCall
    <3>2. AreCalls(p.calls)
      BY <1>1, <1>2
    <3>3. \A c \in 1 .. n : Holds(q, t[c], p)
      BY <1>1, <1>13, <2>1, <2>5, <3>2, BufferedHolds
    <3>4. q.bytes # <<>>
      BY <1>13, <2>1, <2>5, BufferedFilled
    <3>5. Settled(R, q)
      BY <2>2, <3>4 DEF Settled, Unbuffered
    <3>6. QED
      BY <2>3, <2>4, <3>1, <3>3, <3>5
  <2>6. CASE Settled(R, p)
    <3>1. AllLost(R, p)
      BY <1>13, <2>6 DEF Settled
    <3>2. \A c \in 1 .. n : Lost(q, R[s[c].kernel])
      BY <1>1, <1>7, <3>1 DEF AllLost
    <3>3. Settled(R, q)
      BY <1>8, <2>2, <3>1 DEF Settled
    <3>4. QED
      BY <2>3, <2>4, <3>2, <3>3
  <2>7. QED
    BY <1>5, <1>13, <2>5, <2>6
<1>14. CASE /\ p.target = "host" /\ Shape(p) = p.entry /\ ~Unbuffered(p)
            /\ q.slots = p.slots /\ q.bytes = p.bytes /\ q.calls = p.calls
            /\ q.entry = IF p.entry = "values" THEN "pointers" ELSE p.entry
  <2>1. q.entry # "values" /\ (q.entry = "buffer" => p.entry = "buffer")
    BY <1>14
  <2>2. q.table = p.table
    BY <1>6 DEF AlikeLaunched
  <2>3. ~Unbuffered(q)
    <3>1. SUFFICES ASSUME Unbuffered(q) PROVE FALSE
      OBVIOUS
    <3>2. Shape(q) = q.entry
      BY <2>1, EntryCases
    <3>3. q.entry = "buffer" /\ p.table /\ p.bytes = <<>>
      BY <1>14, <2>2, <3>1, <3>2 DEF Unbuffered
    <3>4. Unbuffered(p)
      BY <1>14, <2>1, <3>3 DEF Unbuffered
    <3>5. QED
      BY <1>14, <3>4
  <2>4. Settled(R, q)
    BY <2>1, <2>3 DEF Settled
  <2>5. QED
    BY <1>10, <1>14, <2>4
<1>15. QED
  BY <1>11, <1>12, <1>13, <1>14, CompiledArgs
-----------------------------------------------------------------------------
(* The programs R that were recorded for the nodes S. *)
OfRecording(R, S) ==
  /\ DOMAIN R = S
  /\ \A u \in S : R[u].source = "LLVMIR" => OfClient(R, R[u])
  /\ \A u, v \in S : R[u].source = "LLVMIR" /\ R[v].source = "LLVMIR"
                     /\ <<R[u].mode, R[u].grid>> = <<R[v].mode, R[v].grid>> => R[u].target = R[v].target

(* A program that was recorded is bound; until jit is called it is one that *)
(* prog-fuse can take.                                                      *)
ProgramBound(u) ==
  LET R == recorded.prog
  IN  /\ Launched(prog[u]) = Launched(R[u])
      /\ IsBound(R, prog[u])
      /\ ~jitted => IsInput(R, prog[u])

Bindings ==
  /\ OfRecording(recorded.prog, Inner)
  /\ (pc = "prog-fuse" => ~jitted) /\ (pc = "jit" => jitted)
  /\ \A u \in Live : recorded.prog[u].source = "LLVMIR" => ProgramBound(u)

LEMMA ClientIsInput ==
  ASSUME NEW R, NEW p, OfClient(R, p), p.source = "LLVMIR"
  PROVE  IsInput(R, p)
<1>1. PICK u \in DOMAIN R : /\ p = R[u] /\ Recordable(p)
                            /\ p.calls = <<[kernel |-> u, reads |-> [j \in DOMAIN p.slots |-> j]]>>
  BY DEF OfClient
<1>2. PICK x, s : x = [kernel |-> u, reads |-> [j \in DOMAIN p.slots |-> j]] /\ s = p.calls
  OBVIOUS
<1>3. s = <<x>> /\ DOMAIN x = {"kernel", "reads"} /\ x.kernel = u
      /\ DOMAIN x.reads = DOMAIN p.slots /\ \A j \in DOMAIN p.slots : x.reads[j] = j
  BY <1>1, <1>2
<1>4. AreCalls(s)
  BY <1>3, OneCall
<1>5. \A c \in 1 .. Len(s) : s[c] = x
  BY <1>3, OneCallIs
<1>6. Launches(R, p, x)
  BY <1>1, <1>3 DEF Launches
<1>7. Holds(p, x, p)
  BY <1>1, <1>3 DEF Holds, Recordable
<1>8. Binds(R, p, x)
  BY <1>1, <1>3, <1>6, <1>7 DEF Binds
<1>9. AreSlots(p.slots)
  BY <1>1 DEF Recordable
<1>10. QED
  BY <1>2, <1>4, <1>5, <1>8, <1>9 DEF IsInput

LEMMA InitBindings == Init => Bindings
<1> SUFFICES ASSUME Init PROVE Bindings
  OBVIOUS
<1>1. PICK r \in Recordings : prog = r.prog
  BY DEF Init
<1>2. recorded.prog = prog /\ jitted = FALSE
  BY DEF Init
<1>3. PICK R : R = r.prog
  OBVIOUS
<1>4. DOMAIN R = Inner
  BY <1>3, RecordingsAssumption
<1>5. ASSUME NEW u \in Inner, R[u].source = "LLVMIR"
      PROVE  /\ OfClient(R, R[u])
             /\ \A w \in Inner : R[w].source = "LLVMIR" /\ <<R[w].mode, R[w].grid>> = <<R[u].mode, R[u].grid>> =>
                  R[w].target = R[u].target
  <2> DEFINE p == r.prog[u]
             s == p.slots
  <2>1. p = R[u]
    BY <1>3
  <2>2. /\ p.target \in {"host", "device"} /\ p.bytes = <<>>
        /\ p.entry = "buffer" => p.table /\ p.mode = "task"
        /\ p.calls = <<[kernel |-> u, reads |-> [j \in DOMAIN p.slots |-> j]]>>
    BY <1>3, <1>5, <2>1, RecordingsAssumption
  <2>3. /\ s \in Seq({s[j] : j \in DOMAIN s})
        /\ \A j \in DOMAIN s : s[j].kind \in {"ref", "copy"} /\ s[j].size \in Nat
        /\ p.entry = "buffer" =>
              /\ \A j \in DOMAIN s : s[j].offset \in Nat
              /\ \A j, k \in DOMAIN s : j # k => \/ s[j].offset + Size(s[j]) <= s[k].offset
                                                \/ s[k].offset + Size(s[k]) <= s[j].offset
        /\ p.target = "device" => p.mode # "task"
        /\ \A w \in Inner : R[w].source = "LLVMIR" /\ <<R[w].mode, R[w].grid>> = <<p.mode, p.grid>> =>
              R[w].target = p.target
    <3>1. p.source = "LLVMIR"
      BY <1>3, <1>5
    <3>2. QED
      BY <1>3, <3>1, ProgramsAssumption
  <2>4. Recordable(p)
    <3>1. AreSlots(s)
      BY <2>3 DEF AreSlots
    <3>2. p.entry = "buffer" => Apart(s)
      BY <2>3 DEF Apart
    <3> HIDE DEF s
    <3>3. p.entry = "buffer" => Apart(p.slots)
      BY <3>2 DEF s
    <3>4. AreSlots(p.slots)
      BY <3>1 DEF s
    <3> HIDE DEF p
    <3>5. QED
      BY <2>2, <2>3, <3>3, <3>4 DEF Recordable
  <2> HIDE DEF p
  <2>5. OfClient(R, p)
    BY <1>4, <2>1, <2>2, <2>4 DEF OfClient
  <2>6. QED
    BY <2>1, <2>3, <2>5
<1>6. OfRecording(R, Inner)
  BY <1>4, <1>5 DEF OfRecording
<1>7. ASSUME NEW u \in Live, R[u].source = "LLVMIR"
      PROVE  ProgramBound(u)
  <2>1. u \in Inner
    BY DEF Live, Commands
  <2>2. IsInput(R, R[u])
    BY <1>5, <1>7, <2>1, ClientIsInput
  <2>3. IsBound(R, R[u])
    BY <2>2, InputIsBound
  <2>4. QED
    BY <1>1, <1>2, <1>3, <2>2, <2>3 DEF ProgramBound
<1>8. QED
  BY <1>1, <1>2, <1>3, <1>6, <1>7 DEF Bindings, Init
-----------------------------------------------------------------------------
LEMMA FusePrograms ==
  ASSUME IInv, NEW u \in Inner, Fuse(u), NEW c, c = Chain(u)
  PROVE  /\ ~Refused(Programs(c))
         /\ \E own : prog'[u] = Fused(Programs(c), own)
         /\ \A x \in Inner : x \notin Links(c) => prog'[x] = prog[x]
<1>1. c[1] = u /\ Len(c) \in Nat /\ Len(c) > 1
  BY FuseFacts
<1> DEFINE own == {<<serial, part>> : part \in {"raw", "args"} \union
                     (IF Externs(Programs(c)) = {} THEN {} ELSE {"externs"})}
           fused == Fused(Programs(c), own)
<1>2. ~Refused(Programs(c)) /\ prog' = Inputs(c, fused)
  BY DEF Fuse
<1> HIDE DEF own
<1>3. \E o : fused = Fused(Programs(c), o)
  OBVIOUS
<1> HIDE DEF fused
<1>4. /\ prog'[u] = fused
      /\ \A x \in Inner : x # u /\ (\A k \in 2 .. Len(c) : x # c[k]) => prog'[x] = prog[x]
  BY <1>1, <1>2 DEF Inputs
<1>5. ASSUME NEW x \in Inner, x \notin Links(c) PROVE prog'[x] = prog[x]
  <2>1. \A k \in 1 .. Len(c) : x # c[k]
    BY <1>5 DEF Links
  <2>2. 1 \in 1 .. Len(c) /\ \A k \in 2 .. Len(c) : k \in 1 .. Len(c)
    BY <1>1
  <2>3. QED
    BY <1>1, <1>4, <2>1, <2>2
<1>6. QED
  BY <1>2, <1>3, <1>4, <1>5

(* What a chain brings into a fusion. *)
ChainFacts(c, n, ps, R) ==
  /\ n \in Nat /\ n > 1 /\ ps \in Seq({ps[k] : k \in 1 .. n}) /\ Len(ps) = n /\ DOMAIN ps = 1 .. n
  /\ \A k \in 1 .. n : /\ ps[k] = prog[c[k]] /\ c[k] \in Live /\ R[c[k]].source = "LLVMIR"
                       /\ ps[k].source = "LLVMIR" /\ DOMAIN ps[k] = Fields
                       /\ Launched(ps[k]) = Launched(R[c[k]]) /\ Launched(ps[k]) = Launched(ps[1])
                       /\ IsInput(R, ps[k])
  /\ \A i, j \in 1 .. n : i # j => c[i] # c[j]

LEMMA ChainPrograms ==
  ASSUME IInv, Bindings, pc = "prog-fuse", chain = <<>>, NEW u \in Inner, Reached(u), IsHead(u),
         NEW c, c = Chain(u), NEW n, n = Len(c), NEW ps, ps = Programs(c), NEW R, R = recorded.prog
  PROVE  ChainFacts(c, n, ps, R)
<1>1. /\ u \in Programmed /\ IsChain(u, u, c) /\ Run(g, c) /\ n > 1
      /\ \A k \in 1 .. n : IsLLVMIR(c[k]) /\ LaunchParamsEqual(u, c[k])
  BY HeadChain
<1>2. c \in Seq(Programmed) /\ n \in Nat /\ c[1] = u
  BY <1>1 DEF IsChain
<1>3. Dag(g)
  BY DEF IInv, GraphSound
<1>4. ASSUME NEW i \in 1 .. n, NEW j \in 1 .. n, i < j PROVE c[i] # c[j]
  <2>1. i \in 1 .. Len(c) /\ j \in 1 .. Len(c)
    OBVIOUS
  <2>2. QED
    BY <1>1, <1>3, <1>4, <2>1, RunPaths
<1>5. \A i, j \in 1 .. n : i # j => c[i] # c[j]
  <2>1. \A i, j \in 1 .. n : i # j => i < j \/ j < i
    BY <1>2
  <2>2. QED
    BY <1>4, <2>1
<1>6. ~jitted
  BY DEF Bindings
<1>7. ASSUME NEW k \in 1 .. n
      PROVE  /\ c[k] \in Inner /\ c[k] \in Live /\ R[c[k]].source = "LLVMIR"
             /\ prog[c[k]].source = "LLVMIR" /\ DOMAIN prog[c[k]] = Fields
             /\ Launched(prog[c[k]]) = Launched(R[c[k]]) /\ IsInput(R, prog[c[k]])
             /\ prog[c[k]].mode = prog[u].mode /\ prog[c[k]].grid = prog[u].grid
  <2>1. PICK x : x = c[k]
    OBVIOUS
  <2>2. x \in Programmed /\ IsLLVMIR(x) /\ LaunchParamsEqual(u, x)
    BY <1>1, <1>2, <2>1
  <2>3. x \in Inner /\ x \in Live
    BY <2>2 DEF Live, Onward, Commands, IsLLVMIR, Programmed
  <2>4. R[x].source = "LLVMIR" /\ prog[x].source = "LLVMIR" /\ DOMAIN prog[x] = Fields
    BY <2>2, <2>3 DEF IInv, ProgramsSound, IsLLVMIR
  <2>5. ProgramBound(x)
    BY <2>3, <2>4 DEF Bindings
  <2>6. Launched(prog[x]) = Launched(R[x]) /\ IsInput(R, prog[x])
    BY <1>6, <2>5 DEF ProgramBound
  <2>7. QED
    BY <2>1, <2>2, <2>3, <2>4, <2>6 DEF LaunchParamsEqual
<1>8. DOMAIN ps = 1 .. n /\ ps = [k \in 1 .. n |-> ps[k]] /\ \A k \in 1 .. n : ps[k] = prog[c[k]]
  <2>1. DOMAIN c = 1 .. n
    BY <1>2
  <2>2. QED
    BY <2>1 DEF Programs
<1>9. 1 \in 1 .. n /\ ps[1] = prog[u]
  BY <1>1, <1>2, <1>8
<1>10. ASSUME NEW k \in 1 .. n
       PROVE  Launched(ps[k]) = Launched(ps[1])
  <2>1. PICK x, p, q : x = c[k] /\ p = prog[x] /\ q = prog[u]
    OBVIOUS
  <2>2. /\ x \in Inner /\ R[x].source = "LLVMIR"
        /\ Launched(p) = Launched(R[x]) /\ p.mode = q.mode /\ p.grid = q.grid
    BY <1>7, <2>1
  <2>3. R[u].source = "LLVMIR" /\ Launched(q) = Launched(R[u])
    BY <1>2, <1>7, <1>9, <2>1
  <2>4. <<R[x].mode, R[x].grid>> = <<R[u].mode, R[u].grid>>
    BY <2>2, <2>3 DEF Launched
  <2>5. R[x].target = R[u].target
    BY <2>2, <2>3, <2>4 DEF Bindings, OfRecording
  <2>6. Launched(p) = Launched(q)
    BY <2>2, <2>3, <2>4, <2>5 DEF Launched
  <2>7. QED
    BY <1>8, <1>9, <2>1, <2>6
<1>11. ps \in Seq({ps[k] : k \in 1 .. n}) /\ Len(ps) = n
  <2> DEFINE X == {ps[k] : k \in 1 .. n}
  <2>1. \A k \in 1 .. n : ps[k] \in X
    OBVIOUS
  <2> HIDE DEF X
  <2>2. ps \in Seq(X) /\ Len(ps) = n
    BY ZenonT(30), <1>2, <1>8, <2>1, SequenceOf
  <2>3. QED
    BY <2>2 DEF X
<1>12. ASSUME NEW k \in 1 .. n
       PROVE  /\ ps[k] = prog[c[k]] /\ c[k] \in Live /\ R[c[k]].source = "LLVMIR"
              /\ ps[k].source = "LLVMIR" /\ DOMAIN ps[k] = Fields
              /\ Launched(ps[k]) = Launched(R[c[k]]) /\ Launched(ps[k]) = Launched(ps[1])
              /\ IsInput(R, ps[k])
  BY <1>7, <1>8, <1>10
<1>13. QED
  BY <1>1, <1>2, <1>5, <1>8, <1>11, <1>12 DEF ChainFacts

LEMMA FuseBindings ==
  ASSUME IInv, Bindings, NEW u \in Inner, Fuse(u)
  PROVE  Bindings'
<1>1. PICK c, n, ps, R : c = Chain(u) /\ n = Len(c) /\ ps = Programs(c) /\ R = recorded.prog
  OBVIOUS
<1>2. /\ pc = "prog-fuse" /\ chain = <<>> /\ n \in Nat /\ n > 1 /\ c[1] = u /\ chain' = c
      /\ \A k \in 1 .. n : c[k] \in Programmed /\ IsLLVMIR(c[k]) /\ LaunchParamsEqual(u, c[k])
      /\ UNCHANGED <<g, recorded, pc, jitted>>
      /\ prog'[u].mode = prog[u].mode /\ prog'[u].grid = prog[u].grid /\ prog'[u].target = prog[u].target
  BY <1>1, FuseFacts
<1>3. ChainFacts(c, n, ps, R)
  BY <1>1, <1>2, ChainPrograms DEF Fuse
<1>4. ~Refused(ps) /\ \A x \in Inner : x \notin Links(c) => prog'[x] = prog[x]
  BY <1>1, FusePrograms
<1>5. PICK own : prog'[u] = Fused(ps, own)
  BY <1>1, FusePrograms
<1>6. ~jitted /\ ~jitted'
  BY <1>2 DEF Bindings
<1>7. 1 \in 1 .. n /\ 1 <= n
  BY <1>2
<1>8. /\ ps[1] = prog[u] /\ DOMAIN ps[1] = Fields /\ Launched(ps[1]) = Launched(R[u])
      /\ ps \in Seq({ps[k] : k \in 1 .. n}) /\ Len(ps) = n
      /\ \A k \in 1 .. n : IsInput(R, ps[k]) /\ Launched(ps[k]) = Launched(ps[1])
  BY <1>2, <1>3, <1>7 DEF ChainFacts
<1>9. PICK p : p = prog'[u]
  OBVIOUS
<1>10. Pointer \in Nat \ {0}
  BY ProgramsAssumption
<1>11. IsInput(R, p)
  <2>1. n \in Nat /\ ~Refused(ps) /\ p = Fused(ps, own)
    BY <1>2, <1>4, <1>5, <1>9
  <2>2. QED
    BY <1>7, <1>8, <1>10, <2>1, FusedIsInput
<1>12. IsBound(R, p)
  BY <1>11, InputIsBound
<1>13. Launched(p) = Launched(R[u])
  <2>1. Launched(prog[u]) = Launched(R[u])
    BY <1>8
  <2>2. QED
    BY <1>2, <1>9, <2>1 DEF Launched
<1>14. ProgramBound(u)'
  BY <1>1, <1>2, <1>9, <1>11, <1>12, <1>13 DEF ProgramBound
<1>15. ASSUME NEW x \in Live', recorded'.prog[x].source = "LLVMIR"
       PROVE  ProgramBound(x)'
  <2>1. x \in Live /\ x \in Inner /\ \A k \in 2 .. n : x # c[k]
    BY <1>1, <1>2, <1>15 DEF Live, Commands, Onward
  <2>2. CASE x = u
    BY <1>14, <2>2
  <2>3. CASE x # u
    <3>1. \A k \in 1 .. n : k = 1 \/ k \in 2 .. n
      BY <1>2
    <3>2. x \notin Links(c)
      BY <1>1, <1>2, <2>1, <2>3, <3>1 DEF Links
    <3>3. prog'[x] = prog[x]
      BY <1>4, <2>1, <3>2
    <3>4. ProgramBound(x)
      BY <1>2, <1>15, <2>1 DEF Bindings
    <3>5. QED
      BY <1>2, <3>3, <3>4 DEF ProgramBound
  <2>4. QED
    BY <2>2, <2>3
<1>16. QED
  BY <1>2, <1>6, <1>15 DEF Bindings
-----------------------------------------------------------------------------
LEMMA CompileBindings ==
  ASSUME IInv, Bindings, NEW u \in Inner, Compile(u)
  PROVE  Bindings'
<1>1. /\ pc = "jit" /\ IsLLVMIR(u)
      /\ UNCHANGED <<g, recorded, pc, chain, jitted>>
      /\ \E own : prog' = [prog EXCEPT ![u] = Compiled(prog[u], own)]
  BY DEF Compile
<1>2. CallsKept(prog[u].calls, prog'[u].calls) /\ \A x \in Inner \ {u} : prog'[x] = prog[x]
  BY CompileIInv
<1>3. /\ DOMAIN prog[u] = Fields /\ prog[u].target \in {"host", "device"}
      /\ recorded.prog[u].source = "LLVMIR" /\ DOMAIN prog = Inner
  BY <1>1 DEF IInv, ProgramsSound, IsLLVMIR, TypeOK
<1>4. PICK own : prog'[u] = Compiled(prog[u], own)
  BY <1>1, <1>3
<1>5. Live' = Live /\ (u \in Live => ProgramBound(u))
  BY <1>1, <1>3 DEF Live, Commands, Onward, Bindings
<1>6. PICK R, p, q : R = recorded.prog /\ p = prog[u] /\ q = prog'[u]
  OBVIOUS
<1>7. Pointer \in Nat \ {0}
  BY ProgramsAssumption
<1>8. ASSUME u \in Live
      PROVE  Launched(q) = Launched(R[u]) /\ IsBound(R, q)
  <2>1. Launched(p) = Launched(R[u]) /\ IsBound(R, p)
    BY <1>5, <1>6, <1>8 DEF ProgramBound
  <2>2. DOMAIN p = Fields /\ p.target \in {"host", "device"} /\ q = Compiled(p, own)
        /\ CallsKept(p.calls, q.calls)
    BY <1>2, <1>3, <1>4, <1>6
  <2>3. IsBound(R, q)
    BY <1>7, <2>1, <2>2, CompiledIsBound
  <2>4. AlikeLaunched(p, q)
    BY <2>2, CompiledArgs
  <2>5. QED
    BY <2>1, <2>3, <2>4 DEF AlikeLaunched
<1>9. ASSUME NEW x \in Live', recorded'.prog[x].source = "LLVMIR", jitted
      PROVE  ProgramBound(x)'
  <2>1. x \in Live /\ x \in Inner
    BY <1>5, <1>9 DEF Live, Commands
  <2>2. CASE x = u
    BY <1>1, <1>6, <1>8, <1>9, <2>1, <2>2 DEF ProgramBound
  <2>3. CASE x # u
    <3>1. prog'[x] = prog[x] /\ ProgramBound(x)
      BY <1>1, <1>2, <1>9, <2>1, <2>3 DEF Bindings
    <3>2. QED
      BY <1>1, <3>1 DEF ProgramBound
  <2>4. QED
    BY <2>2, <2>3
<1>10. jitted
  BY <1>1 DEF Bindings
<1>11. QED
  BY <1>1, <1>9, <1>10 DEF Bindings

(* What only starts, returns or looks. *)
LEMMA QuietBindings ==
  ASSUME Bindings, UNCHANGED <<prog, recorded>>, Live' = Live,
         jitted => jitted', jitted \in BOOLEAN, (pc' = "prog-fuse" => ~jitted') /\ (pc' = "jit" => jitted')
  PROVE  Bindings'
BY DEF Bindings, ProgramBound

LEMMA NextBindings == IInv /\ Bindings /\ [Next]_vars => Bindings'
<1> SUFFICES ASSUME IInv, Bindings, [Next]_vars PROVE Bindings'
  OBVIOUS
<1>0. jitted \in BOOLEAN /\ (pc = "prog-fuse" => ~jitted) /\ (pc = "jit" => jitted)
  BY DEF IInv, TypeOK, Bindings
<1>1. ASSUME UNCHANGED <<g, chain>> PROVE Live' = Live
  BY <1>1 DEF Live, Commands, Onward
<1>2. CASE UNCHANGED vars
  BY <1>0, <1>1, <1>2, QuietBindings DEF vars
<1>3. CASE StartProgFuse \/ Return \/ StartJit
  BY <1>0, <1>1, <1>3, QuietBindings DEF StartProgFuse, Return, StartJit
<1>4. CASE Contract
  BY <1>0, <1>4, ContractLive, QuietBindings DEF Contract
<1>5. ASSUME NEW u \in Inner, Pass(u) \/ Abort(u) \/ SkipJit(u) PROVE Bindings'
  BY <1>0, <1>1, <1>5, QuietBindings DEF Pass, Abort, SkipJit
<1>6. ASSUME NEW u \in Inner, RemoveControl(u) PROVE Bindings'
  <2>1. /\ pc = "idle" /\ u \in g.members /\ g.type[u] = "EMPTY" /\ g' = Remove(g, u)
        /\ UNCHANGED <<prog, recorded, pc, jitted, chain>>
    BY <1>6 DEF RemoveControl
  <2>2. Dag(g)
    BY DEF IInv, GraphSound
  <2>3. g'.members = g.members \ {u} /\ g'.type = g.type
    BY <2>1, <2>2, RemoveKeepsType DEF Dag
  <2>4. Live' = Live
    BY <2>1, <2>3 DEF Live, Commands, Onward
  <2>5. QED
    BY <1>0, <2>1, <2>4, QuietBindings
<1>7. ASSUME NEW u \in Inner, Fuse(u) PROVE Bindings'
  BY <1>7, FuseBindings
<1>8. ASSUME NEW u \in Inner, Compile(u) PROVE Bindings'
  BY <1>8, CompileBindings
<1>9. QED
  BY <1>2, <1>3, <1>4, <1>5, <1>6, <1>7, <1>8 DEF Next

GivenAs(p, r, s) == Given(p, r, Size(s)) = [b \in 0 .. Size(s) - 1 |-> <<Value[s.addr], b>>]

(* What BindingsKept says of a call. *)
AsRecorded(p, call, was) ==
  /\ <<p.mode, p.grid, p.target>> = <<was.mode, was.grid, was.target>>
  /\ was.externs \subseteq p.externs
  /\ DOMAIN call.reads = DOMAIN was.slots
  /\ Lost(p, was) \/ \A j \in DOMAIN was.slots : GivenAs(p, call.reads[j], was.slots[j])

(* The bytes a parameter is given are those of the value that was recorded. *)
LEMMA GivenValue ==
  ASSUME NEW p, NEW call, NEW was, Holds(p, call, was), NEW j \in DOMAIN was.slots,
         NEW size, size = Size(was.slots[j])
  PROVE  GivenAs(p, call.reads[j], was.slots[j])
<1> SUFFICES Given(p, call.reads[j], size) = [b \in 0 .. size - 1 |-> <<Value[was.slots[j].addr], b>>]
  BY DEF GivenAs
<1>1. PICK r, w : r = call.reads[j] /\ w = was.slots[j]
  OBVIOUS
<1>2. \/ p.bytes = <<>> /\ r \in DOMAIN p.slots /\ Value[p.slots[r].addr] = Value[w.addr]
      \/ p.bytes # <<>> /\ r # Nowhere /\ Stored(p.bytes, r, w)
  BY <1>1 DEF Holds
<1>3. CASE p.bytes = <<>> /\ r \in DOMAIN p.slots /\ Value[p.slots[r].addr] = Value[w.addr]
  <2>1. Given(p, r, size) = [b \in 0 .. size - 1 |-> <<Value[w.addr], b>>]
    BY <1>3 DEF Given
  <2>2. QED
    BY <1>1, <2>1
<1>4. CASE p.bytes # <<>> /\ r # Nowhere /\ Stored(p.bytes, r, w)
  <2>1. \A b \in 0 .. size - 1 : r + b \in DOMAIN p.bytes /\ p.bytes[r + b] = <<Value[w.addr], b>>
    BY <1>1, <1>4 DEF Stored
  <2>2. Given(p, r, size) = [b \in 0 .. size - 1 |-> <<Value[w.addr], b>>]
    BY <1>4, <2>1 DEF Given
  <2>3. QED
    BY <1>1, <2>2
<1>5. QED
  BY <1>2, <1>3, <1>4

(* command_graph_prog_fuse_llvmir and command_graph_jit_llvmir: however the  *)
(* arguments are deduplicated, packed, sliced and fused again, each kernel   *)
(* is launched as recorded, its symbols are bound, and its parameters are    *)
(* given the bytes of their values, unless its signature misleads.           *)
THEOREM BindingsStayKept == Spec => []BindingsKept
<1>1. Init => Bindings
  BY InitBindings
<1>2. IInv /\ Bindings /\ [Next]_vars => Bindings'
  BY SMTT(30), NextBindings
<1>3. IInv /\ Bindings => BindingsKept
  <2>0. ASSUME IInv, Bindings, AtRest, NEW u \in Commands(g), recorded.prog[u].source = "LLVMIR",
               NEW c \in DOMAIN prog[u].calls
        PROVE  AsRecorded(prog[u], prog[u].calls[c], recorded.prog[prog[u].calls[c].kernel])
    <3>1. PICK R, p, s, call, was : /\ R = recorded.prog /\ p = prog[u] /\ s = p.calls
                                    /\ call = s[c] /\ was = R[call.kernel]
      OBVIOUS
    <3>2. u \in Live
      BY <2>0 DEF AtRest, Live, Onward
    <3>3. IsBound(R, p)
      BY <2>0, <3>1, <3>2 DEF Bindings, ProgramBound
    <3>4. AreCalls(s)
      BY <3>1, <3>3 DEF IsBound
    <3>5. c \in 1 .. Len(s)
      BY <2>0, <3>1, <3>4, CallsAreSequence
    <3>6. Launches(R, p, call) /\ (Holds(p, call, was) \/ Lost(p, was))
      BY <3>1, <3>3, <3>5 DEF IsBound
    <3>7. Holds(p, call, was) => \A j \in DOMAIN was.slots : GivenAs(p, call.reads[j], was.slots[j])
      BY SMTT(30), GivenValue
    <3>8. AsRecorded(p, call, was)
      BY <3>1, <3>6, <3>7 DEF AsRecorded, Launches, Launched
    <3>9. QED
      BY <3>1, <3>8
  <2>1. QED
    BY <2>0 DEF BindingsKept, AsRecorded, GivenAs, Lost
<1>4. QED
  BY <1>1, <1>2, <1>3, ProgFuseInvariant, PTL DEF Spec
-----------------------------------------------------------------------------
(***************************************************************************)
(* Why a call may abort.  A program is taken for packed, or not, like the  *)
(* kernels it calls; its bracket is one of theirs; and slots that clash    *)
(* are slots that were recorded.                                           *)
(***************************************************************************)
CalledBy(p) == {p.calls[i].kernel : i \in DOMAIN p.calls}

(* The program p was fused, of more than one kernel. *)
OfMany(p) ==
  /\ OfFusion(p) /\ Len(p.calls) > 1
  /\ p.target = "device" => p.bracket # "none"

Kin(R, p) ==
  /\ CalledBy(p) # {}
  /\ \A w \in CalledBy(p) : Entry(p) = "buffer" <=> Entry(R[w]) = "buffer"
  /\ p.target = "device" => \E w \in CalledBy(p) : R[w].bracket = p.bracket
  /\ OfClient(R, p) \/ OfMany(p)

LEMMA CalledByCalls ==
  ASSUME NEW p, AreCalls(p.calls)
  PROVE  CalledBy(p) = {p.calls[k].kernel : k \in 1 .. Len(p.calls)}
<1>1. PICK s : s = p.calls
  OBVIOUS
<1>2. DOMAIN s = 1 .. Len(s)
  BY <1>1, CallsAreSequence
<1>3. QED
  BY <1>1, <1>2 DEF CalledBy

(* The client's program calls its own kernel alone. *)
LEMMA ClientCalls ==
  ASSUME NEW R, NEW p, OfClient(R, p)
  PROVE  Len(p.calls) = 1 /\ \E u \in DOMAIN R : p = R[u] /\ CalledBy(p) = {u}
<1>1. PICK u \in DOMAIN R : p = R[u] /\ p.calls = <<[kernel |-> u, reads |-> [j \in DOMAIN p.slots |-> j]]>>
  BY DEF OfClient
<1>2. PICK x, s : x = [kernel |-> u, reads |-> [j \in DOMAIN p.slots |-> j]] /\ s = p.calls
  OBVIOUS
<1>3. s = <<x>> /\ x.kernel = u
  BY <1>1, <1>2
<1>4. Len(s) = 1 /\ DOMAIN s = 1 .. 1 /\ s[1] = x
  BY <1>3, OneCallIs
<1>5. CalledBy(p) = {u}
  BY <1>2, <1>3, <1>4 DEF CalledBy
<1>6. QED
  BY <1>1, <1>2, <1>4, <1>5

LEMMA ClientIsKin ==
  ASSUME NEW R, NEW p, OfClient(R, p)
  PROVE  Kin(R, p)
<1>1. PICK u \in DOMAIN R : p = R[u] /\ CalledBy(p) = {u}
  BY ClientCalls
<1>2. QED
  BY <1>1 DEF Kin

(* A fusion calls what its inputs call, which is more than one kernel. *)
LEMMA FusedCalls ==
  ASSUME NEW ps, NEW n \in Nat, n > 1, DOMAIN ps = 1 .. n, \A i \in 1 .. n : AreCalls(ps[i].calls),
         \A i \in 1 .. n : CalledBy(ps[i]) # {}, NEW at, NEW p, p.calls = Calls(ps, at)
  PROVE  /\ Len(p.calls) > 1
         /\ CalledBy(p) = UNION {CalledBy(ps[i]) : i \in 1 .. n}
<1>1. PICK s, ss : s = p.calls /\ ss = [i \in 1 .. n |-> ps[i].calls]
  OBVIOUS
<1>2. s = Calls(ps, at) /\ \A i \in 1 .. n : ss[i] = ps[i].calls
  BY <1>1
<1>3. AreCalls(s) /\ Merged(s, ss, n)
  BY <1>1, <1>2, CallsOf
<1>4. PICK pos \in [1 .. Len(s) -> Items(ss, n)] :
        /\ \A q \in 1 .. Len(s) : s[q].kernel = ss[pos[q][1]][pos[q][2]].kernel
        /\ \A x \in Items(ss, n) : \E q \in 1 .. Len(s) : pos[q] = x
  BY <1>3 DEF Merged
<1>5. Len(s) \in Nat /\ CalledBy(p) = {s[q].kernel : q \in 1 .. Len(s)}
  <2>1. AreCalls(p.calls) /\ Len(s) \in Nat
    BY <1>1, <1>3, CallsAreSequence
  <2>2. CalledBy(p) = {p.calls[q].kernel : q \in 1 .. Len(p.calls)}
    BY <2>1, CalledByCalls
  <2>3. QED
    BY <1>1, <2>1, <2>2
<1>6. ASSUME NEW i \in 1 .. n
      PROVE  Len(ss[i]) \in Nat /\ CalledBy(ps[i]) = {ss[i][j].kernel : j \in 1 .. Len(ss[i])}
  <2>1. AreCalls(ps[i].calls)
    OBVIOUS
  <2>2. CalledBy(ps[i]) = {ps[i].calls[k].kernel : k \in 1 .. Len(ps[i].calls)}
    BY <2>1, CalledByCalls
  <2>3. Len(ps[i].calls) \in Nat
    <3>1. PICK t : t = ps[i].calls
      OBVIOUS
    <3>2. Len(t) \in Nat
      BY <2>1, <3>1, CallsAreSequence
    <3>3. QED
      BY <3>1, <3>2
  <2>4. QED
    BY <1>2, <2>2, <2>3
<1>7. \A i \in 1 .. n : \A j \in 1 .. Len(ss[i]) : <<i, j>> \in Items(ss, n)
  BY DEF Items
<1>8. \A x \in Items(ss, n) : x[1] \in 1 .. n /\ x[2] \in 1 .. Len(ss[x[1]])
  BY DEF Items
<1>9. \A i \in 1 .. n : 1 \in 1 .. Len(ss[i])
  <2> SUFFICES ASSUME NEW i \in 1 .. n PROVE 1 \in 1 .. Len(ss[i])
    OBVIOUS
  <2>1. PICK k : k \in 1 .. Len(ss[i])
    BY <1>6
  <2>2. QED
    BY <1>6, <2>1
<1>10. Len(s) > 1
  <2>1. 1 \in 1 .. n /\ 2 \in 1 .. n
    OBVIOUS
  <2>2. PICK q \in 1 .. Len(s) : pos[q] = <<1, 1>>
    BY <1>4, <1>7, <1>9, <2>1
  <2>3. PICK r \in 1 .. Len(s) : pos[r] = <<2, 1>>
    BY <1>4, <1>7, <1>9, <2>1
  <2>4. q # r
    <3>1. <<1, 1>> # <<2, 1>>
      OBVIOUS
    <3>2. QED
      BY <2>2, <2>3, <3>1
  <2>5. QED
    BY <1>5, <2>4
<1>11. ASSUME NEW q \in 1 .. Len(s) PROVE \E i \in 1 .. n : s[q].kernel \in CalledBy(ps[i])
  <2>1. PICK i, j : i = pos[q][1] /\ j = pos[q][2]
    OBVIOUS
  <2>2. i \in 1 .. n /\ j \in 1 .. Len(ss[i]) /\ s[q].kernel = ss[i][j].kernel
    BY <1>4, <1>8, <2>1
  <2>3. QED
    BY <1>6, <2>2
<1>12. ASSUME NEW i \in 1 .. n, NEW w \in CalledBy(ps[i]) PROVE w \in CalledBy(p)
  <2>1. PICK j \in 1 .. Len(ss[i]) : w = ss[i][j].kernel
    BY <1>6
  <2>2. PICK q \in 1 .. Len(s) : pos[q] = <<i, j>>
    BY <1>4, <1>7, <2>1
  <2>3. s[q].kernel = ss[i][j].kernel
    BY <1>4, <2>2
  <2>4. QED
    BY <1>5, <2>1, <2>3
<1>13. QED
  BY <1>1, <1>5, <1>10, <1>11, <1>12

(* The bracket of a fused device kernel is that of one of its inputs. *)
LEMMA FusedBracket ==
  ASSUME NEW ps, DOMAIN ps[1] = Fields, ps[1].target = "device", ~Refused(ps), NEW own, NEW p, p = Fused(ps, own)
  PROVE  p.bracket # "none" /\ \E i \in DOMAIN ps : p.bracket = ps[i].bracket
<1>1. "bracket" \in Fields
  BY DEF Fields
<1>2. p.bracket = Collapsed(ps)
  BY <1>1 DEF Fused
<1>3. \E i \in Bracketed(ps) : p.bracket = ps[i].bracket
  <2>1. Bracketed(ps) # {}
    BY DEF Refused, Uncollapsible
  <2>2. QED
    BY <1>2, <2>1 DEF Collapsed
<1>4. QED
  BY <1>3 DEF Bracketed

(* The fusion of programs is packed if they are. *)
LEMMA FusedIsKin ==
  ASSUME NEW R, NEW ps, NEW n \in Nat, n > 1, DOMAIN ps = 1 .. n, DOMAIN ps[1] = Fields,
         \A i \in 1 .. n : IsInput(R, ps[i]) /\ Launched(ps[i]) = Launched(ps[1]) /\ Kin(R, ps[i]),
         ~Refused(ps), NEW own, NEW p, p = Fused(ps, own), OfFusion(p)
  PROVE  Kin(R, p)
<1>1. PICK first : first = ps[1]
  OBVIOUS
<1>2. 1 \in 1 .. n
  OBVIOUS
<1>3. Fusable(R, ps, first)
  <2>1. IsInput(R, first)
    BY <1>1, <1>2
  <2>2. QED
    BY <1>1, <1>2, <2>1, InputFacts
<1>4. /\ first.target \in {"host", "device"}
      /\ Packed(ps) => first.target = "host"
  BY <1>3 DEF Fusable
<1>5. /\ first.target = "device" => p.entry = "values"
      /\ first.target # "device" /\ Packed(ps) => p.entry = "buffer"
      /\ first.target # "device" /\ ~Packed(ps) => p.entry = "pointers"
  BY <1>1, FusedArgs
<1>6. p.target = first.target
  BY <1>1, FusedFields
<1>7. Entry(p) = p.entry
  <2>1. /\ p.entry # "values" => Entry(p) = p.entry
        /\ p.mode # "task" => Entry(p) = p.entry
    BY EntryCases
  <2>2. QED
    BY <2>1 DEF OfFusion
<1>8. Entry(p) = "buffer" <=> Packed(ps)
  BY <1>4, <1>5, <1>7
<1>9. \A i \in 1 .. n : Entry(ps[i]) = "buffer" <=> Packed(ps)
  BY DEF Refused, Mixed, Packed
<1>10. PICK at : p.calls = Calls(ps, at)
  BY FusedFields
<1>11. Len(p.calls) > 1 /\ CalledBy(p) = UNION {CalledBy(ps[i]) : i \in 1 .. n}
  <2>1. \A i \in 1 .. n : AreCalls(ps[i].calls) /\ CalledBy(ps[i]) # {}
    BY DEF IsInput, Kin
  <2>2. QED
    BY <1>10, <2>1, FusedCalls
<1>12. CalledBy(p) # {}
  BY <1>2, <1>11 DEF Kin
<1>13. ASSUME NEW w \in CalledBy(p) PROVE Entry(p) = "buffer" <=> Entry(R[w]) = "buffer"
  <2>1. PICK i \in 1 .. n : w \in CalledBy(ps[i])
    BY <1>11
  <2>2. Entry(ps[i]) = "buffer" <=> Entry(R[w]) = "buffer"
    BY <2>1 DEF Kin
  <2>3. QED
    BY <1>8, <1>9, <2>2
<1>14. CASE p.target # "device"
  BY <1>11, <1>12, <1>13, <1>14 DEF Kin, OfMany
<1>15. CASE p.target = "device"
  <2>1. p.bracket # "none" /\ \E i \in DOMAIN ps : p.bracket = ps[i].bracket
    <3>1. ps[1].target = "device"
      BY <1>1, <1>6, <1>15
    <3>2. QED
      BY <3>1, FusedBracket
  <2>2. PICK i \in 1 .. n : p.bracket = ps[i].bracket
    BY <2>1
  <2>3. ps[i].target = "device"
    <3>1. Launched(ps[i]) = Launched(first)
      BY <1>1
    <3>2. QED
      BY <1>6, <1>15, <3>1 DEF Launched
  <2>4. PICK w \in CalledBy(ps[i]) : R[w].bracket = p.bracket
    BY <2>2, <2>3 DEF Kin
  <2>5. w \in CalledBy(p)
    BY <1>11, <2>4
  <2>6. QED
    BY <1>11, <1>12, <1>13, <2>1, <2>4, <2>5 DEF Kin, OfMany
<1>16. QED
  BY <1>14, <1>15

(* The key of a slot, which does not depend on the place of its program. *)
OwnKey(p, j) ==
  LET s == p.slots[j]
  IN  CASE p.table -> <<s.kind, Size(s), Value[s.addr]>>
        [] ~p.table /\ ByValue(p) -> <<"value", s.type, Value[s.addr]>>
        [] OTHER -> <<"address", s.addr>>

LEMMA KeyAlone ==
  ASSUME NEW ps, NEW i, Entry(ps[i]) = "values", NEW j
  PROVE  Key(ps, i, j) = OwnKey(ps[i], j)
BY DEF Key, OwnKey

LEMMA OwnKeyCases ==
  ASSUME NEW p, NEW j, NEW s, s = p.slots[j]
  PROVE  /\ p.table => OwnKey(p, j) = <<s.kind, Size(s), Value[s.addr]>>
         /\ ~p.table /\ ByValue(p) => OwnKey(p, j) = <<"value", s.type, Value[s.addr]>>
         /\ ~p.table /\ ~ByValue(p) => OwnKey(p, j) = <<"address", s.addr>>
<1>1. PICK table, byValue : table = (p.table = TRUE) /\ byValue = (ByValue(p) = TRUE)
  OBVIOUS
<1>2. QED
  BY DEF OwnKey

(* A slot with storage of its own is the same only with one of its type. *)
LEMMA TypedKey ==
  ASSUME NEW p, NEW j, NEW q, NEW l, ~p.table, ByValue(p), q.slots[l].kind \in {"ref", "copy"},
         OwnKey(p, j) = OwnKey(q, l)
  PROVE  p.slots[j].type = q.slots[l].type
<1>1. PICK s, t, x : s = p.slots[j] /\ t = q.slots[l] /\ x = OwnKey(p, j)
  OBVIOUS
<1>2. x = <<"value", s.type, Value[s.addr]>>
  BY <1>1, OwnKeyCases
<1>3. /\ q.table => x = <<t.kind, Size(t), Value[t.addr]>>
      /\ ~q.table /\ ByValue(q) => x = <<"value", t.type, Value[t.addr]>>
      /\ ~q.table /\ ~ByValue(q) => x = <<"address", t.addr>>
  BY <1>1, OwnKeyCases
<1>4. \A a, b, c, d, f : <<a, b, c>> # <<d, f>>
  OBVIOUS
<1>5. ~q.table /\ ByValue(q)
  BY <1>1, <1>2, <1>3, <1>4
<1>6. QED
  BY <1>1, <1>2, <1>3, <1>5

(* Slots that clash are of programs that were recorded. *)
LEMMA ClashIsRecorded ==
  ASSUME NEW R, NEW ps, NEW n, DOMAIN ps = 1 .. n, \A i \in 1 .. n : IsInput(R, ps[i]), TypesClash(ps)
  PROVE  \E i, k \in 1 .. n : OfClient(R, ps[i]) /\ OfClient(R, ps[k]) /\ TypesClash(<<ps[i], ps[k]>>)
<1>0. PICK i \in 1 .. n, k \in 1 .. n :
        /\ Entry(ps[i]) = "values" /\ Entry(ps[k]) = "values"
        /\ \E j \in DOMAIN ps[i].slots, l \in DOMAIN ps[k].slots :
             Key(ps, i, j) = Key(ps, k, l) /\ ps[i].slots[j].type # ps[k].slots[l].type
  BY DEF TypesClash
<1>1. PICK j \in DOMAIN ps[i].slots, l \in DOMAIN ps[k].slots :
        /\ Entry(ps[i]) = "values" /\ Entry(ps[k]) = "values"
        /\ Key(ps, i, j) = Key(ps, k, l) /\ ps[i].slots[j].type # ps[k].slots[l].type
  BY <1>0
<1>2. PICK p, q : p = ps[i] /\ q = ps[k]
  OBVIOUS
<1>3. IsInput(R, p) /\ IsInput(R, q)
  BY <1>2
<1>4. p.slots[j].kind \in {"ref", "copy"} /\ q.slots[l].kind \in {"ref", "copy"}
  BY <1>1, <1>2, <1>3 DEF IsInput, AreSlots
<1>5. Entry(p) = "values" /\ Entry(q) = "values" /\ OwnKey(p, j) = OwnKey(q, l)
  <2>1. Key(ps, i, j) = OwnKey(ps[i], j) /\ Key(ps, k, l) = OwnKey(ps[k], l)
    BY <1>1, KeyAlone
  <2>2. QED
    BY <1>1, <1>2, <2>1
<1>6. ASSUME NEW r, OfFusion(r), Entry(r) = "values"
      PROVE  ~r.table /\ ByValue(r)
  <2>1. r.entry # "values" => Entry(r) = r.entry
    BY EntryCases
  <2>2. QED
    BY <1>6, <2>1 DEF OfFusion, ByValue
<1>7. OfClient(R, p)
  <2>1. CASE OfFusion(p)
    <3>1. ~p.table /\ ByValue(p)
      BY <1>1, <1>2, <1>6, <2>1
    <3>2. p.slots[j].type = q.slots[l].type
      BY <1>4, <1>5, <3>1, TypedKey
    <3>3. QED
      BY <1>1, <1>2, <3>2
  <2>2. QED
    BY <1>3, <2>1 DEF IsInput
<1>8. OfClient(R, q)
  <2>1. CASE OfFusion(q)
    <3>1. ~q.table /\ ByValue(q)
      BY <1>1, <1>2, <1>6, <2>1
    <3>2. OwnKey(q, l) = OwnKey(p, j)
      BY <1>5
    <3>3. q.slots[l].type = p.slots[j].type
      BY <1>4, <3>1, <3>2, TypedKey
    <3>4. QED
      BY <1>1, <1>2, <3>3
  <2>2. QED
    BY <1>3, <2>1 DEF IsInput
<1>9. PICK qs : qs = <<p, q>>
  OBVIOUS
<1>10. DOMAIN qs = {1, 2} /\ qs[1] = p /\ qs[2] = q
  BY <1>9
<1>11. Key(qs, 1, j) = OwnKey(p, j) /\ Key(qs, 2, l) = OwnKey(q, l)
  <2>1. Key(qs, 1, j) = OwnKey(qs[1], j) /\ Key(qs, 2, l) = OwnKey(qs[2], l)
    BY <1>5, <1>10, KeyAlone
  <2>2. QED
    BY <1>10, <2>1
<1>12. TypesClash(qs)
  BY <1>1, <1>2, <1>5, <1>10, <1>11 DEF TypesClash
<1>13. QED
  BY <1>2, <1>7, <1>8, <1>9, <1>12
-----------------------------------------------------------------------------
(* The walk lists a chain from its head on: what is still to be visited is *)
(* followed in sequence by what is, and the head of a chain is contracted  *)
(* into after it was visited.                                              *)
Scheduled ==
  pc = "prog-fuse" =>
    /\ \A v \in Programmed \cap visit, w \in Inner : AreSequence(g, v, w) => w \in visit
    /\ chain # <<>> => chain[1] \notin visit

LEMMA OnlyPred ==
  ASSUME Dag(g), NEW v \in g.members, NEW w, AreSequence(g, v, w), Reached(w)
  PROVE  v \notin visit
<1>1. g.predecessors[w] = Just(v)
  BY DEF AreSequence
<1>2. \A p : p \in Preds(g, w) => p = v
  BY <1>1 DEF Preds, Just
<1>3. QED
  BY <1>2 DEF Reached

(* A visit to u leaves the nodes before it behind. *)
LEMMA VisitScheduled ==
  ASSUME IInv, Scheduled, NEW u \in Inner, pc = "prog-fuse", Reached(u), visit' = visit \ {u}, g' = g,
         chain' = <<>> \/ (chain' # <<>> /\ chain'[1] = u)
  PROVE  Scheduled'
<1>1. Dag(g) /\ Programmed' = Programmed
  BY DEF IInv, GraphSound, Programmed
<1>2. ASSUME NEW v \in Programmed, v \in visit, v # u, NEW w \in Inner, AreSequence(g, v, w)
      PROVE  w \in visit /\ w # u
  <2>1. w \in visit
    BY <1>2 DEF Scheduled
  <2>2. v \in g.members
    BY <1>2 DEF Programmed
  <2>3. w # u
    BY <1>1, <1>2, <2>2, OnlyPred
  <2>4. QED
    BY <2>1, <2>3
<1>3. QED
  BY <1>1, <1>2 DEF Scheduled

LEMMA ContractScheduled ==
  ASSUME IInv, Scheduled, Contract
  PROVE  Scheduled'
<1>1. PICK u, v : u = chain[1] /\ v = chain[2]
  OBVIOUS
<1>2. /\ Len(chain) > 1 /\ g' = ContractUV(g, u, v) /\ chain' = Rest(chain)
      /\ UNCHANGED <<pc, visit>>
  BY <1>1 DEF Contract, Rest
<1>3. /\ u \in Programmed /\ v \in Programmed /\ u # v /\ AreSequence(g, u, v)
      /\ g'.members = g.members \ {v}
  BY <1>1, <1>2, ContractFacts
<1>4. Dag(g) /\ pc = "prog-fuse" /\ chain # <<>>
  BY <1>2 DEF IInv, GraphSound, ChainSound
<1>5. \A x \in g.members \ {u, v}, w \in Node : AreSequence(g', x, w) => AreSequence(g, x, w)
  <2>1. u \in g.members /\ v \in g.members
    BY <1>3 DEF Programmed
  <2>2. QED
    BY <1>2, <1>3, <1>4, <2>1, ContractFollows
<1>6. u \notin visit
  BY <1>1, <1>4 DEF Scheduled
<1>7. ASSUME NEW x \in Programmed', x \in visit, NEW w \in Inner, AreSequence(g', x, w)
      PROVE  w \in visit
  <2>1. x \in Programmed /\ x \in g.members \ {u, v} /\ w \in Node
    BY <1>3, <1>6, <1>7 DEF Programmed, Inner
  <2>2. QED
    BY <1>4, <1>5, <1>7, <2>1 DEF Scheduled
<1>8. chain' # <<>> => chain'[1] = u
  <2>1. PICK S, c, d : S = Programmed /\ c = chain /\ d = Rest(c)
    OBVIOUS
  <2>2. c \in Seq(S) /\ Len(c) > 1
    BY <1>2, <2>1 DEF IInv, ChainSound
  <2>3. d # <<>> => d[1] = c[1]
    BY <2>1, <2>2, RestOf
  <2>4. QED
    BY <1>1, <1>2, <2>1, <2>3
<1>9. QED
  BY <1>2, <1>6, <1>7, <1>8 DEF Scheduled

LEMMA NextScheduled == IInv /\ Scheduled /\ [Next]_vars => Scheduled'
<1> SUFFICES ASSUME IInv, Scheduled, [Next]_vars PROVE Scheduled'
  OBVIOUS
<1>1. CASE UNCHANGED vars
  BY <1>1 DEF vars, Scheduled, Programmed
<1>2. CASE StartProgFuse
  <2>1. visit' = Programmed /\ g' = g /\ chain' = chain
    BY <1>2, ListedNodes DEF StartProgFuse
  <2>2. chain = <<>>
    BY <1>2 DEF StartProgFuse, IInv, ChainSound
  <2>3. Programmed' = Programmed /\ Dag(g)
    BY <2>1 DEF Programmed, IInv, GraphSound
  <2>4. ASSUME NEW v \in Programmed, NEW w \in Inner, AreSequence(g, v, w) PROVE w \in Programmed
    <3>1. v \in g.members /\ w \in Succs(g, v)
      <4>1. Just(w)[w] = 1 /\ w \in Node
        BY DEF Just, Inner
      <4>2. QED
        BY <2>4, <4>1 DEF AreSequence, Succs, Programmed
    <3>2. QED
      BY <2>3, <3>1, SuccsAreMembers DEF Dag, Programmed
  <2>5. QED
    BY <2>1, <2>2, <2>3, <2>4 DEF Scheduled
<1>3. CASE Contract
  BY <1>3, ContractScheduled
<1>4. ASSUME pc' # "prog-fuse" PROVE Scheduled'
  BY <1>4 DEF Scheduled
<1>5. CASE Return \/ StartJit
  BY <1>4, <1>5 DEF Return, StartJit
<1>6. ASSUME NEW u \in Inner, Abort(u) \/ RemoveControl(u) \/ SkipJit(u) \/ Compile(u) PROVE Scheduled'
  BY <1>4, <1>6 DEF Abort, RemoveControl, SkipJit, Compile
<1>7. ASSUME NEW u \in Inner, Pass(u) PROVE Scheduled'
  BY <1>7, VisitScheduled DEF Pass
<1>8. ASSUME NEW u \in Inner, Fuse(u) PROVE Scheduled'
  <2>1. PICK c : c = Chain(u)
    OBVIOUS
  <2>2. /\ pc = "prog-fuse" /\ visit' = visit \ {u} /\ g' = g
        /\ chain' = c /\ c[1] = u
    BY <1>8, <2>1, FuseFacts
  <2>3. Reached(u)
    BY <1>8 DEF Fuse
  <2>4. QED
    BY <2>2, <2>3, VisitScheduled
<1>9. QED
  BY <1>1, <1>2, <1>3, <1>5, <1>6, <1>7, <1>8 DEF Next

(* The whole chain is still to be visited when its head is. *)
LEMMA ChainWaits ==
  ASSUME IInv, Scheduled, NEW u \in Inner, pc = "prog-fuse", Reached(u), IsHead(u), NEW c, c = Chain(u),
         NEW k \in 1 .. Len(c)
  PROVE  c[k] \in visit
<1>1. u \in Programmed /\ IsChain(u, u, c) /\ Run(g, c) /\ u \in visit
  BY HeadChain DEF Reached
<1>2. c \in Seq(Programmed) /\ Len(c) \in Nat /\ c[1] = u
  BY <1>1 DEF IsChain
<1>3. \A l \in 1 .. Len(c) - 1 : AreSequence(g, c[l], c[l + 1])
  BY <1>1 DEF Run
<1>4. \A l \in 1 .. Len(c) : c[l] \in Programmed
  BY <1>2
<1> DEFINE S == {l \in 1 .. Len(c) : c[l] \notin visit}
<1>5. SUFFICES ASSUME S # {} PROVE FALSE
  OBVIOUS
<1>6. PICK m \in S : \A l \in S : m <= l
  <2>1. S \subseteq Nat
    BY <1>2
  <2> HIDE DEF S
  <2>2. QED
    BY <1>5, <2>1, LeastNatural
<1>7. m \in 1 .. Len(c) /\ m # 1
  BY <1>1, <1>2
<1>8. PICK l : l = m - 1
  OBVIOUS
<1>9. l \in 1 .. Len(c) - 1 /\ l \in 1 .. Len(c) /\ l < m /\ l + 1 = m
  BY <1>2, <1>7, <1>8
<1>10. c[l] \in visit
  <2>1. l \notin S
    BY <1>6, <1>9
  <2>2. QED
    BY <1>9, <2>1
<1>11. AreSequence(g, c[l], c[m])
  BY <1>3, <1>9
<1>12. c[m] \in visit
  BY <1>4, <1>7, <1>9, <1>10, <1>11 DEF Scheduled, Programmed
<1>13. QED
  BY <1>12
-----------------------------------------------------------------------------
(* Until a pass has visited a program it is the client's, unless it was made *)
(* by an earlier call.                                                       *)
Untouched(u) == passes = 0 \/ (passes = 1 /\ pc = "prog-fuse" /\ u \in visit)

Heritage ==
  /\ pc = "prog-fuse" => passes # 0
  /\ ~jitted => \A u \in Live : recorded.prog[u].source = "LLVMIR" =>
       Kin(recorded.prog, prog[u]) /\ (Untouched(u) => OfClient(recorded.prog, prog[u]))

(* Why the programs ps, which call the kernels K, are refused. *)
Reason(R, ps, K) ==
  \/ \E u, v \in K : Entry(R[u]) = "buffer" /\ Entry(R[v]) # "buffer"
  \/ \E u \in K : Entry(R[u]) = "buffer" /\ ~R[u].table
  \/ \E u, v \in K : TypesClash(<<R[u], R[v]>>)
  \/ /\ \E u \in K : R[u].target = "device"
     /\ \/ \A u, v \in K : R[u].bracket # "none" /\ R[v].bracket # "none" => u = v
        \/ \E u, v \in K : /\ R[u].bracket # "none" /\ R[v].bracket # "none"
                           /\ R[u].bracket # R[v].bracket \/ R[u].bracket = "generic"
  \/ \E k \in DOMAIN ps : /\ Len(ps[k].calls) > 1
                          /\ \/ ps[k].entry = "buffer"
                             \/ /\ ps[k].target = "device"
                                /\ \A j \in DOMAIN ps : j # k => ps[j].bracket = "none"

(* Brackets that do not collapse are those of kernels, or there is one of a *)
(* fused program.                                                           *)
LEMMA UncollapsibleReason ==
  ASSUME NEW R, NEW ps, NEW n \in Nat, n > 1, DOMAIN ps = 1 .. n, NEW K,
         K = UNION {CalledBy(ps[k]) : k \in 1 .. n}, Uncollapsible(ps),
         \A k \in 1 .. n : /\ IsInput(R, ps[k]) /\ Launched(ps[k]) = Launched(ps[1]) /\ Kin(R, ps[k])
  PROVE  Reason(R, ps, K)
<1>1. 1 \in 1 .. n /\ ps[1].target = "device"
  BY DEF Uncollapsible
<1>2. ASSUME NEW k \in 1 .. n PROVE ps[k].target = "device"
  <2>1. Launched(ps[k]) = Launched(ps[1])
    OBVIOUS
  <2>2. QED
    BY <1>1, <2>1 DEF Launched
<1>3. \A k \in 1 .. n : \E w \in K : R[w].bracket = ps[k].bracket
  BY <1>2 DEF Kin
<1>4. \E u \in K : R[u].target = "device"
  <2>1. PICK w \in CalledBy(ps[1]) : w \in K
    BY <1>1 DEF Kin
  <2>2. AreCalls(ps[1].calls) /\ \A c \in 1 .. Len(ps[1].calls) : Launches(R, ps[1], ps[1].calls[c])
    BY <1>1 DEF IsInput, Binds
  <2>3. PICK c \in 1 .. Len(ps[1].calls) : w = ps[1].calls[c].kernel
    <3>1. CalledBy(ps[1]) = {ps[1].calls[k].kernel : k \in 1 .. Len(ps[1].calls)}
      BY <2>2, CalledByCalls
    <3>2. QED
      BY <2>1, <3>1
  <2>4. Launched(ps[1]) = Launched(R[w])
    BY <2>2, <2>3 DEF Launches
  <2>5. R[w].target = "device"
    BY <1>1, <2>4 DEF Launched
  <2>6. QED
    BY <2>1, <2>5
<1>5. CASE \E i, k \in 1 .. n : /\ ps[i].bracket # "none" /\ ps[k].bracket # "none"
                                /\ ps[i].bracket # ps[k].bracket \/ ps[i].bracket = "generic"
  <2>1. PICK i \in 1 .. n, k \in 1 .. n : /\ ps[i].bracket # "none" /\ ps[k].bracket # "none"
                                          /\ ps[i].bracket # ps[k].bracket \/ ps[i].bracket = "generic"
    BY <1>5
  <2>2. PICK u \in K : R[u].bracket = ps[i].bracket
    BY <1>3
  <2>3. PICK v \in K : R[v].bracket = ps[k].bracket
    BY <1>3
  <2>4. /\ R[u].bracket # "none" /\ R[v].bracket # "none"
        /\ R[u].bracket # R[v].bracket \/ R[u].bracket = "generic"
    BY <2>1, <2>2, <2>3
  <2>5. QED
    BY <1>4, <2>4 DEF Reason
<1>6. CASE \A i, k \in 1 .. n : ps[i].bracket # "none" /\ ps[k].bracket # "none" => i = k
  <2>1. CASE \E k \in 1 .. n : ~OfClient(R, ps[k])
    <3>1. PICK k \in 1 .. n : ~OfClient(R, ps[k])
      BY <2>1
    <3>2. Len(ps[k].calls) > 1 /\ ps[k].bracket # "none"
      BY <1>2, <3>1 DEF Kin, OfMany
    <3>3. \A j \in 1 .. n : j # k => ps[j].bracket = "none"
      BY <1>6, <3>2
    <3>4. QED
      BY <1>2, <3>2, <3>3 DEF Reason
  <2>2. CASE \A k \in 1 .. n : OfClient(R, ps[k])
    <3>1. ASSUME NEW k \in 1 .. n
          PROVE  \E u \in DOMAIN R : ps[k] = R[u] /\ CalledBy(ps[k]) = {u}
      BY <2>2, ClientCalls
    <3>2. \A u \in K : \E k \in 1 .. n : ps[k] = R[u] /\ CalledBy(ps[k]) = {u}
      BY <3>1
    <3>3. ASSUME NEW u \in K, NEW v \in K, R[u].bracket # "none", R[v].bracket # "none" PROVE u = v
      <4>1. PICK i \in 1 .. n : ps[i] = R[u] /\ CalledBy(ps[i]) = {u}
        BY <3>2
      <4>2. PICK k \in 1 .. n : ps[k] = R[v] /\ CalledBy(ps[k]) = {v}
        BY <3>2
      <4>3. i = k
        BY <1>6, <3>3, <4>1, <4>2
      <4>4. {u} = {v}
        BY <4>1, <4>2, <4>3
      <4>5. QED
        BY <4>4
    <3>4. QED
      BY <1>4, <3>3 DEF Reason
  <2>3. QED
    BY <2>1, <2>2
<1>7. QED
  BY <1>5, <1>6 DEF Uncollapsible, Bracketed

LEMMA RefusalHasReason ==
  ASSUME NEW R, NEW ps, NEW n \in Nat, n > 1, DOMAIN ps = 1 .. n, NEW K,
         K = UNION {CalledBy(ps[k]) : k \in 1 .. n}, Refused(ps),
         \A k \in 1 .. n : /\ IsInput(R, ps[k]) /\ Launched(ps[k]) = Launched(ps[1]) /\ Kin(R, ps[k])
  PROVE  Reason(R, ps, K)
<1>1. \A k \in 1 .. n : \E w \in K : Entry(ps[k]) = "buffer" <=> Entry(R[w]) = "buffer"
  BY DEF Kin
<1>2. ASSUME NEW k \in 1 .. n, OfClient(R, ps[k]) PROVE \E u \in K : ps[k] = R[u]
  <2>1. \E u \in DOMAIN R : ps[k] = R[u] /\ CalledBy(ps[k]) = {u}
    BY <1>2, ClientCalls
  <2>2. QED
    BY <2>1
<1>3. CASE Mixed(ps)
  <2>1. PICK i \in 1 .. n, k \in 1 .. n : Entry(ps[i]) = "buffer" /\ Entry(ps[k]) # "buffer"
    BY <1>3 DEF Mixed, Packed
  <2>2. PICK x \in K, y \in K : Entry(R[x]) = "buffer" /\ Entry(R[y]) # "buffer"
    BY <1>1, <2>1
  <2>3. QED
    BY <2>2 DEF Reason
<1>4. CASE Untabled(ps)
  <2>1. PICK i \in 1 .. n : Entry(ps[i]) = "buffer" /\ ~ps[i].table
    BY <1>4 DEF Untabled
  <2>2. CASE OfClient(R, ps[i])
    <3>1. PICK x \in K : ps[i] = R[x]
      BY <1>2, <2>2
    <3>2. QED
      BY <2>1, <3>1 DEF Reason
  <2>3. CASE ~OfClient(R, ps[i])
    <3>1. OfFusion(ps[i]) /\ Len(ps[i].calls) > 1
      BY <2>3 DEF Kin, OfMany
    <3>2. ps[i].entry = "buffer"
      <4>1. /\ ps[i].entry # "values" => Entry(ps[i]) = ps[i].entry
            /\ ps[i].mode # "task" => Entry(ps[i]) = ps[i].entry
        BY EntryCases
      <4>2. QED
        BY <2>1, <3>1, <4>1 DEF OfFusion
    <3>3. QED
      BY <3>1, <3>2 DEF Reason
  <2>4. QED
    BY <2>2, <2>3
<1>5. CASE OffDevice(ps)
  <2>1. PICK i \in 1 .. n : ps[i].target = "host" /\ ps[1].target = "device"
    BY <1>5 DEF OffDevice
  <2>2. Launched(ps[i]) = Launched(ps[1])
    OBVIOUS
  <2>3. QED
    BY <2>1, <2>2 DEF Launched
<1>6. CASE TypesClash(ps)
  <2>1. PICK i \in 1 .. n, k \in 1 .. n : /\ OfClient(R, ps[i]) /\ OfClient(R, ps[k])
                                          /\ TypesClash(<<ps[i], ps[k]>>)
    BY <1>6, ClashIsRecorded
  <2>2. PICK x \in K : ps[i] = R[x]
    BY <1>2, <2>1
  <2>3. PICK y \in K : ps[k] = R[y]
    BY <1>2, <2>1
  <2>4. TypesClash(<<R[x], R[y]>>)
    BY <2>1, <2>2, <2>3
  <2>5. QED
    BY <2>4 DEF Reason
<1>7. CASE Uncollapsible(ps)
  BY <1>7, UncollapsibleReason
<1>8. QED
  BY <1>3, <1>4, <1>5, <1>6, <1>7 DEF Refused

LEMMA ChainExplained ==
  ASSUME IInv, Bindings, Scheduled, Heritage, NEW u \in Inner, NextChain(u), NEW c, c = Chain(u)
  PROVE  /\ \A k \in DOMAIN c : c[k] \in visit
         /\ passes = 1 => \A k \in DOMAIN c : Len(prog[c[k]].calls) = 1
         /\ Refused(Programs(c)) => Unfusable(Called(c)) \/ NotAgain(c)
         /\ NotAgain(c) => Refused(Programs(c))
<1>1. pc = "prog-fuse" /\ chain = <<>> /\ Reached(u) /\ IsHead(u)
  BY DEF NextChain
<1>2. PICK n, ps, R : n = Len(c) /\ ps = Programs(c) /\ R = recorded.prog
  OBVIOUS
<1>3. ChainFacts(c, n, ps, R)
  BY <1>1, <1>2, ChainPrograms
<1>4. DOMAIN c = 1 .. n
  <2>1. IsChain(u, u, c)
    BY <1>1, <1>2, HeadChain
  <2>2. c \in Seq(Programmed)
    BY <2>1 DEF IsChain
  <2>3. QED
    BY <1>2, <2>2
<1>5. n \in Nat /\ n > 1 /\ DOMAIN ps = 1 .. n
  BY <1>3 DEF ChainFacts
<1>6. ASSUME NEW k \in 1 .. n
      PROVE  /\ c[k] \in visit /\ ps[k] = prog[c[k]] /\ IsInput(R, ps[k])
             /\ Launched(ps[k]) = Launched(ps[1]) /\ Kin(R, ps[k])
             /\ passes = 1 => Len(ps[k].calls) = 1
  <2>1. PICK x, p : x = c[k] /\ p = ps[k]
    OBVIOUS
  <2>2. p = prog[x] /\ x \in Live /\ R[x].source = "LLVMIR" /\ Launched(p) = Launched(ps[1]) /\ IsInput(R, p)
    BY <1>3, <2>1 DEF ChainFacts
  <2>3. x \in visit
    BY <1>1, <1>2, <2>1, ChainWaits
  <2>4. ~jitted
    BY <1>1 DEF Bindings
  <2>5. Kin(R, p) /\ (passes = 1 => OfClient(R, p))
    BY <1>1, <1>2, <2>2, <2>3, <2>4 DEF Heritage, Untouched
  <2>6. passes = 1 => Len(p.calls) = 1
    BY <2>5, ClientCalls
  <2>7. QED
    BY <2>1, <2>2, <2>3, <2>5, <2>6
<1>7. ASSUME passes = 1, NEW k \in 1 .. n PROVE Len(prog[c[k]].calls) = 1
  <2>1. PICK p, l : p = ps[k] /\ l = Len(p.calls)
    OBVIOUS
  <2>2. p = prog[c[k]] /\ l = 1
    BY <1>6, <1>7, <2>1
  <2>3. QED
    BY <2>1, <2>2
<1>8. PICK K : K = UNION {CalledBy(ps[k]) : k \in 1 .. n}
  OBVIOUS
<1>9. K = Called(c)
  <2>1. \A k \in 1 .. n : CalledBy(ps[k]) = CalledBy(prog[c[k]])
    BY <1>6
  <2>2. Called(c) = UNION {CalledBy(prog[c[k]]) : k \in DOMAIN c}
    BY DEF Called, CalledBy
  <2>3. QED
    BY <1>4, <1>8, <2>1, <2>2
<1>10. ASSUME Refused(ps) PROVE Unfusable(K) \/ NotAgain(c)
  <2>1. Reason(R, ps, K)
    BY <1>5, <1>6, <1>8, <1>10, RefusalHasReason
  <2>2. CASE \/ \E x, y \in K : Entry(R[x]) = "buffer" /\ Entry(R[y]) # "buffer"
             \/ \E x \in K : Entry(R[x]) = "buffer" /\ ~R[x].table
             \/ \E x, y \in K : TypesClash(<<R[x], R[y]>>)
    BY <1>2, <2>2 DEF Unfusable
  <2>3. CASE /\ \E x \in K : R[x].target = "device"
             /\ \/ \A x, y \in K : R[x].bracket # "none" /\ R[y].bracket # "none" => x = y
                \/ \E x, y \in K : /\ R[x].bracket # "none" /\ R[y].bracket # "none"
                                   /\ R[x].bracket # R[y].bracket \/ R[x].bracket = "generic"
    BY <1>2, <2>3 DEF Unfusable
  <2>4. CASE \E k \in 1 .. n : /\ Len(ps[k].calls) > 1
                               /\ \/ ps[k].entry = "buffer"
                                  \/ /\ ps[k].target = "device"
                                     /\ \A j \in 1 .. n : j # k => ps[j].bracket = "none"
    BY <1>4, <1>6, <2>4 DEF NotAgain
  <2>5. QED
    BY <1>5, <2>1, <2>2, <2>3, <2>4 DEF Reason
<1>11. ASSUME NotAgain(c) PROVE Refused(ps)
  <2>1. PICK k \in 1 .. n : /\ Len(prog[c[k]].calls) > 1
                            /\ \/ prog[c[k]].entry = "buffer"
                               \/ /\ prog[c[k]].target = "device"
                                  /\ \A j \in 1 .. n : j # k => prog[c[j]].bracket = "none"
    BY <1>4, <1>11 DEF NotAgain
  <2>2. PICK p : p = ps[k]
    OBVIOUS
  <2>3. p = prog[c[k]] /\ Kin(R, p) /\ Launched(p) = Launched(ps[1])
    BY <1>6, <2>2
  <2>4. CASE p.entry = "buffer"
    <3>1. ~OfClient(R, p)
      <4>1. PICK l : l = Len(p.calls)
        OBVIOUS
      <4>2. l > 1
        BY <2>1, <2>3, <4>1
      <4>3. l # 1
        BY <4>2
      <4>4. QED
        BY <4>1, <4>3, ClientCalls
    <3>2. ~p.table
      BY <2>3, <3>1 DEF Kin, OfMany, OfFusion
    <3>3. Entry(p) = "buffer"
      BY <2>4, EntryCases
    <3>4. QED
      BY <1>5, <2>2, <3>2, <3>3 DEF Refused, Untabled
  <2>5. CASE p.target = "device" /\ \A j \in 1 .. n : j # k => prog[c[j]].bracket = "none"
    <3>1. ps[1].target = "device"
      BY <2>3, <2>5 DEF Launched
    <3>2. \A j \in 1 .. n : j # k => ps[j].bracket = "none"
      BY <1>6, <2>5
    <3>3. \A i, j \in Bracketed(ps) : i = j
      BY <1>5, <3>2 DEF Bracketed
    <3>4. QED
      BY <3>1, <3>3 DEF Refused, Uncollapsible
  <2>6. QED
    BY <2>1, <2>3, <2>4, <2>5
<1>12. QED
  BY <1>2, <1>4, <1>6, <1>7, <1>9, <1>10, <1>11

LEMMA InitHeritage == Init => Heritage
<1> SUFFICES ASSUME Init PROVE Heritage
  OBVIOUS
<1>1. OfRecording(recorded.prog, Inner) /\ recorded.prog = prog
  BY InitBindings DEF Bindings, Init
<1>2. ASSUME NEW u \in Live, recorded.prog[u].source = "LLVMIR"
      PROVE  Kin(recorded.prog, prog[u]) /\ OfClient(recorded.prog, prog[u])
  <2>1. u \in Inner
    BY DEF Live, Commands
  <2>2. OfClient(recorded.prog, prog[u])
    BY <1>1, <1>2, <2>1 DEF OfRecording
  <2>3. QED
    BY <2>2, ClientIsKin
<1>3. QED
  BY <1>2 DEF Heritage, Init

LEMMA QuietHeritage ==
  ASSUME Heritage, UNCHANGED <<prog, recorded>>, Live' = Live, jitted \in BOOLEAN, jitted => jitted',
         pc' = "prog-fuse" => passes' # 0, \A u \in Live : Untouched(u)' => Untouched(u)
  PROVE  Heritage'
BY DEF Heritage

LEMMA FuseHeritage ==
  ASSUME IInv, Bindings, Heritage, NEW u \in Inner, Fuse(u)
  PROVE  Heritage'
<1>1. PICK c, n, ps, R : c = Chain(u) /\ n = Len(c) /\ ps = Programs(c) /\ R = recorded.prog
  OBVIOUS
<1>2. /\ pc = "prog-fuse" /\ chain = <<>> /\ n \in Nat /\ n > 1 /\ c[1] = u /\ chain' = c
      /\ visit' = visit \ {u} /\ UNCHANGED <<g, recorded, pc, jitted, passes>>
  BY <1>1, FuseFacts
<1>3. Reached(u) /\ IsHead(u)
  BY DEF Fuse
<1>4. ChainFacts(c, n, ps, R)
  BY <1>1, <1>2, <1>3, ChainPrograms
<1>5. ~Refused(ps) /\ \A x \in Inner : x \notin Links(c) => prog'[x] = prog[x]
  BY <1>1, FusePrograms
<1>6. PICK own : prog'[u] = Fused(ps, own)
  BY <1>1, FusePrograms
<1>7. ~jitted /\ passes # 0
  BY <1>2 DEF Bindings, Heritage
<1>8. PICK p, first : p = prog'[u] /\ first = ps[1]
  OBVIOUS
<1>9. 1 \in 1 .. n /\ 1 <= n
  BY <1>2
<1>10. IsInput(R, first) /\ DOMAIN first = Fields /\ DOMAIN ps = 1 .. n
  BY <1>4, <1>8, <1>9 DEF ChainFacts
<1>11. \A k \in 1 .. n : IsInput(R, ps[k]) /\ Launched(ps[k]) = Launched(ps[1]) /\ Kin(R, ps[k])
  BY <1>1, <1>4, <1>7 DEF ChainFacts, Heritage
<1>12. OfFusion(p)
  <2>1. /\ n \in Nat /\ ps \in Seq({ps[i] : i \in 1 .. n}) /\ Len(ps) = n
        /\ \A i \in 1 .. n : IsInput(R, ps[i]) /\ Launched(ps[i]) = Launched(ps[1])
    BY <1>4 DEF ChainFacts
  <2>2. DOMAIN ps[1] = Fields /\ p = Fused(ps, own) /\ Pointer \in Nat \ {0}
    BY <1>6, <1>8, <1>10, ProgramsAssumption
  <2>3. QED
    BY <1>5, <1>9, <2>1, <2>2, FusedIsInput
<1>13. Kin(R, p)
  <2>1. DOMAIN ps[1] = Fields /\ p = Fused(ps, own) /\ ~Refused(ps)
    BY <1>5, <1>6, <1>8, <1>10
  <2>2. QED
    BY <1>2, <1>10, <1>11, <1>12, <2>1, FusedIsKin
<1>14. ASSUME NEW x \in Live', recorded'.prog[x].source = "LLVMIR"
       PROVE  Kin(R, prog'[x]) /\ (Untouched(x)' => OfClient(R, prog'[x]))
  <2>1. x \in Live /\ x \in Inner /\ \A k \in 2 .. n : x # c[k]
    BY <1>1, <1>2, <1>14 DEF Live, Commands, Onward
  <2>2. CASE x = u
    BY <1>2, <1>7, <1>8, <1>13, <2>2 DEF Untouched
  <2>3. CASE x # u
    <3>1. \A k \in 1 .. n : k = 1 \/ k \in 2 .. n
      BY <1>2
    <3>2. x \notin Links(c)
      BY <1>1, <1>2, <2>1, <2>3, <3>1 DEF Links
    <3>3. prog'[x] = prog[x]
      BY <1>5, <2>1, <3>2
    <3>4. Kin(R, prog[x]) /\ (Untouched(x) => OfClient(R, prog[x]))
      BY <1>1, <1>2, <1>7, <1>14, <2>1 DEF Heritage
    <3>5. Untouched(x)' => Untouched(x)
      BY <1>2 DEF Untouched
    <3>6. QED
      BY <3>3, <3>4, <3>5
  <2>4. QED
    BY <2>2, <2>3
<1>15. QED
  BY <1>1, <1>2, <1>7, <1>14 DEF Heritage

LEMMA NextHeritage == IInv /\ Bindings /\ Heritage /\ [Next]_vars => Heritage'
<1> SUFFICES ASSUME IInv, Bindings, Heritage, [Next]_vars PROVE Heritage'
  OBVIOUS
<1>0. jitted \in BOOLEAN /\ passes \in Nat /\ (pc = "jit" => jitted)
  BY RecordingsAssumption DEF IInv, TypeOK, Bindings
<1>1. ASSUME UNCHANGED <<g, chain>> PROVE Live' = Live
  BY <1>1 DEF Live, Commands, Onward
<1>2. CASE UNCHANGED vars
  BY <1>0, <1>1, <1>2, QuietHeritage DEF vars, Heritage, Untouched
<1>3. CASE StartProgFuse
  <2>1. passes' = passes + 1 /\ UNCHANGED <<g, prog, recorded, chain, jitted>>
    BY <1>3 DEF StartProgFuse
  <2>2. passes' # 0 /\ \A u : Untouched(u)' => Untouched(u)
    BY <1>0, <2>1 DEF Untouched
  <2>3. QED
    BY <1>0, <1>1, <2>1, <2>2, QuietHeritage
<1>4. CASE Return \/ StartJit
  <2>1. pc' # "prog-fuse" /\ passes' = passes /\ UNCHANGED <<g, prog, recorded, chain>> /\ (jitted => jitted')
    BY <1>0, <1>4 DEF Return, StartJit
  <2>2. \A u : Untouched(u)' => Untouched(u)
    BY <2>1 DEF Untouched
  <2>3. QED
    BY <1>0, <1>1, <2>1, <2>2, QuietHeritage
<1>5. CASE Contract
  <2>1. UNCHANGED <<prog, recorded, pc, visit, passes, jitted>>
    BY <1>5 DEF Contract
  <2>2. (\A u : Untouched(u)' => Untouched(u)) /\ (pc' = "prog-fuse" => passes' # 0)
    BY <2>1 DEF Untouched, Heritage
  <2>3. QED
    BY <1>0, <1>5, <2>1, <2>2, ContractLive, QuietHeritage
<1>6. ASSUME NEW u \in Inner, Pass(u) \/ Abort(u) \/ SkipJit(u) PROVE Heritage'
  <2>1. /\ pc' = pc \/ pc' = "aborted"
        /\ visit' \subseteq visit /\ UNCHANGED <<g, prog, recorded, chain, passes, jitted>>
    BY <1>6 DEF Pass, Abort, SkipJit
  <2>2. /\ \A x : Untouched(x)' => Untouched(x)
        /\ pc' = "prog-fuse" => passes' # 0
    BY <2>1 DEF Untouched, Heritage
  <2>3. QED
    BY <1>0, <1>1, <2>1, <2>2, QuietHeritage
<1>7. ASSUME NEW u \in Inner, RemoveControl(u) PROVE Heritage'
  <2>1. /\ pc = "idle" /\ u \in g.members /\ g.type[u] = "EMPTY" /\ g' = Remove(g, u)
        /\ UNCHANGED <<prog, recorded, pc, jitted, chain, visit, passes>>
    BY <1>7 DEF RemoveControl
  <2>2. Dag(g)
    BY DEF IInv, GraphSound
  <2>3. g'.members = g.members \ {u} /\ g'.type = g.type
    BY <2>1, <2>2, RemoveKeepsType DEF Dag
  <2>4. Live' = Live
    BY <2>1, <2>3 DEF Live, Commands, Onward
  <2>5. \A x : Untouched(x)' => Untouched(x)
    BY <2>1 DEF Untouched
  <2>6. QED
    BY <1>0, <2>1, <2>4, <2>5, QuietHeritage
<1>8. ASSUME NEW u \in Inner, Fuse(u) PROVE Heritage'
  BY <1>8, FuseHeritage
<1>9. ASSUME NEW u \in Inner, Compile(u) PROVE Heritage'
  BY <1>0, <1>9 DEF Compile, Heritage
<1>10. QED
  BY <1>2, <1>3, <1>4, <1>5, <1>6, <1>7, <1>8, <1>9 DEF Next

(* command_graph_prog_fuse_llvmir: a chain never holds what this call fused. *)
(* When a call aborts, the chain it was given calls kernels that could not   *)
(* have been fused in one call either, or it holds a program of an earlier   *)
(* call that is packed, or a device kernel of one among kernels without      *)
(* brackets; and at such a program it always aborts.                         *)
THEOREM AbortsAreExplained == Spec => []AbortExplained
<1>1. Init => Bindings /\ Scheduled /\ Heritage
  <2>1. Init => Scheduled
    BY DEF Init, Scheduled
  <2>2. QED
    BY <2>1, InitBindings, InitHeritage
<1>2. IInv /\ Bindings /\ Scheduled /\ Heritage /\ [Next]_vars => Bindings' /\ Scheduled' /\ Heritage'
  BY NextBindings, NextScheduled, NextHeritage
<1>3. IInv /\ Bindings /\ Scheduled /\ Heritage => AbortExplained
  BY ChainExplained DEF AbortExplained
<1>4. QED
  BY <1>1, <1>2, <1>3, ProgFuseInvariant, PTL DEF Spec
=============================================================================
