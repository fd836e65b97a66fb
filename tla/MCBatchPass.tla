----------------------------- MODULE MCBatchPass ----------------------------
(* A small instance of BatchPass for TLC. *)
EXTENDS BatchPass

CONSTANTS a, b, c, d, B1, B2

(* Up to a renaming, the edges go from an earlier to a later node. *)
Downward ==
  {<<a, b>>, <<a, c>>, <<a, d>>, <<b, c>>, <<b, d>>, <<c, d>>}
    \union ({entry} \X {a, b}) \union ({c, d} \X {exit})

(* The sets of edges that leave no node without predecessor or successor. *)
Spanning == {E \in SUBSET Downward :
               \A x \in {a, b, c, d} : /\ \E p \in Node : <<p, x>> \in E
                                       /\ \E s \in Node : <<x, s>> \in E}

(* Commands on two devices, a control node that has a device as well, and  *)
(* an earlier batch.  Which device is which makes no difference. *)
Of(u) == CASE u = a -> {<<"other", 0>>}
           [] u = b -> {<<"other", 0>>, <<"other", 1>>}
           [] u = c -> {<<"other", 0>>, <<"other", 1>>, <<"control", 0>>}
           [] u = d -> {<<"other", 0>>, <<"other", 1>>, <<"batch", 0>>}
SmallLabels ==
  {[kind |-> [u \in Node |-> IF u \in Batch THEN "batch"
                             ELSE IF u \in {entry, exit} THEN "control" ELSE f[u][1]],
    dev  |-> [u \in Node |-> IF u \in {a, b, c, d} THEN f[u][2] ELSE 2]] :
     f \in {f \in [{a, b, c, d} -> UNION {Of(u) : u \in {a, b, c, d}}] :
              \A u \in {a, b, c, d} : f[u] \in Of(u)}}
=============================================================================
