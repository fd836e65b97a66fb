----------------------------- MODULE MCSequence -----------------------------
(* A small instance of Sequence for TLC. *)
EXTENDS Sequence

CONSTANTS a, b, c, d, B1, B2

(* Up to a renaming, the edges go from an earlier to a later node. *)
Downward ==
  {<<a, b>>, <<a, c>>, <<a, d>>, <<b, c>>, <<b, d>>, <<c, d>>}
    \union ({entry} \X {a, b}) \union ({c, d} \X {exit})

(* The sets of edges that leave no node without predecessor or successor. *)
Spanning == {E \in SUBSET Downward :
               \A x \in {a, b, c, d} : /\ \E p \in Node : <<p, x>> \in E
                                       /\ \E s \in Node : <<x, s>> \in E}

(* Tasks on two devices, control nodes and other commands. *)
Label == {<<"task", 0>>, <<"task", 1>>, <<"control", 0>>, <<"other", 0>>}
SmallLabels ==
  {[kind |-> [u \in Node |-> IF u \in Batch THEN "batch"
                             ELSE IF u \in {entry, exit} THEN "control" ELSE f[u][1]],
    dev  |-> [u \in Node |-> IF u \in {a, b, c, d} THEN f[u][2] ELSE 0]] :
     f \in [{a, b, c, d} -> Label]}
=============================================================================
