---------------------------- MODULE MCGraphEdit ----------------------------
(* Small instances of GraphEdit for TLC. *)
EXTENDS GraphEdit

CONSTANTS a, b, c, d, e

(***************************************************************************)
(* Up to a renaming of nodes, the edges of a DAG go from an earlier to a   *)
(* later node of a, b, c, d.                                               *)
(***************************************************************************)
Downward ==
  {<<a, b>>, <<a, c>>, <<a, d>>, <<b, c>>, <<b, d>>, <<c, d>>}
    \union {<<entry, x>> : x \in {a, b, c, d}} \union {<<x, exit>> : x \in {a, b, c, d}}
    \union {<<entry, exit>>}
(* The recordings that leave no node without predecessor or successor. *)
Spanning == {E \in SUBSET Downward :
               \A x \in Allocated : /\ \E p \in Node : <<p, x>> \in E
                                   /\ \E s \in Node : <<x, s>> \in E}
============================================================================
