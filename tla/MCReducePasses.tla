--------------------------- MODULE MCReducePasses ---------------------------
(* Two families of small instances of ReducePasses, told apart by c. *)
EXTENDS ReducePasses, TLC

CONSTANTS a, h, b, c

(* Three inner nodes, recorded and optimized in turns.  They are           *)
(* interchangeable: no definition orders nodes. *)
SmallInit == Init /\ c \notin g.members
Interchangeable == Permutations({a, h, b})

(***************************************************************************)
(* Graphs around a hub: the control node h stands between one or two       *)
(* predecessors and two or three successors, so that removing it may cost  *)
(* more than keeping it.  Most other edges are arbitrary; the edge between  *)
(* entry and exit may have been erased earlier.  The client optimizes only. *)
(***************************************************************************)
HubEdges  == {<<entry, a>>, <<a, h>>, <<h, b>>, <<h, c>>, <<c, exit>>}
MoreEdges == {<<entry, exit>>, <<entry, h>>, <<h, exit>>, <<a, b>>, <<b, c>>, <<b, exit>>, <<a, exit>>}

HubInit ==
  /\ \E E \in SUBSET MoreEdges, control \in SUBSET {a, b} :
       g = Recorded([x \in Node |-> IF x \in {a, b, c} \ control THEN "COMMAND" ELSE "EMPTY"], Inner, HubEdges \union E)
  /\ Coherent(g)
  /\ pc = "idle" /\ visit = {} /\ cur = entry /\ left = {} /\ reach = {}
  /\ sealed = TRUE

MCSpec == (SmallInit \/ HubInit) /\ [][Next /\ (c \in g.members => sealed')]_vars
=============================================================================
