----------------------------- MODULE NestedGraph -----------------------------
(***************************************************************************)
(* Command graphs with nodes of type BATCH.  A BATCH node stands for a     *)
(* sub-graph that is made of the very node objects it groups: they keep    *)
(* their lists, of which only the edges between them are left.             *)
(*                                                                         *)
(* inside[B] is the set of nodes that the node B groups, {} for a node     *)
(* that groups none.                                                       *)
(***************************************************************************)
EXTENDS CommandGraph

CONSTANTS
  Batch,      \* node objects that can be allocated for a BATCH command
  Device,     \* device unique ids
  EdgeSets,   \* the edges that may have been recorded
  Labels      \* what and where the recorded nodes may be

(***************************************************************************)
(* What a node is to the grouping passes: a control node, a PROG command   *)
(* with launch mode TASK_SPAWN, another command, or a BATCH that an        *)
(* earlier pass has made.                                                  *)
(***************************************************************************)
Kind == {"control", "task", "other", "batch"}

RecordedNodes == Node \ Batch

(* The graph the client recorded. *)
RecordedGraph(E, kind) ==
  Recorded([u \in Node |-> IF kind[u] = "control" THEN "EMPTY" ELSE "COMMAND"],
           RecordedNodes \ {entry, exit}, E)

(* The client records a DAG with one source and one sink; no edge starts   *)
(* from a node that the entry does not reach.                              *)
ASSUME NestedAssumption ==
  /\ Batch \subseteq Inner
  /\ \A E \in EdgeSets :
       LET g == RecordedGraph(E, [u \in Node |-> "control"])
       IN  /\ E \subseteq RecordedNodes \X RecordedNodes /\ Acyclic(g) /\ Coherent(g)
           /\ \A e \in E : e[1] \in After(g, entry)
  /\ \A l \in Labels :
       /\ l \in [kind : [Node -> Kind], dev : [Node -> Device]]
       /\ l.kind[entry] = "control" /\ l.kind[exit] = "control"
       /\ \A B \in Batch : l.kind[B] = "batch"

NothingNested == [u \in Node |-> {}]

(* The node that stands for u in the top-level graph. *)
Home(inside, u) ==
  IF \E B \in Node : u \in inside[B] THEN CHOOSE B \in Node : u \in inside[B] ELSE u

(* The paths between the nodes that B groups. *)
PathsInside(g, inside, B) == Paths([g EXCEPT !.members = inside[B]])

(***************************************************************************)
(* The precedence of the recorded nodes C under which a graph with nested  *)
(* sub-graphs is executed: within a sub-graph by its paths, otherwise by   *)
(* the paths of the top-level graph.                                       *)
(***************************************************************************)
NestedPrecedence(g, inside, C) ==
  LET home == [u \in C |-> Home(inside, u)]
      top  == Paths(g)
      sub  == [B \in {B \in Node : inside[B] # {}} |-> PathsInside(g, inside, B)]
  IN  {p \in C \X C :
         /\ p[1] # p[2]
         /\ IF home[p[1]] = home[p[2]] THEN p \in sub[home[p[1]]]
                                       ELSE <<home[p[1]], home[p[2]]>> \in top}
=============================================================================
