------------------------------ MODULE CopyFuse ------------------------------
(***************************************************************************)
(* The passes copy-normalize (src/pod/copy-normalize.cc) and copy-fuse     *)
(* (src/pod/copy-fuse.cc) in the order they run in.  The first turns 2D    *)
(* copies into 1D copies or into bytes; the second makes one copy of       *)
(* false-twin copies whose address ranges touch.                           *)
(*                                                                         *)
(* copy-fuse lists the nodes once and visits them one by one; at a node it  *)
(* scans the successors of its predecessors, and starts the scan again     *)
(* after every fusion (goto retry_node).  The scan order, which is the     *)
(* order of the std::lists, is abstracted.                                 *)
(***************************************************************************)
EXTENDS CommandGraph, CopyCommand

CONSTANTS
  Copies,      \* the copies the client may have recorded
  Recordings   \* the sets of edges the client may have recorded

ASSUME CopiesAssumption ==
  /\ Copies \subseteq CopyType
  /\ \A c \in Copies : Fits(c)
  /\ Recordings \subseteq SUBSET (Node \X Node)

VARIABLES
  origin, \* the graph as recorded (a history variable)
  g,      \* the command graph
  copy,   \* the command of each node
  pc,     \* "normalize", "visit", "done", or "aborted" once abort() was called
  visit,  \* the nodes the pass has not visited yet
  cur     \* the nodes being scanned: none, or just one

vars == <<origin, g, copy, pc, visit, cur>>

(* The nodes a walk from the entry visits, entry and exit left out. *)
Iterators(G) == After(G, entry) \ {entry, exit}

Init ==
  /\ copy \in [Inner -> Copies]
  /\ \E E \in Recordings, control \in SUBSET {u \in Inner : copy[u].dim = 0} :
       g = Recorded([u \in Node |-> IF u \in Inner \ control THEN "COMMAND" ELSE "EMPTY"],
                    Inner, E)
  /\ Acyclic(g)
  /\ Coherent(g)
  /\ origin = g
  /\ pc \in {"normalize", "visit"}
  /\ visit = Iterators(g)
  /\ cur = {}

-----------------------------------------------------------------------------
(* pass_copy_normalize: the copies of the listed nodes, one by one; the    *)
(* graph stays as it is.  The next pass lists the same nodes.              *)
Normalize ==
  /\ pc = "normalize"
  /\ copy' = [u \in Inner |-> IF u \in visit THEN Normalized(copy[u]) ELSE copy[u]]
  /\ pc' = "visit"
  /\ UNCHANGED <<origin, g, visit, cur>>

-----------------------------------------------------------------------------
(* Neither node's lists are read for its own liveness: a node that was     *)
(* contracted away is compared by the lists it left with.                  *)
TwinCommands(u, v) ==
  /\ u # v
  /\ AreFalseTwins(g, u, v)
  /\ g.type[u] = "COMMAND" /\ g.type[v] = "COMMAND"

Fusible(u, v) ==
  /\ TwinCommands(u, v)
  /\ copy[u].dim = 1 /\ copy[v].dim = 1
  /\ SameMapping(copy[u], copy[v])
  /\ Touch(copy[u], copy[v])

(* One of the two is a 2D copy, and the code to fuse them is not written. *)
Unwritten(u, v) ==
  /\ TwinCommands(u, v)
  /\ \/ {copy[u].dim, copy[v].dim} = {1, 2}
     \/ /\ copy[u].dim = 2 /\ copy[v].dim = 2
        /\ SameColumns(copy[u], copy[v])
        /\ SameMapping(copy[u], copy[v])

(* The successors of the predecessors of u, as u's own list names them. *)
Siblings(u) == UNION {Succs(g, p) : p \in Preds(g, u)}

-----------------------------------------------------------------------------
(* The loop moves on to the node u.  The flag node.data.contracted, which  *)
(* is to skip a node that was contracted away, is never set.               *)
Visit(u) ==
  /\ pc = "visit"
  /\ cur = {}
  /\ u \in visit
  /\ visit' = visit \ {u}
  /\ cur' = {u}
  /\ UNCHANGED <<origin, g, copy, pc>>

(* contract<FALSE_TWINS | INPLACE>(u, v), and u copies the range of both. *)
Fuse(u, v) ==
  /\ pc = "visit"
  /\ u \in cur
  /\ v \in Siblings(u)
  /\ Fusible(u, v)
  /\ g' = ContractTwins(g, u, v)
  /\ copy' = [copy EXCEPT ![u] = Union(copy[u], copy[v])]
  /\ UNCHANGED <<origin, pc, visit, cur>>

Abort(u, v) ==
  /\ pc = "visit"
  /\ u \in cur
  /\ v \in Siblings(u)
  /\ Unwritten(u, v)
  /\ pc' = "aborted"
  /\ UNCHANGED <<origin, g, copy, visit, cur>>

(* A mistake: the scan stops at the first node that is not fusible. *)
ScannedOne(u) ==
  /\ pc = "visit"
  /\ u \in cur
  /\ \E v \in Siblings(u) : ~Fusible(u, v) /\ ~Unwritten(u, v)
  /\ cur' = {}
  /\ UNCHANGED <<origin, g, copy, pc, visit>>

(* A whole scan of u found nothing. *)
Scanned(u) ==
  /\ pc = "visit"
  /\ u \in cur
  /\ \A v \in Siblings(u) : ~Fusible(u, v) /\ ~Unwritten(u, v)
  /\ cur' = {}
  /\ UNCHANGED <<origin, g, copy, pc, visit>>

Return ==
  /\ pc = "visit"
  /\ visit = {}
  /\ cur = {}
  /\ pc' = "done"
  /\ UNCHANGED <<origin, g, copy, visit, cur>>

Next ==
  \/ \E u \in Inner :
       \/ Visit(u)
       \/ Scanned(u)
       \/ \E v \in Inner : Fuse(u, v) \/ Abort(u, v)
  \/ Normalize
  \/ Return

Spec == Init /\ [][Next]_vars

(* The pass is one thread that runs on. *)
FairSpec == Spec /\ WF_vars(Next)

-----------------------------------------------------------------------------
TypeOK ==
  /\ g \in Graphs
  /\ copy \in [Inner -> CopyType]
  /\ pc \in {"normalize", "visit", "done", "aborted"}
  /\ visit \in SUBSET Inner
  /\ cur \in SUBSET Inner

Moves(C, comm) == UNION {Transfers(comm[u]) : u \in C \intersect Inner}

(***************************************************************************)
(* A copy that was normalized moves the bytes it moved before, whatever    *)
(* its strides; a fused copy moves exactly the bytes its two operands      *)
(* moved, each to where it went before.                                    *)
(***************************************************************************)
CopiesExact ==
  [][\A u \in Inner : copy'[u] # copy[u] =>
       \/ Transfers(copy'[u]) = Transfers(copy[u])
       \/ \E v \in Inner \ {u} : Transfers(copy'[u]) = Transfers(copy[u]) \union Transfers(copy[v])]_vars

(***************************************************************************)
(* "False-twin copy nodes [...] are fused into a single, larger copy":     *)
(* what the nodes of the graph move altogether stays the same.             *)
(***************************************************************************)
NoCopyLost ==
  [][Moves(Iterators(g)', copy') = Moves(Iterators(g), copy)]_vars

(* Whatever happens to the nodes that are gone, the lists of the nodes that *)
(* are left match, and the graph is acyclic.                               *)
WellFormed == TypeOK /\ EdgesMirrored(g) /\ SimpleEdges(g) /\ Acyclic(g)

(* The scan that restarts after every fusion comes to an end. *)
Returns == <>(pc \in {"done", "aborted"})

(***************************************************************************)
(* When the pass returns, no two nodes that were false twins when it began *)
(* are fusible any more.  It says nothing of nodes that become false twins *)
(* under way: the pass makes some when it loses copies (NoCopyLost), and   *)
(* it may have visited them before.                                        *)
(***************************************************************************)
FusionComplete ==
  pc = "done" => \A u, v \in Iterators(g) : AreFalseTwins(origin, u, v) => ~Fusible(u, v)
=============================================================================
