----------------------------- MODULE MlirPasses -----------------------------
(***************************************************************************)
(* The passes of the MLIR layer (src/mlir).  Each call of optimize()       *)
(* imports the graph (import.cpp), runs one pass on it (passes/) and       *)
(* exports the result to the same node objects (export.cpp), so that a     *)
(* pass reads what the export before it has left.                          *)
(*                                                                         *)
(* The order of the operations in the block, and that of the users of a    *)
(* token, are abstracted: loops over either are taken in any order.        *)
(***************************************************************************)
EXTENDS CgDialect, BitMatrix, Sequences, FiniteSetsExt

CONSTANTS
  Batch,    \* node objects that can be allocated for a BATCH command
  Control,  \* the EMPTY nodes the client records between entry and exit
  Rank,     \* the order the nodes are indexed in
  Requests  \* what the client may record, and the passes it then calls for

Passes == {"reduce-node", "reduce-edge", "copy-normalize", "copy-fuse", "prog-fuse", "batch"}

RecordedNodes == Node \ Batch

(* The graph the client recorded. *)
RecordedGraph(E, comm) ==
  Recorded([u \in Node |-> IF comm[u].type = "none" THEN "EMPTY" ELSE "COMMAND"],
           (UNION {{e[1], e[2]} : e \in E}) \ {entry, exit}, E)

ASSUME MlirAssumption ==
  /\ Batch \subseteq Inner
  /\ Control \subseteq Inner \ Batch
  /\ Rank \in [Node -> Nat]
  /\ IsInjective(Rank)
  /\ \A r \in Requests :
       /\ r.edges \subseteq RecordedNodes \X RecordedNodes
       /\ r.cmd \in [Node -> CommandType]
       /\ \A u \in Node : /\ r.cmd[u].type = "none" <=> u \in Control \union {entry, exit}
                          /\ r.cmd[u].type = "batch" <=> u \in Batch
                          /\ r.cmd[u].type = "copy" <=> r.cmd[u].copy.dim # 0
                          /\ Fits(r.cmd[u].copy)
       /\ r.plan \in Seq(Passes)
       /\ LET G == RecordedGraph(r.edges, r.cmd)
          IN  Acyclic(G) /\ Coherent(G) /\ After(G, entry) = G.members

VARIABLES
  g,       \* the command graph
  cmd,     \* the command of each node
  sub,     \* the sub-graph of each BATCH: its nodes, its sources and sinks
  ir,      \* the block of cg.graph
  stage,   \* "idle" between the calls, the pass that runs, "done" once it has
  todo,    \* the operations the pass has still to visit
  cur,     \* the one it is growing: none, or just one
  dead,    \* the operations to be erased at the end
  matrix,  \* the words of the reachability matrix
  group,   \* the members of each group, {} for one that is not alive
  plan,    \* the passes to be called yet
  holds    \* history: the recorded nodes each node stands for

pod == <<g, cmd, sub, plan>>
work == <<todo, cur, dead, matrix, group>>
vars == <<pod, ir, stage, work, holds>>

NoSub == [nodes |-> {}, sources |-> {}, sinks |-> {}]
NoGroups == [u \in Node |-> {}]

Init ==
  /\ \E r \in Requests :
       /\ g = RecordedGraph(r.edges, r.cmd)
       /\ cmd = r.cmd
       /\ plan = r.plan
  /\ sub = [u \in Node |-> NoSub]
  /\ ir = NoOps(cmd)
  /\ stage = "idle"
  /\ todo = {} /\ cur = {} /\ dead = {} /\ matrix = NoBits(0) /\ group = NoGroups
  /\ holds = [u \in Node |-> IF u \in RecordedNodes THEN {u} ELSE {}]

-----------------------------------------------------------------------------
OfType(t) == {u \in ir.ops : ir.attr[u].type = t}

(* What the pass visits: its `work` list, its queue, or the block. *)
Candidates(pass, block) ==
  CASE pass = "reduce-node" -> {u \in block.ops : block.attr[u].type = "none"} \ {entry, exit}
    [] pass = "copy-fuse"   -> {u \in block.ops : block.attr[u].copy.dim = 1}
    [] pass = "prog-fuse"   -> {u \in block.ops : block.attr[u].type = "prog"}
    [] pass = "batch"       -> block.ops \ {entry, exit}
    [] OTHER                -> block.ops

(* command_graph_optimize_mlir, up to the run of the pass. *)
Import ==
  /\ stage = "idle"
  /\ plan # <<>>
  /\ LET listed == After(g, entry)
     IN  \E named \in [Unlisted(g, listed) -> listed] :
           LET block == Imported(g, cmd, listed, named)
               pass  == Head(plan)
           IN  /\ ir' = block
               /\ stage' = pass
               /\ todo' = Candidates(pass, block)
               /\ matrix' = NoBits(IF pass = "reduce-edge" THEN Cardinality(listed) ELSE 0)
               /\ group' = [u \in Node |-> IF pass = "batch" /\ u \in listed THEN {u} ELSE {}]
  /\ UNCHANGED <<pod, cur, dead, holds>>

(* The operations that have become a region's, by a cg.batch of this call. *)
NewBatches == {B \in ir.ops : sub[B].nodes \intersect ir.nested # {}}

(* build_batch_node: entry -> sources and sinks -> exit of the sub-graph.  *)
Linked(B) ==
  LET S == sub[B].nodes
  IN  [sub[B] EXCEPT
        !.sources = {m \in S : Operands(ir, m) = {}},
        !.sinks = {m \in S : \A x \in S : ir.operands[x][m] = 0}]

Export ==
  /\ stage = "done"
  /\ g' = Exported(ir, g)
  /\ cmd' = WrittenBack(ir, cmd)
  /\ sub' = [u \in Node |-> IF u \in NewBatches THEN Linked(u) ELSE sub[u]]
  /\ ir' = NoOps(WrittenBack(ir, cmd))
  /\ stage' = "idle"
  /\ plan' = Tail(plan)
  /\ UNCHANGED <<work, holds>>

(* The loops over the operations are through, and nothing is left to do. *)
PassReturns ==
  /\ stage \in {"reduce-node", "prog-fuse"}
  /\ todo = {}
  /\ stage' = "done"
  /\ UNCHANGED <<pod, ir, work, holds>>

-----------------------------------------------------------------------------
(***************************************************************************)
(* ReduceNode.cpp.  m and n count what is listed, not who is.              *)
(***************************************************************************)
PaysOff(e) ==
  LET m == Length(ir.operands[e])
      n == Uses(ir, e)
  IN  m * n < 1 + m + n

KeepNode(e) ==
  /\ stage = "reduce-node"
  /\ e \in todo
  /\ ~PaysOff(e)
  /\ todo' = todo \ {e}
  /\ UNCHANGED <<pod, ir, stage, cur, dead, matrix, group, holds>>

Listed(S) == [u \in Node |-> IF u \in S THEN 1 ELSE 0]

(* A mistake: the operands of the node are not handed on to its users. *)
SpliceCut(e) ==
  EraseOps([ir EXCEPT !.operands = [v \in Node |->
     IF v \in Users(ir, e) THEN Listed(Operands(ir, v) \ {e}) ELSE ir.operands[v]]], {e})

(* The users of e get its operands, each once (SetVector). *)
Splice(e) ==
  EraseOps([ir EXCEPT !.operands = [v \in Node |->
     IF v \in Users(ir, e) THEN Listed((Operands(ir, v) \ {e}) \union Operands(ir, e))
                           ELSE ir.operands[v]]], {e})

DropNode(e) ==
  /\ stage = "reduce-node"
  /\ e \in todo
  /\ PaysOff(e)
  /\ ir' = Splice(e)
  /\ todo' = todo \ {e}
  /\ UNCHANGED <<pod, stage, cur, dead, matrix, group, holds>>

-----------------------------------------------------------------------------
(***************************************************************************)
(* ReduceEdge.cpp.  The matrix is filled in reverse topological order; the *)
(* operands do not change before it is full.                               *)
(***************************************************************************)
Index(u) == Cardinality({x \in ir.ops : Rank[x] < Rank[u]})
Size == Cardinality(ir.ops)

(* A mistake: the operations are taken as they come. *)
AccumulateUnordered(u) ==
  /\ stage = "reduce-edge"
  /\ u \in todo
  /\ matrix' = FoldSet(LAMBDA s, words : OrRows(words, Size, Index(u), Index(s)),
                       SetBit(matrix, Size, Index(u), Index(u)), Users(ir, u))
  /\ todo' = todo \ {u}
  /\ UNCHANGED <<pod, ir, stage, cur, dead, group, holds>>

Accumulate(u) ==
  /\ stage = "reduce-edge"
  /\ u \in todo
  /\ Users(ir, u) \intersect todo = {}
  /\ matrix' = FoldSet(LAMBDA s, words : OrRows(words, Size, Index(u), Index(s)),
                       SetBit(matrix, Size, Index(u), Index(u)), Users(ir, u))
  /\ todo' = todo \ {u}
  /\ UNCHANGED <<pod, ir, stage, cur, dead, group, holds>>

Redundant(u, v) ==
  /\ v \in Users(ir, u)
  /\ \E w \in Users(ir, u) \ {v} : TestBit(matrix, Size, Index(w), Index(v))

(* Of the operands for a redundant edge, the first one is erased. *)
EraseEdges ==
  /\ stage = "reduce-edge"
  /\ todo = {}
  /\ ir' = [ir EXCEPT !.operands = [v \in Node |-> [u \in Node |->
       IF u \in ir.ops /\ Redundant(u, v) THEN ir.operands[v][u] - 1
                                          ELSE ir.operands[v][u]]]]
  /\ stage' = "done"
  /\ matrix' = NoBits(0)
  /\ UNCHANGED <<pod, todo, cur, dead, group, holds>>

-----------------------------------------------------------------------------
(* CopyNormalize.cpp.  The new cg.copy_1d takes its operands and users over. *)
NormalizeCopies ==
  /\ stage = "copy-normalize"
  /\ ir' = [ir EXCEPT !.attr = [u \in Node |->
              IF u \in ir.ops THEN [ir.attr[u] EXCEPT !.copy = Normalized(@)] ELSE ir.attr[u]]]
  /\ stage' = "done"
  /\ todo' = {}
  /\ UNCHANGED <<pod, cur, dead, matrix, group, holds>>

-----------------------------------------------------------------------------
(***************************************************************************)
(* CopyFuse.cpp.  The twins are compared as sets, whatever the number of   *)
(* times an operand is listed.                                             *)
(***************************************************************************)
Fusible(u, v) ==
  LET copy == ir.attr[u].copy
      other == ir.attr[v].copy
  IN  /\ u # v /\ v \in ir.ops \ dead
      /\ copy.dim = 1 /\ other.dim = 1
      /\ \E p \in Operands(ir, u) : v \in Users(ir, p)
      /\ Operands(ir, u) = Operands(ir, v)
      /\ Users(ir, u) = Users(ir, v)
      /\ SameMapping(copy, other)
      /\ Touch(copy, other)

FuseCopies(u, v) ==
  /\ stage = "copy-fuse"
  /\ u \in todo /\ cur \subseteq {u}
  /\ Fusible(u, v)
  /\ ir' = [DropUses(ir, v) EXCEPT !.attr[u].copy = Union(@, ir.attr[v].copy)]
  /\ dead' = dead \union {v}
  /\ cur' = {u}
  /\ todo' = todo \ {v}
  /\ holds' = [holds EXCEPT ![u] = @ \union holds[v]]
  /\ UNCHANGED <<pod, stage, matrix, group>>

(* A scan of the siblings of u that finds none. *)
LeaveCopy(u) ==
  /\ stage = "copy-fuse"
  /\ u \in todo /\ cur \subseteq {u}
  /\ \A v \in ir.ops : ~Fusible(u, v)
  /\ cur' = {}
  /\ todo' = todo \ {u}
  /\ UNCHANGED <<pod, ir, stage, dead, matrix, group, holds>>

EraseDead ==
  /\ stage = "copy-fuse"
  /\ todo = {}
  /\ ir' = EraseOps(ir, dead)
  /\ dead' = {}
  /\ stage' = "done"
  /\ UNCHANGED <<pod, todo, cur, matrix, group, holds>>

-----------------------------------------------------------------------------
(***************************************************************************)
(* ProgFuse.cpp.  The chain from u is followed link by link; that its      *)
(* programs are linked into one at the end is left out.                    *)
(***************************************************************************)
(* A mistake: w may have other predecessors. *)
LinkForward(u, w) ==
  /\ Uses(ir, u) = 1 /\ w \in Users(ir, u)
  /\ ir.attr[w].type = "prog"
  /\ ir.attr[u].launch = ir.attr[w].launch

Link(u, w) ==
  /\ Uses(ir, u) = 1 /\ w \in Users(ir, u)
  /\ ir.operands[w] = Just(u)
  /\ ir.attr[w].type = "prog"
  /\ ir.attr[u].launch = ir.attr[w].launch

FuseProgs(u, w) ==
  /\ stage = "prog-fuse"
  /\ u \in todo /\ cur \subseteq {u}
  /\ Link(u, w)
  /\ ir' = ReplaceUses(EraseOps(ir, {w}), w, u)
  /\ cur' = {u}
  /\ todo' = todo \ {w}
  /\ holds' = [holds EXCEPT ![u] = @ \union holds[w]]
  /\ UNCHANGED <<pod, stage, dead, matrix, group>>

LeaveProg(u) ==
  /\ stage = "prog-fuse"
  /\ u \in todo /\ cur \subseteq {u}
  /\ \A w \in ir.ops : ~Link(u, w)
  /\ cur' = {}
  /\ todo' = todo \ {u}
  /\ UNCHANGED <<pod, ir, stage, dead, matrix, group, holds>>

-----------------------------------------------------------------------------
(***************************************************************************)
(* Batch.cpp.  The groups are contracted on a scratch graph first.  A group *)
(* bears the name of the operation it grew from; the queue is left by a    *)
(* group that finds no neighbour, and not entered again.                   *)
(***************************************************************************)
Alive == {i \in Node : group[i] # {}}

(* The sources of edges into a group, and the targets of edges out of it.  *)
GroupPreds(i) == {j \in Alive \ {i} : \E u \in group[j], v \in group[i] : v \in Users(ir, u)}
GroupSuccs(i) == {j \in Alive \ {i} : \E u \in group[j], v \in group[i] : u \in Users(ir, v)}

CanBatch(i, j) ==
  /\ i # j
  /\ {i, j} \subseteq Alive \ {entry, exit}
  /\ ir.attr[i].dev = ir.attr[j].dev

(* False twins among siblings. *)
TwinGroups(i, j) ==
  /\ GroupPreds(i) = GroupPreds(j) /\ GroupPreds(i) # {}
  /\ GroupSuccs(i) = GroupSuccs(j)

SeriesGroups(i, j) == GroupSuccs(i) = {j} /\ GroupPreds(j) = {i}

(* The neighbours i may absorb: twins first, then down, then up. *)
Mates(i) ==
  LET twins == {j \in Alive : CanBatch(i, j) /\ TwinGroups(i, j)}
      below == {j \in Alive : CanBatch(i, j) /\ SeriesGroups(i, j)}
      above == {j \in Alive : CanBatch(i, j) /\ SeriesGroups(j, i)}
  IN  IF twins # {} THEN twins ELSE IF below # {} THEN below ELSE above

(* A mistake: j stays alive. *)
MergeGroupsTwice(i, j) ==
  /\ stage = "batch"
  /\ i \in todo
  /\ j \in Mates(i)
  /\ group' = [group EXCEPT ![i] = @ \union group[j]]
  /\ UNCHANGED <<pod, ir, stage, todo, cur, dead, matrix, holds>>

MergeGroups(i, j) ==
  /\ stage = "batch"
  /\ i \in todo
  /\ j \in Mates(i)
  /\ group' = [group EXCEPT ![i] = @ \union group[j], ![j] = {}]
  /\ todo' = todo \ {j}
  /\ UNCHANGED <<pod, ir, stage, cur, dead, matrix, holds>>

LeaveGroup(i) ==
  /\ stage = "batch"
  /\ i \in todo
  /\ Mates(i) = {}
  /\ todo' = todo \ {i}
  /\ UNCHANGED <<pod, ir, stage, cur, dead, matrix, group, holds>>

(* A mistake: control nodes are counted. *)
AnyTwo(i) == Cardinality(group[i]) >= 2

(* "only batch groups with >= 2 COMMAND members" *)
Batchable(i) == Cardinality({u \in group[i] : ir.attr[u].type # "none"}) >= 2

(* A mistake: the batch waits for what one of its members waits for. *)
OperandsOfOne(S) == LET u == CHOOSE u \in S : TRUE IN Operands(ir, u) \ S

(* The tokens the members wait for, each once. *)
OperandsOf(S) == (UNION {Operands(ir, u) : u \in S}) \ S

(***************************************************************************)
(* materialize_batch: B gets the operands of the members S from outside,   *)
(* once each; a use of a member becomes a use of B, so that B is listed    *)
(* by a user as often as its members were; the members move into B.        *)
(***************************************************************************)
Contracted(S, B, device) ==
  [ops      |-> (ir.ops \ S) \union {B},
   nested   |-> ir.nested \union S,
   operands |-> [v \in Node |->
      IF v = B THEN Listed(OperandsOf(S))
      ELSE IF v \in S THEN [u \in Node |-> IF u \in S THEN ir.operands[v][u] ELSE 0]
      ELSE [u \in Node |-> IF u = B THEN SumFunction([s \in S |-> ir.operands[v][s]])
                           ELSE IF u \in S THEN 0
                           ELSE ir.operands[v][u]]],
   attr     |-> [ir.attr EXCEPT ![B].dev = device]]

(* Unused: the node objects that stand for nothing yet. *)
Unused == {B \in Batch : holds[B] = {}}

Materialize(i, B) ==
  /\ stage = "batch"
  /\ todo = {}
  /\ i \in Alive /\ Batchable(i)
  /\ B \in Unused
  /\ \E device \in {ir.attr[u].dev : u \in {u \in group[i] : ir.attr[u].type # "none"}} :
       ir' = Contracted(group[i], B, device)
  /\ sub' = [sub EXCEPT ![B].nodes = group[i]]
  /\ group' = [group EXCEPT ![i] = {}]
  /\ holds' = [holds EXCEPT ![B] = UNION {holds[u] : u \in group[i]}]
  /\ UNCHANGED <<g, cmd, plan, stage, todo, cur, dead, matrix>>

BatchReturns ==
  /\ stage = "batch"
  /\ todo = {}
  /\ \A i \in Alive : ~Batchable(i)
  /\ group' = NoGroups
  /\ stage' = "done"
  /\ UNCHANGED <<pod, ir, todo, cur, dead, matrix, holds>>

-----------------------------------------------------------------------------
(* The client has made its calls. *)
Finished ==
  /\ stage = "idle"
  /\ plan = <<>>
  /\ UNCHANGED vars

Next ==
  \/ Import \/ Export \/ PassReturns
  \/ EraseEdges \/ NormalizeCopies \/ EraseDead \/ BatchReturns
  \/ \E u \in Node :
       \/ KeepNode(u) \/ DropNode(u)
       \/ Accumulate(u)
       \/ LeaveCopy(u) \/ LeaveProg(u) \/ LeaveGroup(u)
       \/ \E v \in Node : \/ FuseCopies(u, v) \/ FuseProgs(u, v)
                          \/ MergeGroups(u, v) \/ Materialize(u, v)
  \/ Finished

Spec == Init /\ [][Next]_vars

-----------------------------------------------------------------------------
TypeOK ==
  /\ g \in Graphs
  /\ cmd \in [Node -> CommandType]
  /\ sub \in [Node -> [nodes : SUBSET Node, sources : SUBSET Node, sinks : SUBSET Node]]
  /\ ir \in Blocks
  /\ stage \in Passes \union {"idle", "done"}
  /\ todo \subseteq Node /\ cur \subseteq Node /\ dead \subseteq Node
  /\ group \in [Node -> SUBSET Node]
  /\ plan \in Seq(Passes)
  /\ holds \in [Node -> SUBSET RecordedNodes]

Batches == {B \in Node : sub[B].nodes # {}}
Nested == UNION {sub[B].nodes : B \in Batches}

(***************************************************************************)
(* What an export leaves can be imported: the lists match, a walk from the *)
(* entry finds every node, and whoever is listed as a predecessor is found *)
(* too, so that its iterator_index is one of this walk's.  Only a batch    *)
(* may be listed twice by one node.                                        *)
(***************************************************************************)
WellFormed ==
  /\ TypeOK
  /\ EdgesMirrored(g) /\ Acyclic(g) /\ Coherent(g)
  /\ After(g, entry) = g.members
  /\ Unlisted(g, g.members) = {}
  /\ \A u \in g.members \ Batches, v \in Node : g.successors[u][v] <= 1

(***************************************************************************)
(* The batches hold what was taken out of the graph, each node once.  A    *)
(* batch runs at least two commands, on one device; its lists link none of *)
(* its nodes to one that is not its own, and each of them lies on a path   *)
(* from a node the sub-graph's entry leads to, to one that leads to its    *)
(* exit.                                                                   *)
(***************************************************************************)
BatchSound(B) ==
  LET S == sub[B].nodes
      inner == [g EXCEPT !.members = S]
      paths == Paths(inner)
  IN  /\ S \intersect (g.members \union UNION {sub[C].nodes : C \in Batches \ {B}}) = {}
      /\ Cardinality({u \in S : cmd[u].type # "none"}) >= 2
      /\ \A u \in S : cmd[u].dev = cmd[B].dev
      /\ EdgesMirrored(inner)
      /\ \A u \in S : /\ \E s \in sub[B].sources : <<s, u>> \in paths
                      /\ \E t \in sub[B].sinks : <<u, t>> \in paths
      /\ \A s \in sub[B].sources : Preds(g, s) = {}

BatchesSound == stage = "idle" => \A B \in Batches : BatchSound(B)

(***************************************************************************)
(* After reduce-edge, no edge is implied by the others; an edge out of a   *)
(* batch that is listed twice may be left once.                            *)
(***************************************************************************)
Implied(u, v) ==
  \E w \in Users(ir, u) \ {v} :
    <<w, v>> \in Paths([successors |-> [x \in Node |-> [y \in Node |-> ir.operands[y][x]]],
                        members |-> ir.ops])

EdgesReduced ==
  stage = "done" /\ Head(plan) = "reduce-edge"
    => \A u \in ir.ops \ Batches : \A v \in Users(ir, u) : ~Implied(u, v)

(* The bytes the commands move, altogether, are the bytes they moved when  *)
(* they were recorded: copies are normalized and fused, never lost.        *)
Moves ==
  LET copy(u) == IF stage # "idle" /\ u \in ir.ops \union ir.nested THEN ir.attr[u].copy
                                                                    ELSE cmd[u].copy
      top == IF stage = "idle" THEN g.members ELSE ir.ops \ dead
  IN  UNION {Transfers(copy(u)) : u \in top \union Nested}

BytesKept == [][Moves' = Moves]_vars

-----------------------------------------------------------------------------
(***************************************************************************)
(* Every pass is an edit of the schedule the client recorded: it merges    *)
(* commands the others cannot tell apart, or drops a control node.  Going  *)
(* to the dialect and back, reduce-edge and the making of batches change   *)
(* no order.                                                               *)
(***************************************************************************)
TopNodes == IF stage = "idle" THEN g.members ELSE ir.ops \ dead

(* The edges within S, wherever they are kept at this moment. *)
Within(S) ==
  [successors |-> [u \in Node |-> [v \in Node |->
      IF v \notin S THEN 0
      ELSE IF stage # "idle" /\ v \in ir.ops \union ir.nested THEN ir.operands[v][u]
      ELSE g.successors[u][v]]],
   members    |-> S]

(* The recorded nodes that run as one: those that a node on no batch holds. *)
BlocksNow == {holds[u] : u \in (TopNodes \union Nested) \ Batches}
BlocksIn(u) == IF u \in Batches THEN {A \in BlocksNow : A \subseteq holds[u]} ELSE {holds[u]}

(* The paths at the top level and in each batch, between all that their nodes hold. *)
OrderNow ==
  UNION {UNION {BlocksIn(p[1]) \X BlocksIn(p[2]) : p \in {p \in Paths(Within(S)) : p[1] # p[2]}} :
           S \in {TopNodes} \union {sub[B].nodes : B \in Batches}}

Program == INSTANCE Schedule WITH Control <- Control \union {entry, exit},
                            blocks <- BlocksNow, order <- OrderNow

RewritesSchedule == Program!Spec

(***************************************************************************)
(* Every call returns, even where a queue is refilled or a scan starts     *)
(* again: each step leaves less to do than there was before.  The calls    *)
(* and whether one has started weigh more than the candidates, groups and  *)
(* operations of the pass that runs.                                       *)
(***************************************************************************)
Left ==
  LET calls == 2 * Len(plan) + IF stage = "idle" THEN 1 ELSE 0
      steps == Cardinality(todo) + Cardinality(Alive) + Cardinality(ir.ops \ dead)
                 + IF stage \in Passes THEN 1 ELSE 0
  IN  calls * (3 * Cardinality(Node) + 2) + steps

PassesEnd == [][Left' < Left]_vars
=============================================================================
