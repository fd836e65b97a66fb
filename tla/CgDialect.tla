----------------------------- MODULE CgDialect -----------------------------
(***************************************************************************)
(* The cg dialect (src/mlir): a command graph as the operations of one     *)
(* block.  An operation has the tokens of its predecessors as operands;    *)
(* who uses a token is read off the operands, so that an edge is stored    *)
(* once.  Import and export lead from the lists of command_graph_t to this *)
(* form and back.                                                          *)
(*                                                                         *)
(* An operation bears the name of its POD node (cg.src_node), or of the    *)
(* node that will be allocated for it.  operands[v][u] is the number of    *)
(* times the token of u occurs among the operands of v.                    *)
(***************************************************************************)
EXTENDS CommandGraph, CopyCommand

CONSTANT Device  \* device unique ids

(***************************************************************************)
(* What the passes see of a command and of its node: EMPTY nodes have the  *)
(* type "none", programs in LLVM-IR the type "prog"; launch stands for     *)
(* their launch parameters.                                                *)
(***************************************************************************)
CommandType == [type : {"none", "copy", "prog", "other", "batch"}, dev : Device,
                launch : 0 .. 1, copy : CopyType]

(***************************************************************************)
(* ops: the operations in the block; nested: those a pass has moved into   *)
(* the region of a cg.batch; attr: their attributes.                       *)
(***************************************************************************)
Blocks == [ops : SUBSET Node, nested : SUBSET Node, operands : Lists,
           attr : [Node -> CommandType]]

NoOps(cmd) == [ops |-> {}, nested |-> {}, operands |-> NoEdge, attr |-> cmd]

Operands(ir, v) == {u \in Node : ir.operands[v][u] > 0}
Users(ir, u) == {v \in ir.ops : ir.operands[v][u] > 0}
Uses(ir, u) == SumFunction([v \in ir.ops |-> ir.operands[v][u]])

-----------------------------------------------------------------------------
(***************************************************************************)
(* import_command_graph.  The operand for a predecessor p is looked up by  *)
(* p->iterator_index.  If p was not listed by this import's walk, that is  *)
(* the index p had in another walk: named[p] is the operation it finds.    *)
(***************************************************************************)
Unlisted(G, listed) == (UNION {Preds(G, v) : v \in listed}) \ listed

Imported(G, cmd, listed, named) ==
  LET found(p) == IF p \in listed THEN p ELSE named[p]
  IN  [ops      |-> listed,
       nested   |-> {},
       operands |-> [v \in Node |-> [u \in Node |->
                       IF v \notin listed THEN 0
                       ELSE SumFunction([p \in {q \in Preds(G, v) : found(q) = u} |->
                                           G.predecessors[v][p]])]],
       attr     |-> cmd]

(***************************************************************************)
(* export_command_graph.  The lists of every operation's node are cleared  *)
(* and filled again: an operand is an edge, on both sides.  The nodes of   *)
(* erased operations keep the lists they had.  build_batch_node does the   *)
(* same in a sub-graph, with a fresh node for each operation of the        *)
(* region; it keeps the name of the operation here.                        *)
(***************************************************************************)
(* A mistake: the lists of a node that is used again are not cleared. *)
ExportedOnTop(ir, G) ==
  [G EXCEPT
    !.successors = [u \in Node |-> [v \in Node |-> G.successors[u][v] + ir.operands[v][u]]],
    !.predecessors = [v \in Node |-> [u \in Node |-> G.predecessors[v][u] + ir.operands[v][u]]],
    !.members = ir.ops]

Exported(ir, G) ==
  LET written == ir.ops \union ir.nested
  IN  [G EXCEPT
        !.successors = [u \in Node |->
            IF u \in written THEN [v \in Node |-> ir.operands[v][u]] ELSE G.successors[u]],
        !.predecessors = [v \in Node |->
            IF v \in written THEN ir.operands[v] ELSE G.predecessors[v]],
        !.members = ir.ops]

(* A mistake: only the device is written back. *)
WrittenBackDevice(ir, cmd) ==
  [u \in Node |-> [cmd[u] EXCEPT !.dev = IF u \in ir.ops \union ir.nested THEN ir.attr[u].dev ELSE @]]

(* update_node_from_op: the device, and the fields of a copy. *)
WrittenBack(ir, cmd) ==
  [u \in Node |->
     IF u \notin ir.ops \union ir.nested THEN cmd[u]
     ELSE [cmd[u] EXCEPT !.dev = ir.attr[u].dev,
                         !.copy = IF cmd[u].type = "copy" THEN ir.attr[u].copy ELSE @]]

-----------------------------------------------------------------------------
(* setOperands, eraseOperand (all or one of u's), erase, replaceAllUsesWith. *)
SetOperands(ir, v, list) == [ir EXCEPT !.operands = [ir.operands EXCEPT ![v] = list]]

DropUses(ir, u) ==
  [ir EXCEPT !.operands = [v \in Node |-> [ir.operands[v] EXCEPT ![u] = 0]]]

EraseOps(ir, S) ==
  [ir EXCEPT !.ops = ir.ops \ S,
             !.operands = [v \in Node |-> IF v \in S THEN [u \in Node |-> 0]
                                                     ELSE ir.operands[v]]]

ReplaceUses(ir, u, by) ==
  [ir EXCEPT !.operands = [v \in Node |->
     [ir.operands[v] EXCEPT ![by] = ir.operands[v][by] + ir.operands[v][u], ![u] = 0]]]
=============================================================================
