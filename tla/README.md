# CGIR in TLA+

CGIR is a C++ library. A runtime records the commands it is going to execute
(kernels, copies, task bodies) as a *command graph*, asks the library to
*optimize* the graph with a set of passes, and replays the result many times.
A pass that loses an edge, a command or the acyclicity of the graph corrupts
every later replay, and nothing at replay time would notice.

This directory holds TLA+ modules of the graph data structure and of the passes
that rewrite it, the TLC configurations that check them on small graphs, and
TLAPS proofs of some of the results for graphs of every size.

## The system

| Part | State | Operations | Interacts with |
|---|---|---|---|
| Command graph (`include/cgir/command-graph.hpp`) | per node: two `std::list`s, type, device, command; per graph: entry, exit | `init`, `precedes`, `remove`, six flavours of `contract` | every pass edits it |
| Walks and iterators (same file) | `walk_id` of graph and nodes, `iterator_index` | `walk` (DFS/BFS, pre/post), `create_node_iterators` | every pass, the checks, the metrics and the dump start with one |
| reduce-node, reduce-edge (`src/pod`) | list of nodes; reachability matrix | remove control nodes; erase redundant edges | `remove`, walks |
| copy-fuse, copy-normalize (`src/pod`) | flags per node | fuse adjacent copies of twins; 2D to 1D | `contract` |
| sequence, batch (`src/pod`) | flags, union-find forest | group nodes into the sub-graph of a BATCH node | list surgery of their own; sub-graphs share node objects with the parent |
| prog-fuse, jit (`src/pod`, `src/prog-fuse-llvmir.cc`) | argument buffers, LLVM modules, ownership flags | link chains of programs into one; compile | `contract`, LLVM |
| Dispatcher (`src/cgir.cc`) | cached environment, sequence counter, CSV file | `command_graph_optimize`: dump, measure, run a pass | may run in several threads on different graphs |
| MLIR bridge and passes (`src/mlir`) | a `cg.graph` block per call: operands, attributes, regions | import, one pass as a rewrite of the block (reduce-node, reduce-edge, copy-normalize, copy-fuse, prog-fuse, batch), export to the same node objects | replaces the C++ passes when selected; jit and sequence fall back on `src/pod` |
| Runtime (not in this repository) | | allocators, replay | |

One thread optimizes a graph, and what is hard about the passes is not
concurrency. (Threads meet in the dispatcher only: its counter, its cached
settings, its files.) It is that each pass works on a *live* graph with knowledge it collected *before* its first
edit: the list of nodes to visit, a reachability matrix, flags, marks of earlier
walks. An edit at one node changes what holds at others, every edge is stored
twice and updated by hand on both sides, and nodes that have left the graph
stay around with stale lists. The properties are about those.

What makes each part correct:

* the graph: both lists of every edge agree, no duplicates, acyclic, one source
  and one sink; an edit changes the precedence of no two commands it leaves;
* walks: a walk visits every node of its graph exactly once;
* a pass: no command lost, the order of commands unchanged, termination, and the
  result is what its name says (a transitive reduction, maximal chains, ...);
* sub-graphs: one device, closed, reached from their own entry.

## Modules

| Module | Models |
|---|---|
| `CommandGraph` | The graph as a value and the operations of `command_graph_t` on it, as operators. A list is kept as multiplicities (`successors[u][v]` = how often `v` occurs in `u->successors`); the two directions of an edge are separate state, as in the code, and a count may go wrong (negative, or 2). `Paths` and the judgements `EdgesMirrored`, `SimpleEdges`, `Acyclic`, `Coherent`, `Precedence` are defined here. `members` is a history field. |
| `ReducePasses` | A client that records edges and calls reduce-node and reduce-edge, in any order and repeatedly; each visit of a node and each examined successor is a step. |
| `Schedule` | Abstract: blocks of commands under a strict partial order, which may be merged if no other block can tell them apart, or dropped if they hold no command. |
| `GraphEdit` | A client that calls `remove` and all flavours of `contract` in any order. Implements `Schedule` under the mapping given at its end (a block is the set of recorded nodes a node stands for). |
| `CopyCommand` | A copy as the passes see it: its ranges modulo `2^Width`, what copy-normalize makes of it, when two touch, their union, and the bytes a copy moves. |
| `CopyFuse` | copy-normalize, if the client asks for it, and copy-fuse; the scan that restarts after each fusion; `abort()` on 2D twins. |
| `Walks` | Walk ids and marks: recording, walks of the top graph, creation of sub-graphs over the same nodes, walks of those. |
| `NestedGraph` | BATCH nodes and the precedence under which nested graphs execute. |
| `Sequence` | The pass sequence: the scan, the chains, the boundary surgery. |
| `BatchPass` | The pass batch: flood-fill, folding of twins, materialization, one step per rewired edge, connection of the sub-graphs. |
| `Dispatcher` | `command_graph_optimize` as threads call it: each access to shared state is a step (the cached path and its flag, the counter, the directory, the mutex, `stat`, the append), and a process may end anywhere and another use its files. A graph is the number of passes that ran on it. |
| `FusedProgram` | A program as the passes see it: the form of its entry, its argument slots or bytes, the kernels it calls and where each of their parameters is read from, its symbols, the heap buffers it owns, and the bracket of a device kernel (`__kmpc_target_init` to `_deinit`: none, generic, or SPMD with a launch configuration). Operators for one fusion and one compilation (`src/prog-fuse-llvmir.cc`): deduplication, offsets, packing, reasons to abort. The IR of a kernel is its name; a slot is the address of a value, and the bytes of a value are pairs of the value and an index. |
| `BitMatrix` | The square bit matrix of reduce-edge: rows of words of `Bits` bits. |
| `CgDialect` | The block of a `cg.graph` between import and export: operands as multiplicities, attributes, operations moved into the region of a batch; `import.cpp` and `export.cpp` as operators. |
| `MlirPasses` | The MLIR passes. A client calls for one or two of them; each call imports the graph, runs the pass (each loop body is a step) and exports the block to the node objects the next call reads. |
| `ProgFuse` | The passes prog-fuse and jit on a recorded graph: the scan, the chain of a head, one fusion, the contractions one by one; reduce-node may remove a control node between two calls, so that fused programs are fused again. |
| `CommandGraph_proofs` | Lemmas about graphs, their operations, and copies. |
| `Edits_proofs` | Theorems about `GraphEdit` and `ReducePasses`: edits of the live graph. |
| `Session_proofs` | Theorems about `Walks` and `Dispatcher`: what lasts from one call to the next. |
| `CopyFuse_proofs`, `Sequence_proofs`, `BatchPass_proofs`, `ProgFuse_proofs`, `MlirPasses_proofs` | Theorems about the module each is named after. |
| `MC*` | Definitions for TLC: sets of recordings, symmetry. |

Where a module allows more than the code: a list is visited in any order (the
code uses list order, and a depth-first order for nodes), so that what holds
here holds for every order. In `Sequence` the order of the walk matters; it is
constrained to "after one of its predecessors", which every pre-order satisfies;
so it is in `ProgFuse`.

Definitions introduced by a comment *A mistake* are not the code. Each is a
slip that could be made there; a property of the runs fails when it takes the
place of the definition below it, which shows that the property says something.

The client's side of the contract is a precondition: `Record` records DAGs only,
each edge once, and passes start on coherent graphs (`coherence_checks` asserts
it, and no operation would work otherwise).

## Runs

All with `tlc -workers 2 -config X.cfg MCx`. Deadlock is not checked where a
behaviour ends because the client has nothing left to do or the pass returned.

| Configuration | Instance | Shows |
|---|---|---|
| `ReducePasses` | 3 inner nodes, any types, any DAG reached by recording and optimizing in turns; and 384 graphs of 4 inner nodes around a control node with 1 to 2 predecessors and 2 to 3 successors | lists stay consistent, DAG, coherent; the matrix stays exact; the order of commands is kept; reduce-edge ends with a transitive reduction; no step adds an edge or loses a command. The second family reaches `m*n = 1+m+n`, which the first cannot |
| `GraphEdit` | 4 recorded nodes, 2 of them control, and one spare node object; every DAG on them | every edit keeps the graph well formed and implements `Schedule` |
| `CopyFuse` | two layers of two nodes, three twins, twins below one of two nodes; 4-bit addresses, ranges that touch, overlap, miss by one, are mapped elsewhere, 2D copies, other commands; copy-fuse alone and after copy-normalize | the passes end; a copy that was normalized or fused moves the bytes that were recorded; no recorded false twins are left that are fusible |
| `CopyLost` | the same, 1D copies | **violated**: see below |
| `Walks` | 3 nodes to record, one sub-graph, 2-bit walk ids, 4 walks per graph | walks of the top graph see everything until the id wraps |
| `SubGraphWalks` | 1 walk per graph | **violated** |
| `Sequence` | 4 nodes and every set of edges on them, up to a renaming, that leaves none without a predecessor or a successor; 4 labels | chains are maximal, groupings leave a coherent DAG, all order is kept |
| `BatchPass` | 4 nodes on 2 devices, with control nodes and an earlier batch | the pass ends; quotient, no order lost while the quotient is acyclic, sub-graphs sound, islands maximal: no edge and no twins left between two of them that could be one, and each of two commands or more is a batch |
| `BatchCycle` | the same | **violated** |
| `Dispatcher` | two threads, two passes on one graph and one on the other, every setting; then a second process with one pass on the same CSV file | dumps survive, rows and dumps agree, the numbers are the timeline, one header, every pass returns |
| `ProgFuse` | 3 programs in 14 forms (at most two in a graph), a fourth node that is a control node or another command, 5 shapes, 2 calls of prog-fuse; pointers of 2 bytes, integers of 1, an aggregate of 3; device kernels with brackets alike, unlike, generic or none | order kept, kernels read what was recorded for them, no buffer leaks or dangles, chains maximal; prog-fuse ends the process only at a chain that calls kernels which one call could not have fused either, or that holds a program of an earlier call which is packed, or a device kernel among kernels without brackets, and at the latter two it always does |
| `Mlir` | 4 commands, a control node, 3 objects for batches, rows of two words; every spanning set of edges of a small DAG, commands of two devices, programs of two launch parameters, 1D and 2D copies; two calls of passes one after the other | every call ends; what it exports is coherent, implements `Schedule`, moves the same bytes; batches are sound; reduce-edge leaves no redundant edge |

Bounds. Three inner nodes suffice for a redundant edge through an intermediate
node, a chain of removals and a diamond's side; four for a diamond, a
non-convex island, twins in two layers, and two chains next to each other. The
proofs below remove the bounds for single edits, walks, the reduction passes, the
passes over copies, sequence, batch, the dispatcher and, for most of their
properties, prog-fuse with jit and the MLIR passes. `MaxWalks` and `Bits` are scaled together in `Walks` so that the wrap-around is inside the bound.
In `Mlir` a word has 4 bits and a graph 6 or more nodes, so that a row of the
matrix takes two words; two calls let a pass read what another has exported.
`Width` is 4 bits: the arithmetic is modular and comparisons only see order, so
a handful of addresses shows every relative position of two ranges. In
`ProgFuse` three programs and two calls give every pattern of a fused program
that is first, last or in the middle of another fusion; the sizes keep the
ratio that makes alignment and gaps matter.

Fairness. `CopyFuse` and `BatchPass` assume `WF_vars(Next)`: a pass is a loop in
one thread, which runs on. `Dispatcher` assumes `WF_vars(Step(t))` for every
thread: it keeps running inside a call. The mutex is not assumed to be fair; the
client's calls are bounded, so that a thread cannot be overtaken forever, and
asking for passes and ending the process are not fair. In `MlirPasses` every
step lowers a measure of what is left to do (`PassesEnd`), and the run looks for
deadlocks before the client is done: together they say that every call returns,
without fairness other than that the loop runs on.

## What the runs found

* **copy-fuse loses copies** (`CopyLost`). `node.data.contracted` is read at
  `src/src/pod/copy-fuse.cc:256` and set nowhere. After `u` has absorbed its twin
  `v`, the pass visits `v`, whose own lists still name the predecessors, finds
  `u` among their successors and absorbs it. Neither is in the graph any more. Another
  consequence: their neighbours may become false twins of each other then (`p1`
  leads to both twins and to `z`, `p2` to `z` only), and if the pass has visited those it
  does not look at them again. `FusionComplete` therefore speaks of the nodes that
  were false twins when the pass began, of which it needs the graph as recorded
  (`origin`); without a loss no fusion makes new twins.
* **A sub-graph's walk stops at its entry** (`SubGraphWalks`). The pass sequence
  reuses the chain's nodes, with the marks that walks of the parent left, in a
  graph whose walk id restarts at 0. `test_sequence_device_split` in
  `src/tests/sequence.cc` fails for this reason.
* **batch can make the graph cyclic** (`BatchCycle`). The flood-fill does not ask
  whether an island is convex.

The proof of `OrderNotLost` brought up what the last of these means for the
order of commands. In a cyclic result, two nodes of one island between which a path
led through *another* island have lost that order: they are in one sub-graph, and no
path inside it connects them. `OrderNotLost` therefore speaks of results that are
acyclic; whether they are is `StaysAcyclic`, which `BatchCycle` refutes. A recording
with an edge across a layer is needed to see the difference, and `MCBatchPass` has one.

A departure that a passing run states: **a second call of prog-fuse refuses what the
first would have fused.** `src/src/prog-fuse-llvmir.hpp:36` says "Fusion is composable: a
program that is itself the result of a previous fusion is handled correctly, so arbitrary
chains fuse into one wrapper". A packed program
that an earlier call has fused has no table of parameters, and the call that finds it
in a chain ends the process (`src/src/prog-fuse-llvmir.cc:824`). A fused device kernel
has one bracket left; with kernels that have none there are fewer than the two that
`collapse_device_kernel_brackets` asks for (`src/src/prog-fuse-llvmir.cc:456`), and the call ends
the process at line 1324. One call over the same kernels fuses them. `NotAgain` is
these two cases, and `AbortExplained` says both that prog-fuse always gives up on them and that
whatever else it gives up on could not have been fused in one call either: fusion is
composable but for these.

More departures are modelled but not the subject of a run. `Walks`:
the walk id is an `int8_t`, and the 256th walk of a graph has id 0, the mark of a
new node. It passes over what was recorded since the walk before, although
`src/docs/concepts/command-graphs.md:52` says that walks need no reset.
`TopWalksSeeAll` therefore speaks of the walks before the id wraps.
`Sequence`:
`NODE_IS_SEQABLE` admits control nodes, so that `is_sequence` does not mean what
`src/include/cgir/command-graph.hpp:315` says ("true iff this graph is a linear
chain [...] of PROG commands whose launch mode is TASK_SPAWN"). `Dispatcher`:
`stats_csv_path` caches its path and its flag in two plain statics; a thread that
sees the flag first (action `Cache`) takes the statistics to be off, and its pass
has no row. `RowTiedToDumps` therefore speaks of calls that found the path. `FusedProgram`: task bodies and
everything jit compiles are recognized by their *signature*, though
`src/include/cgir/prog-source.h:73` has a field "so the fuse/jit passes know how
it consumes its arguments". A kernel with one pointer parameter looks like one
over an argument array and is handed the array in place of its pointer; one with a
pointer and an integer looks like a packed body. `Shape` and `Misread` model it,
the forms `pointer`, `body` and `bare` of the instance show it, and `BindingsKept` leaves
those kernels out exactly where the signature decides. (In a direct launch
prog-fuse itself does not look at it; such kernels are covered once they are
fused.)

`MlirPasses`: `materialize_batch` leaves a user of two members with two operands
for the one batch (`src/include/cgir/command-graph.hpp:685`: "a node should never
appear more than once in these lists"), and the export writes both edges.
reduce-edge then erases one of two redundant occurrences, prog-fuse finds more
than one use where there is one successor, and reduce-node counts a neighbour
twice. `WellFormed` of the module admits duplicates out of batches and nothing
else. The batches of an earlier call are candidates like other commands, where
`src/docs/concepts/optimization-passes.md` calls those of sequence "opaque
boundaries to `batch`". A group that found no neighbour is not looked at again
when its neighbours have grown, so that groups need not be maximal, and no
property claims it. Fusing copies is free of the fault above: the fused copies are
remembered (`dead`), and 2D copies are left alone.

`ProgFuse` has preconditions. jit comes last, as in the canonical order of
`src/docs/concepts/optimization-passes.md:99`: jit turns the slots of a packed
body into bytes and leaves its table, and prog-fuse would read the bytes as slots.
A device kernel has a grid and a host program has none: launch parameters name no
device, so that a host program with a device kernel's grid would chain with it.
And recorded programs own no buffers. `ProgramsAssumption` states what else the
programs must be for their arguments to be kept: a pointer has a size; each slot has a
kind and a size; the captures of a packed body do not overlap, their offsets being
"the producer's (compiler's) natural-aligned layout" (`src/include/cgir/prog-source.h:99`);
and a program that is spawned as a task, "in the current thread's team"
(`src/include/cgir/command.hpp:74`), is none of a device. TLC evaluates it, as the others, on the
recordings of the instance, which hold programs of every form.

## Theorems

`Edits_proofs` proves of `ReducePasses`, for every finite set of nodes,

* `TypeCorrect`, `GraphStaysDag`, `PassesStayCoherent`, `MatrixNeverStale`: the
  invariants of the run `ReducePasses`;
* `PassesKeepOrder`: `Spec => OrderKept`;
* `PassesLowerComplexity`: `Spec => ComplexityFalls`. The size of a list is a sum of
  its multiplicities (`SumOfOnes`); removing a node with `m` predecessors and `n`
  successors takes `m + n` edges out and puts at most `m * n` in (`RemoveCounts`);
* `ReduceEdgeComplete`: `Spec => EdgesReduced`.

The assumptions are those of `NodeAssumption` (finitely many nodes, entry and
exit distinct). The inductive invariant `IInv` adds to the checked invariants
that the nodes still to visit are reachable members, that the successors still
to examine are successors of the current node (`Locals`), and that the edges
already examined and kept are not redundant (`Examined`). `Locals` is needed
because a pass decides on the live graph about nodes listed before; `Examined`
because completeness speaks of the end of the loop only.

The argument rests on what `CommandGraph_proofs` shows of the operations: in a
DAG, removing a node with bridging leaves the paths between the others as they
were (`RemovePaths`), and so does erasing an edge `u -> v` when another successor
of `u` reaches `v` (`ErasePaths`); acyclicity and coherence follow. `Paths` is
defined without recursion: `a` reaches `b` unless a set closed under successors
contains `a` and not `b`. A proof of reachability is then a proof about one such
set, and needs no induction.

`Session_proofs` proves of `Dispatcher`, for every set of threads and passes and any number of
processes in sequence,

* `TypeCorrect`: besides the types, every number in use is below the counter;
* `HeaderWrittenOnce`: `HeaderFirst`, by mutual exclusion (`Exclusion`): what a
  thread concluded about the header still holds when it appends;
* `DumpsNeverClobbered`: `DumpsSurvive`, from `NumbersUnique` (two calls that need
  a number have different ones) and `Pictures` (what each call has dumped so far
  is on disk and shows its graph).

`Edits_proofs` proves of `GraphEdit`, for every finite set of nodes and every set of
DAGs the client may record,

* `EditsWellFormed`: `EditWellFormed`;
* `EditsImplementSchedule`: the refinement `Spec => EditsSchedule`.

The inductive invariant adds to `EditWellFormed` that entry and exit stay in the graph
(`EndsKept`; neither is an operand) and that what two members stand for is disjoint
and not empty (`Shares`), without which a block would not determine its node.
`CommandGraph_proofs` reduces the flavours of `contract` to one notion: each is shown,
list by list, to leave the `Quotient` of the graph by its operands. Paths are then
a matter of closed sets: the image of a closed set is closed (`ImageClosed`), because
twins have the same successors and the first of a sequence has no other, so that
the quotient makes up no path (`PathsOfQuotient`); it loses none
(`PathsInQuotient`). Acyclicity, coherence and the order of blocks follow.
A removed node need not be reachable from the entry; `RemoveKeepsCoherent` treats the
two cases apart.

`Session_proofs` proves of `Walks`, for any number of nodes, graphs and walks and any width of
the walk id,

* `WalksTypeCorrect`: `WalksTypeOK`, the ranges of ids and marks, and nodes seen are nodes;
* `WalksSeeAll`: `TopWalksSeeAll`.

A walk may leave out a node when another graph's walk has left the mark it is
about to use. The invariant excludes it: nodes of the top graph and chains that
have become sub-graphs share no edge (`Apart`), and no node of the top graph
bears a mark that its walk id has yet to reach (`Marked`). That every
node reachable from the root is seen needs `Passed` (the successors of a node that was
seen were seen or are about to be followed) and a rank that grows along the edges
(`Ranked`: what is recorded is acyclic). The prover knows nothing of
powers, so `WalksAssumption` states that `2 ^ Bits` is a positive number, and
`WidthAssumption` that `2 ^ Width` is at least 2.

`Session_proofs` also proves of `Dispatcher`

* `RowsTiedToDumps`: `RowTiedToDumps`, from `RowsTied`: no row of the file has a number
  that is still to be drawn (`RowsPast`), a thread that has not appended yet has no
  row and one that has has exactly one, with its own graph before and after
  (`Measured`), and a call in the history keeps the row it left with (`LogTied`);
* `DumpsInOrder`: `Timeline`, from `Ordered`: a thread's earlier calls drew smaller
  numbers than the one it holds.

`BatchPass_proofs` proves, for every recorded graph and every labelling of it,

* `BatchIsQuotient`, `BatchKeepsOrder`, `BatchesAreSound`, `IslandsAreMaximal`: the
  four invariants of the run `BatchPass`.

They follow from one inductive invariant. While islands grow they partition what was
listed, no flood edge crosses one and all nodes of one are candidates of one device
(`Islands`); from the materialization on, the BATCH nodes in use match the islands
that are grouped (`Nested`). The fold ends when every island is what folding its twins into it gives, so
that no two are twins then (`SettledTwins`, `NoTwins`). They stay so, although the rewiring
moves edges: twins are judged by the recording, which it leaves alone
(`TwinsOfRecording`, `SettledForGood`). The rewiring reads and changes the same lists, edge by
edge, so that `Rewired` says for *every* pair of nodes what is listed in the middle of
it: a recorded edge that is still to be moved or never will be (`Kept`), or one
that earlier steps have added (`Added`). When nothing is left to move, that is the
quotient. Order is kept because a path of the recorded graph maps to a path between
representatives; and two nodes of one island are connected inside it, because a path
that left the island would close a cycle in the quotient.

`CopyFuse_proofs` proves, for every recorded graph, all copies that fit into the
address space and machine words of any width,

* `CopyPassesExact`: `CopiesExact`;
* `CopyPassesWellFormed`: `WellFormed`;
* `TwinsFused`: `FusionComplete`.

The first is arithmetic modulo `2^Width`: strides may be reduced to bytes before they are
multiplied (`Strides`), the columns of a copy without gaps are one range
(`Columns`), and two ranges that touch and whose biases agree modulo `2^Width` are
equally far from their destinations, because otherwise one would wrap around
(`SameDistance`). It rests on `CopiesAssumption`: as many bytes as a copy moves fit between the
addresses it starts at and the last one (`Fits`), which copy-normalize preserves. The
lemmas on copies are in `CommandGraph_proofs`, because the MLIR passes use them too. The second needs `HalfListed`. A node that has been contracted away keeps
its lists, some entries of which name members, and copy-fuse scans from such a node; but
an edge that is listed on *both* its sides joins two members, and a sibling is only
found over such an edge. So every operand that is taken out of the graph is in it, and its
neighbours list it. The third needs `Settled`: a node whose scan has ended is fusible
with none of its twins but the one being scanned, which may have grown.

`Sequence_proofs` proves, for every recorded graph,

* `GroupingsStayCoherent`: `StaysCoherent`; `GroupingsKeepOrder`: `OrderKept`;
* `ChainsAreMaximal`: `ChainsMaximal`.

The list surgery of `detach_boundary` is shown to leave the graph with a *segment*
collapsed into one node (`DetachCollapses`): a totally ordered set of nodes that is
entered at its first and left at its last. Collapsing a segment keeps all paths of
the others (`PathsInCollapsed`, `PathsOfCollapsed`), the acyclicity and the coherence.
`ChainSegment` shows that the chain of a head is one. The invariant
`Order` says that the nesting is well formed and that precedence through it is what was recorded;
`Chains` is about the scan: the two ends of a recorded sequence edge stay
together, and when the scan passes the first, both are marked. So the second is
never taken for a head: one of its predecessors was visited before it, the only one is the
first, and that left it marked. `Chain(u)` is the least set that
holds `u` and the next node of each of its nodes, a definition the prover can
reason about; a loop that appends the next node computes the same.

`ProgFuse_proofs` proves, for every recorded graph and any number of calls of prog-fuse,

* `OrderStaysKept`: `OrderKept`;
* `BuffersSound`: `HeapSound`;
* `ChainsStayMaximal`: `ChainsMaximal`;
* `BindingsStayKept`: `BindingsKept`;
* `AbortsAreExplained`: `AbortExplained`.

They rest on `IInv`: the graph is a coherent DAG behind its entry (`GraphSound`); the
chain that is being contracted is a run of two nodes or more that are still in the
graph (`ChainSound`); of the nodes that were listed, only contracted ones have left
(`VisitSound`); and what a pass takes for LLVM-IR was recorded as such or made of it, a
sequence of calls (`ProgramsSound`). A chain is contracted link by link, and the steps in
between are states too. `Owned` says that a buffer is in the heap exactly if one
program owns it, and stays true inside a contraction and after `abort()`. `Scanned` is to
prog-fuse what `Chains` is to sequence: what the pass has left behind goes on with no
program that is launched alike, and while a chain is contracted that holds for its last
node, whose successors the head is about to inherit. For the order, `OrderInv` splits
the execution: a node executes the kernels of its program one after the other, and
nodes of the graph that are not links of the chain (`Live`) execute in the order of the
paths. `Faithful` relates both to what was recorded. That the calls of a fused
program are those of its links in turn is a fact about recursive functions
(`Chain`, `FlattenSeq`), and proved by the least link for which it would fail.

`BindingsKept` follows from the inductive invariant `Bindings`. Every program in the graph
`IsBound`: it is launched as recorded, every call's kernel was recorded, every symbol is
bound, and either each parameter reads a slot or stretch of bytes that holds the recorded
value (`Holds`) or the signature misleads about the kernel (`Lost`). That alone is not
inductive: jit and a second fusion look at the *form* of a program and
decide by it what its slots mean. Before jit a program is therefore either as the client
recorded it (`OfClient`) or of a form that fusion produces (`OfFusion`); after jit it is
`Settled`, one that no second call takes for another form. The steps are `FusedIsInput`
(a fusion of such programs is one again) and `CompiledIsBound`. Under them are lemmas on
the arguments: what the slots are deduplicated by determines the value (`KeyValue`); each
slot of an input is among the unique ones at the place its reads are moved to
(`PlaceOf`); and slots that are laid out one after the other, each at a rounded offset,
do not overlap (`LayoutOf`), so that every byte of the buffer comes from one slot
(`BufferOf`). These operators are folds of the community modules (`FlattenSeq`, `FoldLeft`);
`FoldStepsExist` gives each the sequence of its intermediate results, from which
`DedupSteps`, `ConcatSteps` and `LayoutSteps` follow.

`AbortExplained` needs two facts about the scan beside `Bindings`. What is still to be visited
is followed in sequence by what is (`Scheduled`: a node with one predecessor is reached
after it), so that a chain holds nothing that this call has fused (`ChainWaits`). And until
it is visited in the first call a program is the client's; later it resembles the kernels
it calls (`Heritage`, `Kin`): it is taken for packed if and only if they are, its bracket is
that of one of them, and it is a client's program or calls several kernels
(`OfMany`). Two slots that clash in type are the client's
in any call, because a fused device kernel keys its slots by type (`TypedKey`). Each
reason to refuse then leads back to the kernels or to a program of an earlier call
(`RefusalHasReason`, and for the brackets `UncollapsibleReason`); a program that calls
several kernels is no client's, so that it has no table. One of the reasons came
up in the proof: a task body of a pointer
and an integer, recorded without a table, is taken for packed and ends the process
(`src/src/prog-fuse-llvmir.cc:824`, whose comment takes each such body for a fused program)
although all inputs are of one form; the form `bare` of the
instance is that body.

`MlirPasses_proofs` proves, for every recorded graph, any sequence of calls and matrix
words and machine words of any width,

* `GraphStaysWellFormed`: `WellFormed`;
* `BatchesStaySound`: `BatchesSound`;
* `EdgesStayReduced`: `EdgesReduced`;
* `BytesStayKept`: `BytesKept`;
* `PassesReturn`: `PassesEnd`;

from `MlirInvariant`, the inductive invariant

* `Labels`: the type of a command never changes, its device only in a new batch;
* `AtRest`: between two calls the lists match, and the graph is a DAG from entry to exit;
* `Running`: during a call, the operations that will be left at its end (`Top`) are such
  a DAG, and no operand of an operation in the block has left it;
* `Holding` and `Subs`: no node is in two places, and a batch is sound from the moment it
  is made (`NewSound`, by its operands) and after it was exported (`OldSound`, by its lists);
* `Groups`: the groups of batch are disjoint, and contracting all of them leaves a DAG;
* `Rows`: the row of an operation in the matrix is empty before the operation was
  visited, and all that it leads to (`After`) afterwards.

Coherence is a statement about paths, which every rewrite would have to follow.
`Framed` replaces it by one about single edges: every node but the entry has a
predecessor and every node but the exit a successor. In a DAG the two are equivalent
(`FramedCoherent`, `CoherentFramed`), and a rewrite disturbs the neighbours of one
operation only. The groups of batch need the order of their growth: when a group absorbs
another, the graph of the groups stays acyclic because twins have the same neighbours
and a sequence no others (the quotient lemmas that `GraphEdit` uses); when groups are
made batches one after the other, the block is acyclic because it is layered over the
graph of the groups (`LayeredAcyclic`). The matrix is exact because an operation is
visited after its users (`RowFilled`); a word and a bit in it determine the index and are
determined by it (`Places`, `Indices`). `EdgesReduced` is inductive with `Rows`: all
redundant edges are erased at once, and a shortest way around each of them stays.
`BytesKept` needs two facts more, `CopiesFit` (no copy leaves the address space,
through normalizing and fusing) and `Controls` (reduce-node visits control nodes only).
`PassesEnd` is arithmetic on the sizes of the finite sets a pass works off; two facts
of the invariant are needed, that a group which is made a batch is not empty, so that
the block does not grow, and that no operation is given up before the pass copy-fuse.

Where a proof needs a first or last node of a DAG (`DagHasSource`,
`DagHasSink`) it takes a minimal element of the sets of nodes reached, by the
library's theorem that strict inclusion of finite sets is well-founded.

Assumptions. `NodeAssumption`: finitely many nodes, entry and exit distinct.
`NestedAssumption`, `RecordingsAssumption` and `MlirAssumption`: what the client records
is a coherent DAG, every node of which the entry reaches (`src/docs/concepts/command-graphs.md:8` and the
`coherence_checks` the passes start with: a unique source and a unique sink). The
others are named beside their constants, and TLC evaluates them on each run.

Not proved, because the prover cannot express it: liveness (`Returns` of `CopyFuse` and
`BatchPass`, `EveryPassReturns` of `Dispatcher`; that a measure which falls, `PassesEnd`, means
termination). Induction over data is out of reach too; where a recursive function
(`SumFunction`, `FoldSet`, `FlattenSeq`, `Chain`) had to be reasoned about, the
proofs take a least counterexample of a set of numbers, or a last element of a finite
DAG. Model-checked only: `RewritesSchedule` of `MlirPasses`, whose refinement mapping
ranges over the nesting of batches and the operations that are about to be erased, so
that each of the passes needs its own lemma about paths across both. `NoCopyLost`, `SubGraphWalksSeeAll` and
`StaysAcyclic` are refuted by runs.

## Not modelled

COMMAND_GRAPH and CONDITION nodes in the MLIR layer: the import ends the process
at either. Linking of programs in the MLIR prog-fuse (the chain is modelled, the
program is `FusedProgram`'s subject). The packed output of unpacked programs
(`CGIR_PROG_FUSE_PACKED`). Generation and linking of LLVM IR, code generation, text output, parsing of the
environment: library or I/O code without state of its own. Execution of graphs
is not in the repository; `Schedule` and `NestedPrecedence` state the order that
any execution follows.

## Plan

1. Done: the graph and its operations, the reduction passes, walks, copy-normalize
   and copy-fuse, sequence, batch, the dispatcher, prog-fuse and jit, the MLIR bridge
   and its passes, with proofs.
2. Packed output of unpacked programs.
3. Proofs: `RewritesSchedule` of `MlirPasses`, for which `EditsImplementSchedule` shows the
   way one pass at a time.
