------------------------------ MODULE ProgFuse ------------------------------
(***************************************************************************)
(* A client optimizes a recorded graph with the passes prog-fuse           *)
(* (src/pod/prog-fuse.cc) and jit (src/pod/jit.cc).  Between two calls a   *)
(* control node may be removed (by reduce-node), so that prog-fuse meets   *)
(* programs it has fused before.                                           *)
(*                                                                         *)
(* Prog-fuse lists the nodes of the graph in a depth-first pre-order, and  *)
(* at each node collects the longest chain of programs that are launched   *)
(* alike, fuses them into the program of the first, and contracts them     *)
(* into it one by one.                                                     *)
(***************************************************************************)
EXTENDS CommandGraph, FusedProgram

CONSTANTS
  Recordings,   \* what the client may have recorded: edges, programs, control nodes
  MaxPasses     \* bound of this model: calls of prog-fuse

VARIABLES
  g,          \* the command graph
  prog,       \* the program of each node
  recorded,   \* history: the programs, the commands and their order as recorded
  pc,         \* "idle", the pass that is running, or "aborted"
  visit,      \* the nodes the pass has not visited yet
  contracted, \* prog-fuse: the nodes flagged as contracted
  chain,      \* prog-fuse: the chain that is being contracted into its first node
  heap,       \* the heap buffers that are allocated
  serial,     \* how many were allocated so far
  passes,     \* history: how often prog-fuse was called
  jitted      \* history: jit was called

vars == <<g, prog, recorded, pc, visit, contracted, chain, heap, serial, passes, jitted>>

(* A program starts out with one call, of its own kernel, and owns nothing. *)
ASSUME RecordingsAssumption ==
  /\ MaxPasses \in Nat
  /\ \A r \in Recordings :
       LET G == Recorded([u \in Node |-> "COMMAND"], Inner, r.edges)
       IN  /\ r.edges \subseteq Node \X Node
           /\ r.control \subseteq Inner /\ DOMAIN r.prog = Inner
           /\ Acyclic(G) /\ Coherent(G) /\ After(G, entry) = Node
           /\ \A u \in Inner :
                LET p == r.prog[u]
                IN  /\ DOMAIN p = Fields
                    /\ p.target \in {"host", "device"}
                    /\ p.owned = {} /\ p.bytes = <<>>
                    /\ p.entry = "buffer" => p.table /\ p.mode = "task"
                    /\ p.source = "LLVMIR" =>
                         p.calls = <<[kernel |-> u, reads |-> [j \in DOMAIN p.slots |-> j]]>>

(* The slots of a program are described.  The captures of a packed body do *)
(* not overlap.  A task runs on the host, and the grid tells device kernels *)
(* from host programs (README).                                             *)
ASSUME ProgramsAssumption ==
  /\ Pointer \in Nat \ {0}
  /\ \A r \in Recordings : \A u \in Inner :
       LET p == r.prog[u]
           s == p.slots
           Behind(j, k) == s[j].offset + Size(s[j]) <= s[k].offset
       IN  p.source = "LLVMIR" =>
             /\ s \in Seq({s[j] : j \in DOMAIN s})
             /\ \A j \in DOMAIN s : s[j].kind \in {"ref", "copy"} /\ s[j].size \in Nat
             /\ p.entry = "buffer" =>
                  /\ \A j \in DOMAIN s : s[j].offset \in Nat
                  /\ \A j, k \in DOMAIN s : j # k => Behind(j, k) \/ Behind(k, j)
             /\ p.target = "device" => p.mode # "task"
             /\ \A w \in Inner :
                  LET q == r.prog[w]
                  IN  q.source = "LLVMIR" /\ <<q.mode, q.grid>> = <<p.mode, p.grid>> => q.target = p.target

Commands(G) == {u \in Inner \cap G.members : G.type[u] = "COMMAND"}

Init ==
  /\ \E r \in Recordings :
       /\ g = Recorded([u \in Node |-> IF u \in Inner \ r.control THEN "COMMAND" ELSE "EMPTY"],
                       Inner, r.edges)
       /\ prog = r.prog
  /\ recorded = [prog |-> prog, commands |-> Commands(g), order |-> Precedence(g, Commands(g))]
  /\ pc = "idle"
  /\ visit = {} /\ contracted = {} /\ chain = <<>>
  /\ heap = {} /\ serial = 0
  /\ passes = 0 /\ jitted = FALSE

-----------------------------------------------------------------------------
(* Inner nodes of the graph, as a walk lists them. *)
Listed == After(g, entry) \ {entry, exit}

IsLLVMIR(u) == u \in Inner /\ g.type[u] = "COMMAND" /\ prog[u].source = "LLVMIR"

LaunchParamsEqual(u, w) == prog[u].mode = prog[w].mode /\ prog[u].grid = prog[w].grid

(* A mistake: w may have other predecessors. *)
ContinuesForward(u, v, w) ==
  AreSequenceForward(g, v, w) /\ IsLLVMIR(w) /\ LaunchParamsEqual(u, w)

(* The node w continues a chain that starts at u and has come to v. *)
Continues(u, v, w) == AreSequence(g, v, w) /\ IsLLVMIR(w) /\ LaunchParamsEqual(u, w)

(* A mistake: a chain is at most a pair. *)
PairOf(u) ==
  IF \E w \in Inner : Continues(u, u, w)
  THEN <<u, CHOOSE w \in Inner : Continues(u, u, w)>> ELSE <<u>>

Chain(u) ==
  LET from[v \in Inner \cap g.members] ==
        IF \E w \in Inner : Continues(u, v, w)
        THEN <<v>> \o from[CHOOSE w \in Inner : Continues(u, v, w)]
        ELSE <<v>>
  IN  from[u]

IsHead(u) == u \notin contracted /\ IsLLVMIR(u) /\ Len(Chain(u)) > 1

Programs(c) == [k \in DOMAIN c |-> prog[c[k]]]

StartProgFuse ==
  /\ pc = "idle"
  /\ passes < MaxPasses
  /\ ~jitted    \* the client asks for jit last: the canonical order
  /\ pc' = "prog-fuse"
  /\ visit' = Listed
  /\ contracted' = {}
  /\ passes' = passes + 1
  /\ UNCHANGED <<g, prog, recorded, chain, heap, serial, jitted>>

(* A mistake: the nodes are visited in any order. *)
ReachedAnyhow(u) == u \in visit

(* The walk that listed the nodes came to u from one of its predecessors. *)
Reached(u) == u \in visit /\ \E p \in Preds(g, u) : p \notin visit

Pass(u) ==
  /\ pc = "prog-fuse" /\ chain = <<>>
  /\ Reached(u) /\ ~IsHead(u)
  /\ visit' = visit \ {u}
  /\ UNCHANGED <<g, prog, recorded, pc, contracted, chain, heap, serial, passes, jitted>>

Abort(u) ==
  /\ pc = "prog-fuse" /\ chain = <<>>
  /\ Reached(u) /\ IsHead(u)
  /\ Refused(Programs(Chain(u)))
  /\ pc' = "aborted"
  /\ UNCHANGED <<g, prog, recorded, visit, contracted, chain, heap, serial, passes, jitted>>

-----------------------------------------------------------------------------
(* The heap buffers that these nodes own. *)
OwnedBy(S) == UNION {prog[u].owned : u \in S}

(* A mistake: the inputs keep the buffers they own. *)
InputsKept(c, fused) == [prog EXCEPT ![c[1]] = fused]

(* The first program of the chain is replaced; the others give up the       *)
(* buffers they own, and the IR that was in one of them. *)
Inputs(c, fused) ==
  LET inputs == {c[k] : k \in 2 .. Len(c)}
      Released(p) == [p EXCEPT !.owned = {}, !.source = IF p.owned = {} THEN @ ELSE "none"]
  IN  [u \in Inner |-> IF u = c[1] THEN fused
                       ELSE IF u \in inputs THEN Released(prog[u]) ELSE prog[u]]

(* command_graph_prog_fuse_llvmir allocates buffers for the IR, for the    *)
(* arguments, and for the symbols if there are any, and releases those of  *)
(* its inputs. *)
Fuse(u) ==
  /\ pc = "prog-fuse" /\ chain = <<>>
  /\ Reached(u) /\ IsHead(u)
  /\ ~Refused(Programs(Chain(u)))
  /\ LET members == Chain(u)
         own == {<<serial, part>> : part \in {"raw", "args"} \cup
                   (IF Externs(Programs(members)) = {} THEN {} ELSE {"externs"})}
     IN  /\ prog' = Inputs(members, Fused(Programs(members), own))
         /\ heap' = (heap \ OwnedBy({members[k] : k \in DOMAIN members})) \cup own
         /\ chain' = members
  /\ serial' = serial + 1
  /\ visit' = visit \ {u}
  /\ UNCHANGED <<g, recorded, pc, contracted, passes, jitted>>

(* contract<U_V_SEQUENCE | INPLACE>, one node of the chain after the other. *)
Contract ==
  /\ Len(chain) > 1
  /\ g' = ContractUV(g, chain[1], chain[2])
  /\ contracted' = contracted \cup {chain[2]}
  /\ chain' = IF Len(chain) = 2 THEN <<>> ELSE <<chain[1]>> \o SubSeq(chain, 3, Len(chain))
  /\ UNCHANGED <<prog, recorded, pc, visit, heap, serial, passes, jitted>>

Return ==
  /\ pc \in {"prog-fuse", "jit"} /\ chain = <<>>
  /\ visit = {}
  /\ pc' = "idle"
  /\ UNCHANGED <<g, prog, recorded, visit, contracted, chain, heap, serial, passes, jitted>>

-----------------------------------------------------------------------------
(* reduce-node removes a control node. *)
RemoveControl(u) ==
  /\ pc = "idle"
  /\ u \in Inner \cap g.members /\ g.type[u] = "EMPTY"
  /\ g' = Remove(g, u)
  /\ UNCHANGED <<prog, recorded, pc, visit, contracted, chain, heap, serial, passes, jitted>>

StartJit ==
  /\ pc = "idle"
  /\ pc' = "jit"
  /\ visit' = Listed
  /\ jitted' = TRUE
  /\ UNCHANGED <<g, prog, recorded, contracted, chain, heap, serial, passes>>

(* The node has no IR, or IR whose entry is not visible outside.  Prog-fuse *)
(* makes an entry that is.                                                  *)
SkipJit(u) ==
  /\ pc = "jit"
  /\ Reached(u)
  /\ IsLLVMIR(u) => Len(prog[u].calls) = 1
  /\ visit' = visit \ {u}
  /\ UNCHANGED <<g, prog, recorded, pc, contracted, chain, heap, serial, passes, jitted>>

(* A buffer that is replaced is freed if the program owns it. *)
Compile(u) ==
  /\ pc = "jit"
  /\ Reached(u) /\ IsLLVMIR(u)
  /\ LET p == prog[u]
         new == IF p.target = "device" THEN {<<serial, "raw">>}
                ELSE IF Unbuffered(p) THEN {<<serial, "args">>} ELSE {}
         old == {b \in p.owned : \E n \in new : b[2] = n[2]}
     IN  /\ prog' = [prog EXCEPT ![u] = Compiled(p, (p.owned \ old) \cup new)]
         /\ heap' = (heap \ old) \cup new
         /\ serial' = IF new = {} THEN serial ELSE serial + 1
  /\ visit' = visit \ {u}
  /\ UNCHANGED <<g, recorded, pc, contracted, chain, passes, jitted>>

Next ==
  \/ StartProgFuse \/ Contract \/ Return \/ StartJit
  \/ \E u \in Inner : Pass(u) \/ Abort(u) \/ Fuse(u) \/ RemoveControl(u) \/ SkipJit(u) \/ Compile(u)

Spec == Init /\ [][Next]_vars

-----------------------------------------------------------------------------
(* Between two steps of a contraction, and after abort(), the graph is half *)
(* done.                                                                    *)
AtRest == chain = <<>> /\ pc # "aborted"

(* The state is well-formed; the rest of a chain that is being contracted   *)
(* is still a sequence.                                                     *)
TypeOK ==
  /\ g \in Graphs
  /\ DOMAIN prog = Inner
  /\ pc \in {"idle", "prog-fuse", "jit", "aborted"}
  /\ visit \subseteq Inner /\ contracted \subseteq Inner
  /\ heap \subseteq (0 .. serial - 1) \X {"raw", "args", "externs"}
  /\ \A k \in 1 .. Len(chain) - 1 : AreSequence(g, chain[k], chain[k + 1])
  /\ passes \in 0 .. MaxPasses /\ jitted \in BOOLEAN

(* What a command executes, in order: the kernels its program calls, or     *)
(* itself if it has none.                                                   *)
Executed(u) ==
  IF recorded.prog[u].source = "LLVMIR"
  THEN [c \in DOMAIN prog[u].calls |-> prog[u].calls[c].kernel] ELSE <<u>>

(* command_graph_t::pass_prog_fuse: every recorded command is executed once, *)
(* and it is ordered after exactly those it was recorded after, whether they *)
(* are now in one program or not.                                            *)
OrderKept ==
  AtRest =>
    LET P == Paths(g)
        Occurrences == UNION {{<<u, i>> : i \in DOMAIN Executed(u)} : u \in Commands(g)}
        What(o) == Executed(o[1])[o[2]]
        Before(o, q) == IF o[1] = q[1] THEN o[2] < q[2] ELSE <<o[1], q[1]>> \in P
    IN  /\ {What(o) : o \in Occurrences} = recorded.commands
        /\ \A o, q \in Occurrences : What(o) = What(q) => o = q
        /\ \A o, q \in Occurrences : Before(o, q) <=> <<What(o), What(q)>> \in recorded.order

(* command_graph_prog_fuse_llvmir and command_graph_jit_llvmir: whatever is  *)
(* deduplicated, packed, sliced or fused again, each kernel is launched as   *)
(* it was recorded, its symbols are bound, and every parameter it has is     *)
(* given the bytes of the value that was recorded for it.  A kernel over     *)
(* values whose signature is that of another form (README) is left out       *)
(* where the signature decides: in task bodies, and when jit meets it alone. *)
BindingsKept ==
  AtRest =>
    \A u \in Commands(g) : recorded.prog[u].source = "LLVMIR" =>
      \A c \in DOMAIN prog[u].calls :
        LET p == prog[u]
            call == p.calls[c]
            was == recorded.prog[call.kernel]
            mistaken == Shape(was) # was.entry /\ (was.mode = "task" \/ Len(p.calls) = 1)
        IN  /\ <<p.mode, p.grid, p.target>> = <<was.mode, was.grid, was.target>>
            /\ was.externs \subseteq p.externs
            /\ DOMAIN call.reads = DOMAIN was.slots
            /\ ~mistaken => \A j \in DOMAIN was.slots :
                 Given(p, call.reads[j], Size(was.slots[j]))
                   = [b \in 0 .. Size(was.slots[j]) - 1 |-> <<Value[was.slots[j].addr], b>>]

(* The frees of command_graph_prog_fuse_llvmir and command_graph_jit_llvmir: *)
(* an allocated buffer belongs to one program, and a program refers to no    *)
(* buffer that was freed: nothing leaks, dangles or is freed twice.          *)
HeapSound ==
  /\ TypeOK
  /\ AtRest =>
       /\ OwnedBy(Inner) = heap
       /\ \A u, v \in Inner : u # v => prog[u].owned \cap prog[v].owned = {}

(* command_graph_t::pass_prog_fuse: "maximal chains": when it returns there  *)
(* is no sequence of two programs left that are launched alike.              *)
ChainsMaximal ==
  [][pc = "prog-fuse" /\ pc' = "idle" =>
       \A u, w \in Inner \cap g.members : ~(IsLLVMIR(u) /\ Continues(u, u, w))]_vars

(* The kernels that the programs of a chain call. *)
Called(c) == UNION {{prog[c[k]].calls[i].kernel : i \in DOMAIN prog[c[k]].calls} : k \in DOMAIN c}

(* Kernels that cannot be fused as they were recorded: packed with others,  *)
(* taken for packed without a table, with a slot of two types, or on the    *)
(* device with fewer than two brackets or with brackets that differ.        *)
Unfusable(K) ==
  LET was == recorded.prog
      Takes(u, form) == Entry(was[u]) = form
      bracketed == {u \in K : was[u].bracket # "none"}
  IN  \/ \E u, v \in K : Takes(u, "buffer") /\ ~Takes(v, "buffer")
      \/ \E u \in K : Takes(u, "buffer") /\ ~was[u].table
      \/ \E u, v \in K : TypesClash(<<was[u], was[v]>>)
      \/ /\ \E u \in K : was[u].target = "device"
         /\ \/ \A u, v \in bracketed : u = v
            \/ \E u, v \in bracketed : was[u].bracket # was[v].bracket \/ was[u].bracket = "generic"

(* The chain of u is the next one to be fused. *)
NextChain(u) == pc = "prog-fuse" /\ chain = <<>> /\ Reached(u) /\ IsHead(u)

(* A chain with a program of an earlier call that is packed, or that is the *)
(* only one with a bracket.                                                 *)
NotAgain(chained) ==
  \E k \in DOMAIN chained :
    LET p == prog[chained[k]]
    IN  /\ Len(p.calls) > 1
        /\ \/ p.entry = "buffer"
           \/ /\ p.target = "device"
              /\ \A j \in DOMAIN chained : j # k => prog[chained[j]].bracket = "none"

(***************************************************************************)
(* abort() in command_graph_prog_fuse_llvmir ends the client's process.    *)
(* A chain never holds what the same call has fused itself.  If it is      *)
(* refused, the kernels it calls could not have been fused in one call     *)
(* either, or it holds a program that cannot be fused again.  Such a       *)
(* program is always refused: a fusion is an input of a later one unless   *)
(* it is packed or it alone has a bracket, and not "arbitrary chains fuse  *)
(* into one wrapper" (src/prog-fuse-llvmir.hpp).                           *)
(***************************************************************************)
AbortExplained ==
  \A u \in Inner : NextChain(u) =>
    LET chained == Chain(u)
    IN  /\ \A k \in DOMAIN chained : chained[k] \in visit
        /\ passes = 1 => \A k \in DOMAIN chained : Len(prog[chained[k]].calls) = 1
        /\ Refused(Programs(chained)) => Unfusable(Called(chained)) \/ NotAgain(chained)
        /\ NotAgain(chained) => Refused(Programs(chained))
=============================================================================
