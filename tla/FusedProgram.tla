---------------------------- MODULE FusedProgram ----------------------------
(***************************************************************************)
(* Programs and what prog-fuse and jit make of them                        *)
(* (src/prog-fuse-llvmir.cc): the entry a program has, the slots of its    *)
(* argument buffer, the buffers it owns, and where each of the kernels     *)
(* linked into it reads its arguments.  The IR of a kernel is its name.    *)
(*                                                                         *)
(* A slot is the address of a value in the client's memory; recorded       *)
(* values do not change (the taskgraph is frozen).                         *)
(***************************************************************************)
EXTENDS Integers, Sequences

Seqs == INSTANCE SequencesExt

CONSTANTS
  Value,    \* address -> the value the client stored there
  Pointer   \* sizeof(void *)

(***************************************************************************)
(* The fields of a program p:                                              *)
(*   source   "LLVMIR", "PTX", or "none" if there is no IR;                *)
(*   entry    "values": a kernel with one parameter per captured value;    *)
(*            "pointers": it takes an array of pointers to values;         *)
(*            "buffer": it takes a packed buffer of values and its size;   *)
(*   table    are the parameters described one by one;                     *)
(*   mode, grid, target   how and where it is launched;                    *)
(*   bracket  of a device kernel, the call of __kmpc_target_init at its    *)
(*            start: its launch configuration, "generic" if it is not of   *)
(*            the SPMD pattern, "none" if there is none;                   *)
(*   slots    the argument array, if args is one;                          *)
(*   bytes    the bytes of args, if it is a packed buffer, else empty;     *)
(*   calls    the kernels it calls, with the slot or the offset each of    *)
(*            their parameters is read from;                               *)
(*   externs  the symbols that will be bound to objects of the process;    *)
(*   owned    the heap buffers it owns.                                    *)
(* A slot has an address, the type and size of the value there, and is     *)
(* passed by reference or by copy; a packed body also has it at an offset. *)
(***************************************************************************)
Fields == {"source", "entry", "table", "mode", "grid", "target", "bracket", "slots", "bytes",
           "calls", "externs", "owned"}

Size(s) == IF s.kind = "ref" THEN Pointer ELSE s.size
Align(s) == IF s.kind = "ref" THEN Pointer ELSE 1

(* The entry is told by its signature: one pointer is an array of pointers, *)
(* a pointer and an integer are a buffer and its size.                      *)
Shape(p) ==
  LET types == [j \in DOMAIN p.slots |-> p.slots[j].type]
  IN  CASE p.entry = "values" /\ types = <<"ptr">> -> "pointers"
        [] p.entry = "values" /\ types = <<"ptr", "int">> -> "buffer"
        [] OTHER -> p.entry

(* What prog-fuse takes a program for: of a task it looks at the signature, *)
(* else it knows the entry by its name.                                     *)
Entry(p) == IF p.mode = "task" THEN Shape(p) ELSE p.entry

Nowhere == -1

(* A kernel that is not what it was taken for is not given its values: its  *)
(* parameters read from nowhere.                                            *)
Misread(calls) ==
  [c \in DOMAIN calls |-> [calls[c] EXCEPT !.reads = [j \in DOMAIN calls[c].reads |-> Nowhere]]]

(* A task body with typed parameters, and a device kernel, have storage of  *)
(* their own for every slot: equal values are then the same argument.       *)
ByValue(p) == (p.mode = "task" /\ Entry(p) = "values") \/ p.target = "device"

(* What makes two slots one.  An input over pointers keeps its own block.   *)
Key(ps, i, j) ==
  LET s == ps[i].slots[j]
      slice == Entry(ps[i]) = "pointers"
  IN  CASE slice -> <<"slice", i, j>>
        [] ~slice /\ ps[i].table -> <<s.kind, Size(s), Value[s.addr]>>
        [] ~slice /\ ~ps[i].table /\ ByValue(ps[i]) -> <<"value", s.type, Value[s.addr]>>
        [] OTHER -> <<"address", s.addr>>

Incoming(ps) ==
  Seqs!FlattenSeq([i \in DOMAIN ps |->
    [j \in DOMAIN ps[i].slots |-> [key |-> Key(ps, i, j), slot |-> ps[i].slots[j],
                                   input |-> i]]])

(* The deduplicated slots, in the order of their first occurrence. *)
Unique(ps) ==
  Seqs!FoldLeft(LAMBDA us, x : IF \E k \in DOMAIN us : us[k].key = x.key THEN us ELSE Append(us, x),
                <<>>, Incoming(ps))

(* A mistake: an input over pointers is handed the whole array. *)
PlaceOfFirst(ps, i, j) ==
  LET us == Unique(ps)
  IN  IF Entry(ps[i]) = "pointers" THEN j
      ELSE CHOOSE k \in DOMAIN us : us[k].key = Key(ps, i, j)

(* The slot of the fused program that input i knows as its slot j: in a     *)
(* slice of the array if it takes pointers, else where it was mapped to.    *)
Place(ps, i, j) ==
  LET us == Unique(ps)
  IN  IF Entry(ps[i]) = "pointers" THEN Len(Unique(SubSeq(ps, 1, i - 1))) + j
      ELSE CHOOSE k \in DOMAIN us : us[k].key = Key(ps, i, j)

-----------------------------------------------------------------------------
(* Why a fusion is given up: abort(). *)
Packed(ps) == \E i \in DOMAIN ps : Entry(ps[i]) = "buffer"
Untabled(ps) == \E i \in DOMAIN ps : Entry(ps[i]) = "buffer" /\ ~ps[i].table
Mixed(ps) == Packed(ps) /\ \E i \in DOMAIN ps : Entry(ps[i]) # "buffer"
OffDevice(ps) == ps[1].target = "device" /\ \E i \in DOMAIN ps : ps[i].target = "host"
TypesClash(ps) ==
  LET leaves == {i \in DOMAIN ps : Entry(ps[i]) = "values"}
  IN  \E i, k \in leaves : \E j \in DOMAIN ps[i].slots, l \in DOMAIN ps[k].slots :
        Key(ps, i, j) = Key(ps, k, l) /\ ps[i].slots[j].type # ps[k].slots[l].type

(* The fused device kernel has one bracket, the first of those inlined into *)
(* it, for which they must be at least two, alike and SPMD.                 *)
Bracketed(ps) == {i \in DOMAIN ps : ps[i].bracket # "none"}

(* A mistake: every program must have a bracket. *)
BracketMissing(ps) ==
  /\ ps[1].target = "device"
  /\ \/ Bracketed(ps) # DOMAIN ps
     \/ \E i, k \in Bracketed(ps) : ps[i].bracket # ps[k].bracket \/ ps[i].bracket = "generic"

Uncollapsible(ps) ==
  /\ ps[1].target = "device"
  /\ \/ \A i, k \in Bracketed(ps) : i = k
     \/ \E i, k \in Bracketed(ps) : ps[i].bracket # ps[k].bracket \/ ps[i].bracket = "generic"

Refused(ps) == Untabled(ps) \/ Mixed(ps) \/ OffDevice(ps) \/ TypesClash(ps) \/ Uncollapsible(ps)

Collapsed(ps) ==
  IF ps[1].target = "device" THEN ps[CHOOSE i \in Bracketed(ps) : TRUE].bracket ELSE ps[1].bracket

-----------------------------------------------------------------------------
RoundUp(n, a) == ((n + a - 1) \div a) * a

(* Where the slots go in a packed buffer. *)
Layout(slots) ==
  Seqs!FoldLeft(LAMBDA l, s : LET at == RoundUp(l.size, Align(s))
                              IN  [offsets |-> Append(l.offsets, at), size |-> at + Size(s)],
                [offsets |-> <<>>, size |-> 0], slots)

(* The buffer after the slots were copied there one after the other. *)
Buffer(slots, offsets, size) ==
  LET Covering(o) == {k \in DOMAIN slots : offsets[k] <= o /\ o < offsets[k] + Size(slots[k])}
  IN  [o \in 0 .. size - 1 |->
         IF Covering(o) = {} THEN <<"zero", 0>>
         ELSE <<Value[slots[Seqs!Max(Covering(o))].addr], o - offsets[Seqs!Max(Covering(o))]>>]

-----------------------------------------------------------------------------
Externs(ps) == UNION {ps[i].externs : i \in DOMAIN ps}

(* The calls of all inputs in order; slot k is then read from at[k]. *)
Calls(ps, at) ==
  LET Moved(i) == [c \in DOMAIN ps[i].calls |-> [ps[i].calls[c] EXCEPT
                    !.reads = [j \in DOMAIN @ |-> IF @[j] = Nowhere THEN Nowhere
                                                   ELSE at[Place(ps, i, @[j])]]]]
  IN  Seqs!FlattenSeq([i \in DOMAIN ps |->
        IF Entry(ps[i]) = ps[i].entry THEN Moved(i) ELSE Misread(ps[i].calls)])

(***************************************************************************)
(* The fusion of a sequence of programs, which is not Refused.  It is a    *)
(* device kernel, a program over a packed buffer if its inputs are packed  *)
(* bodies, or a program over an array of pointers.  own are its buffers.   *)
(***************************************************************************)
Fused(ps, own) ==
  LET us == Unique(ps)
      slots == [k \in DOMAIN us |-> us[k].slot]
      layout == Layout(slots)
      packed == Packed(ps)
  IN  [ps[1] EXCEPT
        !.entry = IF ps[1].target = "device" THEN "values" ELSE IF packed THEN "buffer" ELSE "pointers",
        !.table = FALSE,
        !.bracket = Collapsed(ps),
        !.slots = IF packed THEN <<>> ELSE slots,
        !.bytes = IF packed THEN Buffer(slots, layout.offsets, Seqs!Max({1, layout.size})) ELSE <<>>,
        !.calls = Calls(ps, [k \in DOMAIN us |-> IF packed THEN layout.offsets[k] ELSE k]),
        !.externs = Externs(ps),
        !.owned = own]

(***************************************************************************)
(* The jit pass compiles a program.  Device code replaces the IR.  An      *)
(* entry over values gets a wrapper that loads them.  For a packed body    *)
(* that was never fused the argument buffer is made here, at the offsets   *)
(* of its table.  own is what the program owns then.                       *)
(***************************************************************************)
Unbuffered(p) == Shape(p) = "buffer" /\ p.table /\ p.bytes = <<>>

(* The calls read slot j at the offset at[j] of the buffer. *)
Loaded(calls, at) ==
  [c \in DOMAIN calls |-> [calls[c] EXCEPT !.reads = [j \in DOMAIN @ |-> at[@[j]]]]]

Compiled(p, own) ==
  LET offsets == [j \in DOMAIN p.slots |-> p.slots[j].offset]
      size == Seqs!Max({offsets[j] + Size(p.slots[j]) : j \in DOMAIN p.slots} \cup {1})
  IN  CASE p.target = "device" -> [p EXCEPT !.source = "PTX", !.owned = own]
        [] p.target = "host" /\ Shape(p) # p.entry ->
             [p EXCEPT !.entry = Shape(p), !.calls = Misread(@), !.owned = own]
        [] p.target = "host" /\ Shape(p) = p.entry /\ Unbuffered(p) ->
             [p EXCEPT !.bytes = Buffer(p.slots, offsets, size), !.slots = <<>>, !.owned = own,
                       !.calls = Loaded(@, offsets)]
        [] OTHER -> [p EXCEPT !.entry = IF @ = "values" THEN "pointers" ELSE @]

(* The bytes that a parameter is given: they come from a slot, or from an  *)
(* offset in the buffer.                                                   *)
Given(p, r, size) ==
  [b \in 0 .. size - 1 |->
     CASE p.bytes = <<>> /\ r \in DOMAIN p.slots -> <<Value[p.slots[r].addr], b>>
       [] p.bytes # <<>> /\ r # Nowhere /\ r + b \in DOMAIN p.bytes -> p.bytes[r + b]
       [] OTHER -> <<"stray", 0>>]
=============================================================================
