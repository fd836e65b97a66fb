----------------------------- MODULE MCProgFuse -----------------------------
(* Small instances of ProgFuse for TLC. *)
EXTENDS ProgFuse

CONSTANTS a, b, c, e

(* Three programs and a node e, which may be a control node in between, or *)
(* a command that is no program. *)
Rails == {<<entry, a>>, <<c, exit>>}
Shapes == {
  Rails \cup {<<a, b>>, <<b, c>>, <<entry, e>>, <<e, exit>>},
  Rails \cup {<<a, e>>, <<e, b>>, <<b, c>>},
  Rails \cup {<<a, b>>, <<b, e>>, <<e, c>>},
  Rails \cup {<<a, b>>, <<a, e>>, <<b, c>>, <<e, c>>},
  {<<entry, a>>, <<entry, e>>, <<a, b>>, <<e, b>>, <<b, c>>, <<c, exit>>}}

(* An address is that of a variable of a program's own, or a shared one (of *)
(* e).  sizeof(void * ) is 2, of an int or a float 1, of an aggregate 3.    *)
(* Every program refers to the same array y; a float f has the bytes of n.  *)
MCValue ==
  [x \in {a, b, c, e} \X {"y", "n", "m", "f", "w", "block"} |->
     CASE x[2] = "f" -> "n"
       [] x[2] \in {"w", "block"} -> IF x[1] = a THEN "first" ELSE "second"
       [] OTHER -> x[2]]

Slot(addr, type, kind, offset) ==
  [addr |-> addr, type |-> type, kind |-> kind, offset |-> offset,
   size |-> CASE type = "aggregate" -> 3 [] type = "ptr" -> 2 [] OTHER -> 1]

Program(u, entryform, table, mode, grid, target, slots) ==
  [source |-> "LLVMIR", entry |-> entryform, table |-> table,
   mode |-> mode, grid |-> grid, target |-> target,
   bracket |-> IF target = "device" THEN "spmd" ELSE "none", slots |-> slots, bytes |-> <<>>,
   calls |-> <<[kernel |-> u, reads |-> [j \in DOMAIN slots |-> j]]>>,
   externs |-> IF u = a THEN {} ELSE {u}, owned |-> {}]

NoProgram == [source |-> "none", entry |-> "values", table |-> FALSE, mode |-> "direct", grid |-> 0,
              target |-> "host", bracket |-> "none", slots |-> <<>>, bytes |-> <<>>, calls |-> <<>>,
              externs |-> {}, owned |-> {}]

(* A device kernel, with a bracket of this kind. *)
Kernel(u, bracket) ==
  [Program(u, "values", FALSE, "direct", 1, "device",
           <<Slot(<<u, "y">>, "ptr", "ref", 0), Slot(<<u, "n">>, "int", "copy", 0)>>)
     EXCEPT !.bracket = bracket]

(* What the client records for u. *)
Recording(u, form) ==
  CASE form = "plain" ->      \* launched directly, the slots are shared
         Program(u, "values", FALSE, "direct", 0, "host",
                 <<Slot(<<e, IF u = b THEN "m" ELSE "n">>, "int", "copy", 0), Slot(<<e, "y">>, "ptr", "ref", 0)>>)
    [] form = "task" ->       \* an unpacked task body with a table
         Program(u, "values", TRUE, "task", 0, "host",
                 <<Slot(<<u, "n">>, "int", "copy", 0), Slot(<<u, "y">>, "ptr", "ref", 0),
                   Slot(<<u, "w">>, "aggregate", "copy", 0)>>)
    [] form = "float" ->      \* of two parameters, with the bytes of n in a float
         Program(u, "values", TRUE, "task", 0, "host",
                 <<Slot(<<u, "f">>, "float", "copy", 0), Slot(<<u, "y">>, "ptr", "ref", 0)>>)
    [] form = "untabled" ->
         Program(u, "values", FALSE, "task", 0, "host",
                 <<Slot(<<u, "f">>, "float", "copy", 0), Slot(<<u, "n">>, "int", "copy", 0),
                   Slot(<<u, "y">>, "ptr", "ref", 0)>>)
    [] form = "packed" ->     \* a packed task body; b lays its captures out differently
         Program(u, "buffer", TRUE, "task", 0, "host",
                 IF u = b THEN <<Slot(<<u, "n">>, "int", "copy", 5), Slot(<<u, "y">>, "ptr", "ref", 0),
                                 Slot(<<u, "w">>, "aggregate", "copy", 2)>>
                          ELSE <<Slot(<<u, "y">>, "ptr", "ref", 0), Slot(<<u, "n">>, "int", "copy", 2),
                                 Slot(<<u, "w">>, "aggregate", "copy", 3)>>)
    [] form = "block" ->      \* a task body that takes the block of its task
         Program(u, "pointers", FALSE, "task", 0, "host", <<Slot(<<u, "block">>, "ptr", "ref", 0)>>)
    [] form = "kernel" -> Kernel(u, "spmd")
    [] form = "wide" -> Kernel(u, IF u = b THEN "wide" ELSE "spmd")   \* b has another configuration
    [] form = "generic" -> Kernel(u, "generic")
    [] form = "simple" -> Kernel(u, "none")
    [] form = "pointer" ->    \* launched directly, with one parameter, a pointer
         Program(u, "values", FALSE, "direct", 0, "host", <<Slot(<<e, "y">>, "ptr", "ref", 0)>>)
    [] form = "body" ->       \* a task body with one parameter, a pointer
         Program(u, "values", TRUE, "task", 0, "host", <<Slot(<<u, "y">>, "ptr", "ref", 0)>>)
    [] form = "bare" ->       \* a task body that looks packed, without a table
         Program(u, "values", FALSE, "task", 0, "host",
                 <<Slot(<<u, "y">>, "ptr", "ref", 0), Slot(<<u, "n">>, "int", "copy", 0)>>)
    [] OTHER -> NoProgram

Forms == {"plain", "pointer", "task", "body", "float", "untabled", "bare", "packed", "block", "kernel",
          "wide", "generic", "simple", "other"}

(* At most two forms in a graph. *)
MCRecordings ==
  {[edges |-> E, control |-> C,
    prog |-> [u \in {a, b, c, e} |-> IF u = e THEN NoProgram ELSE Recording(u, f[u])]] :
     E \in Shapes, C \in {{}, {e}}, f \in {h \in [{a, b, c} -> Forms] : Cardinality(Range(h)) < 3}}
=============================================================================
