----------------------------- MODULE Dispatcher -----------------------------
(***************************************************************************)
(* The dispatcher command_graph_optimize: it runs one pass on a graph and, *)
(* as the environment of the process asks, dumps the graph before and      *)
(* after the pass and appends a row of statistics to a CSV file.  Several  *)
(* threads of a process may optimize graphs of their own at once; what     *)
(* they share are the cached settings, the sequence counter, the directory *)
(* of the dumps and the CSV file.  The process may end or be killed at any *)
(* moment; the files stay for the next one, which counts from 0 again.     *)
(*                                                                         *)
(* A graph is its version: how many passes have run on it.                 *)
(***************************************************************************)
EXTENDS Integers, Sequences, FiniteSets

CONSTANTS
  Thread,       \* the threads of the process, each with a graph of its own
  Pass,         \* the passes, numbered in the canonical order
  none,         \* no thread
  MaxPasses,    \* bound of this model: passes on the graph of each thread
  MaxRuns       \* bound of this model: processes, one after the other

ASSUME DispatcherAssumption ==
  /\ IsFiniteSet(Thread) /\ none \notin Thread
  /\ Pass \subseteq Nat /\ MaxPasses \in [Thread -> Nat] /\ MaxRuns \in Nat \ {0}

VARIABLES
  settings,  \* the environment: are CGIR_OPTIMIZE_DUMP and CGIR_STATS_CSV set
  inited,    \* stats_csv_path: the flag of the cached path
  path,      \* stats_csv_path: is the cached path other than null
  seq,       \* the sequence counter
  base,      \* the directory of the dumps: unknown, made or missing
  holder,    \* the thread that holds the mutex of stats_emit, or none
  csv,       \* the lines of the CSV file
  disk,      \* the dump files: name -> graph
  pc,        \* where each thread is
  todo,      \* the passes it was asked for and has not started
  stores,    \* its stores to the cached path that others cannot see yet
  call,      \* the locals of its call of command_graph_optimize
  version,   \* its graph
  run,       \* which process this is
  log        \* history: the calls that have returned in this process

files == <<csv, disk>>
statics == <<inited, path, seq, base, holder>>
vars == <<settings, statics, files, pc, todo, stores, call, version, run, log>>

(* A call: its pass, what it was told to do, its number, the metrics, which *)
(* dumps it has written and whether its row could be written. *)
Idle == [pass |-> 0, dump |-> FALSE, stats |-> FALSE, number |-> 0,
         before |-> 0, after |-> 0, header |-> FALSE, dumped |-> {}, failed |-> FALSE]

(* A process starts.  The counter and the cached settings are static. *)
Start ==
  /\ settings' \in [dump : BOOLEAN, stats : BOOLEAN]
  /\ inited' = FALSE /\ path' = FALSE
  /\ seq' = 0 /\ base' = "unknown" /\ holder' = none
  /\ pc' = [t \in Thread |-> "idle"]
  /\ todo' = [t \in Thread |-> {}]
  /\ stores' = [t \in Thread |-> {}]
  /\ call' = [t \in Thread |-> Idle]
  /\ version' = [t \in Thread |-> 0]
  /\ log' = {}

Init ==
  /\ settings \in [dump : BOOLEAN, stats : BOOLEAN]
  /\ inited = FALSE /\ path = FALSE
  /\ seq = 0 /\ base = "unknown" /\ holder = none
  /\ csv = <<>> /\ disk = <<>>
  /\ pc = [t \in Thread |-> "idle"]
  /\ todo = [t \in Thread |-> {}]
  /\ stores = [t \in Thread |-> {}]
  /\ call = [t \in Thread |-> Idle]
  /\ version = [t \in Thread |-> 0]
  /\ run = 1
  /\ log = {}

-----------------------------------------------------------------------------
(* A mistake: a call has one dump. *)
FileNameShared(c, phase) == <<c.number, c.pass, "dump">>

(* The name of a dump, and a graph as a dump shows it. *)
FileName(c, phase) == <<c.number, c.pass, phase>>

Picture(t, v) == <<run, t, v>>

(* The files when the file of that name is created or overwritten. *)
Written(name, picture) ==
  [n \in DOMAIN disk \cup {name} |-> IF n = name THEN picture ELSE disk[n]]

(* The client asks for a set of passes. *)
Optimize(t) ==
  /\ pc[t] = "idle" /\ todo[t] = {}
  /\ \E passes \in SUBSET Pass :
       /\ passes # {}
       /\ version[t] + Cardinality(passes) <= MaxPasses[t]
       /\ todo' = [todo EXCEPT ![t] = passes]
  /\ UNCHANGED <<settings, statics, files, pc, stores, call, version, run, log>>

(* The next pass in the canonical order.  The settings are read from the    *)
(* environment the first time and cached: for the dump in one variable, for *)
(* the path of the CSV file in two. *)
Enter(t) ==
  /\ pc[t] = "idle" /\ todo[t] # {}
  /\ \E p \in todo[t] :
       /\ \A q \in todo[t] : p <= q
       /\ call' = [call EXCEPT ![t] = [Idle EXCEPT !.pass = p, !.dump = settings.dump,
                                                   !.stats = inited /\ path]]
       /\ todo' = [todo EXCEPT ![t] = @ \ {p}]
  /\ IF inited
     THEN pc' = [pc EXCEPT ![t] = "number"] /\ UNCHANGED stores
     ELSE /\ pc' = [pc EXCEPT ![t] = "cache"]
          /\ stores' = [stores EXCEPT ![t] = {"path", "inited"}]
  /\ UNCHANGED <<settings, statics, files, version, run, log>>

(* stats_csv_path caches the path and then the flag without synchronization: *)
(* the other threads may see the two stores in either order. *)
Cache(t) ==
  /\ pc[t] = "cache"
  /\ \/ /\ "path" \in stores[t]
        /\ path' = settings.stats
        /\ stores' = [stores EXCEPT ![t] = @ \ {"path"}]
        /\ UNCHANGED <<inited, pc, call>>
     \/ /\ "inited" \in stores[t]
        /\ inited' = TRUE
        /\ stores' = [stores EXCEPT ![t] = @ \ {"inited"}]
        /\ UNCHANGED <<path, pc, call>>
     \/ /\ stores[t] = {}
        /\ pc' = [pc EXCEPT ![t] = "number"]
        /\ call' = [call EXCEPT ![t].stats = path]
        /\ UNCHANGED <<inited, path, stores>>
  /\ UNCHANGED <<settings, seq, base, holder, files, todo, version, run, log>>

(* A mistake: the number belongs to the statistics. *)
NumberedForStats(c) == c.stats

(* Does the call need a number? *)
Numbered(c) == c.dump \/ c.stats

(* A mistake: the counter is incremented before it is read. *)
NumberAfter(t) ==
  /\ pc[t] = "number"
  /\ pc' = [pc EXCEPT ![t] = "before"]
  /\ seq' = IF Numbered(call[t]) THEN seq + 1 ELSE seq
  /\ call' = [call EXCEPT ![t].number = IF Numbered(call[t]) THEN seq + 1 ELSE 0]
  /\ UNCHANGED <<settings, inited, path, base, holder, files, todo, stores, version, run, log>>

(* An atomic fetch and add. *)
Number(t) ==
  /\ pc[t] = "number"
  /\ pc' = [pc EXCEPT ![t] = "before"]
  /\ seq' = IF Numbered(call[t]) THEN seq + 1 ELSE seq
  /\ call' = [call EXCEPT ![t].number = IF Numbered(call[t]) THEN seq ELSE 0]
  /\ UNCHANGED <<settings, inited, path, base, holder, files, todo, stores, version, run, log>>

-----------------------------------------------------------------------------
(* The first dump creates the directory, or finds that it cannot; the       *)
(* outcome is cached. *)
Resolve(t) ==
  /\ pc[t] \in {"before", "after"} /\ call[t].dump /\ base = "unknown"
  /\ base' \in {"made", "missing"}
  /\ UNCHANGED <<settings, inited, path, seq, holder, files, pc, todo, stores, call, version, run, log>>

(* The thread passes a point where it dumps its graph.  The dump is written *)
(* unless none was asked for, there is no directory, or the file cannot be  *)
(* opened. *)
Dump(t, phase, written) ==
  /\ call[t].dump => base # "unknown"
  /\ written => call[t].dump /\ base = "made"
  /\ disk' = IF written THEN Written(FileName(call[t], phase), Picture(t, version[t])) ELSE disk

Dumped(c, phase, written) == IF written THEN [c EXCEPT !.dumped = @ \cup {phase}] ELSE c

DumpBefore(t) ==
  /\ pc[t] = "before"
  /\ \E written \in BOOLEAN :
       /\ Dump(t, "before", written)
       /\ call' = [call EXCEPT ![t] = Dumped(@, "before", written)]
  /\ pc' = [pc EXCEPT ![t] = "pass"]
  /\ UNCHANGED <<settings, statics, csv, todo, stores, version, run, log>>

(* A mistake: both snapshots are taken when the pass has run. *)
RunPassUnmeasured(t) ==
  /\ pc[t] = "pass"
  /\ version' = [version EXCEPT ![t] = @ + 1]
  /\ call' = [call EXCEPT ![t].before = version[t] + 1, ![t].after = version[t] + 1]
  /\ pc' = [pc EXCEPT ![t] = IF call[t].stats THEN "lock" ELSE "after"]
  /\ UNCHANGED <<settings, statics, files, todo, stores, run, log>>

(* The pass runs, between two snapshots of the metrics. *)
RunPass(t) ==
  /\ pc[t] = "pass"
  /\ version' = [version EXCEPT ![t] = @ + 1]
  /\ call' = [call EXCEPT ![t].before = version[t], ![t].after = version[t] + 1]
  /\ pc' = [pc EXCEPT ![t] = IF call[t].stats THEN "lock" ELSE "after"]
  /\ UNCHANGED <<settings, statics, files, todo, stores, run, log>>

(* A mistake: the mutex is taken when the header has been decided on. *)
LockLate(t) ==
  /\ pc[t] = "lock"
  /\ holder' = t
  /\ pc' = [pc EXCEPT ![t] = "stat"]
  /\ UNCHANGED <<settings, inited, path, seq, base, files, todo, stores, call, version, run, log>>

(* stats_emit is serialized by a mutex. *)
Lock(t) ==
  /\ pc[t] = "lock" /\ holder = none
  /\ holder' = t
  /\ pc' = [pc EXCEPT ![t] = "stat"]
  /\ UNCHANGED <<settings, inited, path, seq, base, files, todo, stores, call, version, run, log>>

(* The header is needed when the file is missing or empty. *)
Stat(t) ==
  /\ pc[t] = "stat"
  /\ call' = [call EXCEPT ![t].header = (csv = <<>>)]
  /\ pc' = [pc EXCEPT ![t] = "append"]
  /\ UNCHANGED <<settings, statics, files, todo, stores, version, run, log>>

Header == [kind |-> "header"]
Row(t) == [kind |-> "row", run |-> run, number |-> call[t].number,
           pass |-> call[t].pass, before |-> Picture(t, call[t].before), after |-> Picture(t, call[t].after)]

(* What stats_emit writes is flushed at once when it closes the file. *)
Lines(t) == IF call[t].header THEN <<Header, Row(t)>> ELSE <<Row(t)>>

(* A mistake: when the file cannot be opened the mutex stays locked. *)
AppendKeepsLock(t) ==
  /\ pc[t] = "append"
  /\ pc' = [pc EXCEPT ![t] = "after"]
  /\ \/ csv' = csv \o Lines(t) /\ holder' = none /\ UNCHANGED call
     \/ call' = [call EXCEPT ![t].failed = TRUE] /\ UNCHANGED <<csv, holder>>
  /\ UNCHANGED <<settings, inited, path, seq, base, disk, todo, stores, version, run, log>>

(* The file may fail to open; the mutex is released in either case. *)
AppendRow(t) ==
  /\ pc[t] = "append"
  /\ pc' = [pc EXCEPT ![t] = "after"]
  /\ holder' = none
  /\ \/ csv' = csv \o Lines(t) /\ UNCHANGED call
     \/ call' = [call EXCEPT ![t].failed = TRUE] /\ UNCHANGED csv
  /\ UNCHANGED <<settings, inited, path, seq, base, disk, todo, stores, version, run, log>>

(* The last thing a call does. *)
DumpAfter(t) ==
  /\ pc[t] = "after"
  /\ \E written \in BOOLEAN :
       /\ Dump(t, "after", written)
       /\ log' = log \cup {[thread |-> t, nth |-> version[t],
                           call |-> Dumped(call[t], "after", written)]}
  /\ call' = [call EXCEPT ![t] = Idle]
  /\ pc' = [pc EXCEPT ![t] = "idle"]
  /\ UNCHANGED <<settings, statics, csv, todo, stores, version, run>>

(* The process ends or is killed; later another one uses the same files. *)
Restart ==
  /\ run < MaxRuns
  /\ run' = run + 1
  /\ Start
  /\ UNCHANGED files

Step(t) ==
  \/ Enter(t) \/ Cache(t) \/ Number(t) \/ Resolve(t) \/ DumpBefore(t) \/ RunPass(t)
  \/ Lock(t) \/ Stat(t) \/ AppendRow(t) \/ DumpAfter(t)

Next == Restart \/ \E t \in Thread : Optimize(t) \/ Step(t)

(* Every thread keeps running. *)
Spec == Init /\ [][Next]_vars /\ \A t \in Thread : WF_vars(Step(t))

-----------------------------------------------------------------------------
Places == {"idle", "cache", "number", "before", "pass", "lock", "stat", "append", "after"}
Graphs == (1 .. MaxRuns) \X Thread \X Nat
Rows == [kind : {"row"}, run : 1 .. MaxRuns, number : Nat, pass : Pass \cup {0}, before : Graphs, after : Graphs]

Calls == [pass : Pass \cup {0}, dump : BOOLEAN, stats : BOOLEAN, number : Nat, before : Nat, after : Nat,
          header : BOOLEAN, dumped : SUBSET {"before", "after"}, failed : BOOLEAN]

(* A call has a number that the counter has left behind, and nothing is     *)
(* dumped before the directory is there. *)
TypeOK ==
  /\ settings \in [dump : BOOLEAN, stats : BOOLEAN]
  /\ inited \in BOOLEAN /\ path \in BOOLEAN
  /\ seq \in Nat
  /\ base \in {"unknown", "made", "missing"}
  /\ holder \in Thread \cup {none}
  /\ csv \in Seq({Header} \cup Rows)
  /\ disk \in [DOMAIN disk -> Graphs]
  /\ pc \in [Thread -> Places]
  /\ todo \in [Thread -> SUBSET Pass]
  /\ stores \in [Thread -> SUBSET {"path", "inited"}]
  /\ call \in [Thread -> Calls]
  /\ version \in [Thread -> Nat]
  /\ run \in 1 .. MaxRuns
  /\ log \subseteq [thread : Thread, nth : Nat, call : Calls]
  /\ \A t \in Thread : call[t].number = 0 \/ call[t].number < seq
  /\ \A t \in Thread : call[t].dumped # {} => base = "made"

(* However many threads append and however often processes end in between,  *)
(* the CSV file has one header, and it comes first: stats_emit decides on   *)
(* the header and writes it under one mutex. *)
HeaderFirst ==
  csv # <<>> => csv[1] = Header /\ \A i \in 2 .. Len(csv) : csv[i] # Header

RowsOf(c) == {i \in DOMAIN csv : /\ csv[i] # Header
                                 /\ csv[i].run = run /\ csv[i].number = c.number}

(* A number identifies a call: its dumps still show its graph before and    *)
(* after its pass, whatever calls ran at the same time or later. *)
DumpsSurvive ==
  \A c \in log : \A phase \in c.call.dumped :
    disk[FileName(c.call, phase)] = Picture(c.thread, IF phase = "before" THEN c.nth - 1 ELSE c.nth)

(* The row and the dumps with one number speak of the same pass: one row at *)
(* most, exactly one when the call was to write it and could, and the       *)
(* graphs it measured are the ones that were dumped. *)
RowTiedToDumps ==
  \A c \in log :
    /\ Numbered(c.call) =>
         Cardinality(RowsOf(c.call)) = IF c.call.stats /\ ~c.call.failed THEN 1 ELSE 0
    /\ c.call.stats => \A i \in RowsOf(c.call) :
         /\ "before" \in c.call.dumped => csv[i].before = disk[FileName(c.call, "before")]
         /\ "after" \in c.call.dumped => csv[i].after = disk[FileName(c.call, "after")]

(* The numbers are the timeline of an optimize() call: passes on one graph  *)
(* are numbered in the order they ran, and the dump after one is the dump   *)
(* before the next. *)
Timeline ==
  \A c, d \in log :
    c.thread = d.thread /\ d.nth = c.nth + 1 /\ c.call.dump /\ d.call.dump =>
      /\ c.call.number < d.call.number
      /\ "after" \in c.call.dumped /\ "before" \in d.call.dumped =>
           disk[FileName(c.call, "after")] = disk[FileName(d.call, "before")]

(* Every pass that was asked for is run, or the process ends: nobody waits  *)
(* for the mutex forever. *)
EveryPassReturns == \A t \in Thread : (todo[t] # {}) ~> (todo[t] = {} /\ pc[t] = "idle")
=============================================================================
