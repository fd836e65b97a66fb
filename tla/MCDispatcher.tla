---------------------------- MODULE MCDispatcher ----------------------------
EXTENDS Dispatcher, TLC

CONSTANTS t1, t2

Passes == {1, 2}
TwoAndOne == [t \in Thread |-> IF t = t1 THEN 2 ELSE 1]

(* Two threads in the first process, one pass in the second.  Only the CSV *)
(* file matters to both.                                                   *)
Small ==
  /\ run' # run => settings.stats /\ ~settings.dump /\ settings'.stats /\ ~settings'.dump
  /\ run = 2 => todo'[t2] = {} /\ version'[t1] + Cardinality(todo'[t1]) <= 1

MCSpec == Init /\ [][Next /\ Small]_vars /\ \A t \in Thread : WF_vars(Step(t))
=============================================================================
