------------------------------ MODULE MCWalks ------------------------------
(* A small instance of Walks for TLC. *)
EXTENDS Walks, TLC

(* Nodes other than the entry and the exit are interchangeable. *)
Interchangeable == Permutations(Node \ {entry, exit})
=============================================================================
