------------------------------ MODULE Schedule ------------------------------
(***************************************************************************)
(* What an edit of a command graph may do to the program it stands for.    *)
(*                                                                         *)
(* A block is a set of recorded nodes that run as one; the blocks are      *)
(* disjoint.  order is the precedence between blocks: a strict partial     *)
(* order, or the program could not be executed.                            *)
(***************************************************************************)
CONSTANT Control  \* the recorded nodes that stand for no command

VARIABLES blocks, order

vars == <<blocks, order>>

(* Two blocks that the others cannot tell apart. *)
Interchangeable(A, B) ==
  LET before == order
  IN  \A C \in blocks \ {A, B} :
        /\ <<A, C>> \in before <=> <<B, C>> \in before
        /\ <<C, A>> \in before <=> <<C, B>> \in before

StrictOrder ==
  LET before == order
  IN  /\ \A A \in blocks : <<A, A>> \notin before
      /\ \A p, q \in before : p[2] = q[1] => <<p[1], q[2]>> \in before

Init ==
  /\ \A A, B \in blocks : A # B => A \intersect B = {}
  /\ order \in SUBSET (blocks \X blocks)
  /\ StrictOrder

(* Two blocks become one.  No order is lost and none is made up. *)
Merge(A, B) ==
  /\ A # B
  /\ blocks' = (blocks \ {A, B}) \union {A \union B}
  /\ Interchangeable(A, B)
  /\ LET now(C) == IF C \in {A, B} THEN A \union B ELSE C
     IN  order' = {<<now(p[1]), now(p[2])>> : p \in order \ {<<A, B>>, <<B, A>>}}

(* A block without commands goes; it still separates what it separated. *)
Drop(A) ==
  /\ A \subseteq Control
  /\ blocks' = blocks \ {A}
  /\ order' = {p \in order : p[1] # A /\ p[2] # A}

Next ==
  \/ \E A, B \in blocks \ blocks' : Merge(A, B)
  \/ \E A \in blocks \ blocks' : Drop(A)

Spec == Init /\ [][Next]_vars
=============================================================================
