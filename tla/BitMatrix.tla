------------------------------ MODULE BitMatrix ------------------------------
(***************************************************************************)
(* bitset2d_t (include/cgir/bitset2d.hpp): an n x n matrix of bits, row by *)
(* row in one array of words.  A word is kept as the set of the positions  *)
(* of its bits that are 1.                                                 *)
(***************************************************************************)
EXTENDS Integers

CONSTANT Bits  \* BITS, the bits of a word

ASSUME BitsAssumption == Bits \in Nat \ {0}

(* The words of a row. *)
Stride(n) == (n + Bits - 1) \div Bits

(* calloc *)
NoBits(n) == [w \in 0 .. n * Stride(n) - 1 |-> {}]

WordOf(n, i, j) == i * Stride(n) + j \div Bits

SetBit(words, n, i, j) == [words EXCEPT ![WordOf(n, i, j)] = @ \union {j % Bits}]

TestBit(words, n, i, j) == j % Bits \in words[WordOf(n, i, j)]

(* Row i gets the bits of row j, word by word. *)
OrRows(words, n, i, j) ==
  [w \in DOMAIN words |->
     IF w \div Stride(n) = i THEN words[w] \union words[(j * Stride(n)) + (w % Stride(n))]
                             ELSE words[w]]
=============================================================================
