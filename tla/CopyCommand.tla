----------------------------- MODULE CopyCommand ----------------------------
(***************************************************************************)
(* Copy commands as values: what they move, their normal form, and when    *)
(* two of them may become one.  Addresses, sizes and leading dimensions    *)
(* are unsigned machine words.                                             *)
(***************************************************************************)
EXTENDS Integers

CONSTANTS Width  \* bits of uintptr_t and size_t

ASSUME WidthAssumption == Width \in Nat \ {0} /\ 2 ^ Width \in Nat \ {0, 1}

Addresses == 2 ^ Width
Word == 0 .. Addresses - 1

(***************************************************************************)
(* dim is 1 for a copy_1D, 2 for a copy_2D and 0 for any other command;    *)
(* link is the pair of devices.  A 2D copy moves n columns of m elements   *)
(* of el bytes; srcLd and dstLd elements lie between the starts of two     *)
(* columns.  Fields that a command does not have are 0.                    *)
(***************************************************************************)
CopyType == [dim : 0 .. 2, link : {"none", "h2d", "d2d"}, src : Word, dst : Word, size : Word,
             m : Word, n : Word, srcLd : Word, dstLd : Word, el : Word]

NotACopy == [dim |-> 0, link |-> "none", src |-> 0, dst |-> 0, size |-> 0,
             m |-> 0, n |-> 0, srcLd |-> 0, dstLd |-> 0, el |-> 0]

(* The bytes of a copy fit between the address it starts at, on either side, and the last one. *)
Bytes(c) == IF c.dim = 2 THEN c.m * c.n * c.el ELSE c.size
Fits(c) == c.src + Bytes(c) < Addresses /\ c.dst + Bytes(c) < Addresses

(* The bytes a copy moves, with where they come from and where they go. *)
Transfers(c) ==
  CASE c.dim = 0 -> {}
    [] c.dim = 1 -> {<<c.link, (c.src + i) % Addresses, (c.dst + i) % Addresses>> :
                       i \in 0 .. c.size - 1}
    [] c.dim = 2 -> {<<c.link, (c.src + j * c.srcLd * c.el + i) % Addresses,
                               (c.dst + j * c.dstLd * c.el + i) % Addresses>> :
                       i \in 0 .. c.m * c.el - 1, j \in 0 .. c.n - 1}

-----------------------------------------------------------------------------
(* The columns lie next to each other on both sides. *)
Contiguous(c) == c.m = c.srcLd /\ c.m = c.dstLd

Flattened(c) ==
  [NotACopy EXCEPT !.dim = 1, !.link = c.link, !.src = c.src, !.dst = c.dst,
                   !.size = (c.m * c.n * c.el) % Addresses]

(* A mistake: the leading dimensions stay in elements. *)
InBytesColumnOnly(c) == [c EXCEPT !.m = (c.m * c.el) % Addresses, !.el = 1]

InBytes(c) ==
  [c EXCEPT !.m = (c.m * c.el) % Addresses, !.srcLd = (c.srcLd * c.el) % Addresses,
            !.dstLd = (c.dstLd * c.el) % Addresses, !.el = 1]

(* What copy-normalize makes of a command. *)
Normalized(c) ==
  IF c.dim # 2 THEN c ELSE IF Contiguous(c) THEN Flattened(c) ELSE InBytes(c)

-----------------------------------------------------------------------------
Bias(c) == (c.src - c.dst) % Addresses
SrcEnd(c) == (c.src + c.size) % Addresses

(* Same devices, and one mapping from source to destination addresses. *)
SameMapping(c, d) == c.link = d.link /\ Bias(c) = Bias(d)

(* A mistake, off by one: a byte between the ranges is taken for none. *)
TouchAcrossGap(c, d) == c.src <= SrcEnd(d) + 1 /\ d.src <= SrcEnd(c) + 1

(* The two source ranges overlap or are adjacent. *)
Touch(c, d) == c.src <= SrcEnd(d) /\ d.src <= SrcEnd(c)

(* Columns of one length, at the same distances, in bytes. *)
SameColumns(c, d) ==
  \A f \in {"m", "srcLd", "dstLd"} : (c.el * c[f]) % Addresses = (d.el * d[f]) % Addresses

(* The copy of the smallest range around both. *)
Union(c, d) ==
  LET bgn == IF c.src < d.src THEN c.src ELSE d.src
      end == IF SrcEnd(c) > SrcEnd(d) THEN SrcEnd(c) ELSE SrcEnd(d)
  IN  [c EXCEPT !.src = bgn, !.dst = (bgn - Bias(c)) % Addresses,
                !.size = (end - bgn) % Addresses]
=============================================================================
