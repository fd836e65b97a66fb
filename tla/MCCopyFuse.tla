----------------------------- MODULE MCCopyFuse -----------------------------
(* Small instances of CopyFuse for TLC. *)
EXTENDS CopyFuse

CONSTANTS a, b, c, d

OneD(src, dst, size) ==
  [NotACopy EXCEPT !.dim = 1, !.link = "h2d", !.src = src, !.dst = dst, !.size = size]

(* n columns of m elements of el bytes. *)
TwoD(src, dst, srcLd, dstLd, m, n, el) ==
  [NotACopy EXCEPT !.dim = 2, !.link = "h2d", !.src = src, !.dst = dst,
                   !.srcLd = srcLd, !.dstLd = dstLd, !.m = m, !.n = n, !.el = el]

(* Two adjacent ranges, a third beyond a gap, and one mapped elsewhere. *)
Ranges == {OneD(0, 3, 2), OneD(2, 5, 1), OneD(4, 7, 1), OneD(2, 1, 1)}

(* ... a 2D copy without gaps, which is adjacent to the first range; one   *)
(* whose columns are stored backwards at the destination, which a stride   *)
(* of 2 * 7 = -2 says; and a command that is no copy.                      *)
Mixed == Ranges \union {TwoD(2, 5, 1, 1, 1, 1, 2), TwoD(4, 8, 2, 7, 1, 3, 2), NotACopy}

(* Two layers of two twins; three twins below one node: the fusion of two  *)
(* may make the third adjacent; and two nodes that would be twins but for  *)
(* the twins below one of them.                                            *)
Layers ==
  {({entry} \X {a, b}) \union ({a, b} \X {c, d}) \union ({c, d} \X {exit}),
   {<<entry, a>>} \union ({a} \X {b, c, d}) \union ({b, c, d} \X {exit}),
   ({entry} \X {a, b}) \union ({a} \X {c, d}) \union ({a, b, c, d} \X {exit})}
=============================================================================
