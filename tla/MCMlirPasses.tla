---------------------------- MODULE MCMlirPasses ----------------------------
(* Small instances of MlirPasses for TLC. *)
EXTENDS MlirPasses

CONSTANTS ent, ext, a, b, c, d, x, B1, B2, B3

(* The order of the block. *)
Order == <<ent, a, x, b, c, d, ext, B1, B2, B3>>
Place == [u \in Node |-> CHOOSE i \in DOMAIN Order : Order[i] = u]

(* Up to a renaming, the edges go from an earlier to a later node. *)
Downward ==
  {<<a, b>>, <<a, c>>, <<b, c>>, <<b, d>>, <<c, d>>}
    \union ({ent} \X {a, b}) \union ({c, d} \X {ext})

(* The sets of edges that leave no node without predecessor or successor. *)
Spanning == {E \in SUBSET Downward :
               \A u \in {a, b, c, d} : /\ \E p \in Node : <<p, u>> \in E
                                       /\ \E s \in Node : <<u, s>> \in E}

(* The same with the control node in the place of one of the commands. *)
Swap(E, u) == {<<IF e[1] = u THEN x ELSE e[1], IF e[2] = u THEN x ELSE e[2]>> : e \in E}
Controlled == {Swap(E, u) : E \in Spanning, u \in {b, c}}

(* A control node that pays off. *)
Waist == ({ent} \X {a, b, c}) \union ({a, b, c} \X {x}) \union {<<x, d>>, <<x, ext>>, <<d, ext>>}

Cmd(t, dev, launch, copy) == [type |-> t, dev |-> dev, launch |-> launch, copy |-> copy]

(* Commands f for a to d, and the control node on the device 0. *)
Labelled(f) ==
  [u \in Node |-> IF u \in {a, b, c, d} THEN f[u]
                  ELSE Cmd(IF u \in Batch THEN "batch" ELSE "none", 0, 0, NotACopy)]

Other(dev) == Cmd("other", dev, 0, NotACopy)
Prog(launch) == Cmd("prog", 0, launch, NotACopy)
Copy(copy) == Cmd("copy", 0, 0, copy)

OneD(src, dst, size) ==
  [NotACopy EXCEPT !.dim = 1, !.link = "h2d", !.src = src, !.dst = dst, !.size = size]

(* n columns of m elements of el bytes. *)
TwoD(src, dst, srcLd, dstLd, m, n, el) ==
  [NotACopy EXCEPT !.dim = 2, !.link = "h2d", !.src = src, !.dst = dst,
                   !.srcLd = srcLd, !.dstLd = dstLd, !.m = m, !.n = n, !.el = el]

Request(edges, commands, plans) ==
  {[edges |-> E, cmd |-> Labelled(f), plan |-> p] : E \in edges, f \in commands, p \in plans}

(* Edges and control nodes, alone and after one another. *)
ToReduce ==
  Request(Controlled \union {Waist}, {[u \in {a, b, c, d} |-> Other(0)]},
          {<<"reduce-node", "reduce-edge">>, <<"batch", "reduce-node">>})

(* Commands on two devices. *)
ToBatch ==
  Request(Spanning, {f \in [{a, b, c, d} -> {Other(0), Other(1)}] : f[a] = Other(0)},
          {<<"batch", "reduce-edge">>, <<"batch", "batch">>})

(* Programs of two launch parameters, and a command that is none. *)
ToFuse ==
  Request(Spanning, {f \in [{a, b, c, d} -> {Prog(0), Prog(1), Other(0)}] :
                       f[a] = Prog(0) /\ f[c] = Prog(0)},
          {<<"prog-fuse", "batch">>})

(* Two layers of two twins, and three twins below one node. *)
Layers ==
  {({ent} \X {a, b}) \union ({a, b} \X {c, d}) \union ({c, d} \X {ext}),
   {<<ent, a>>} \union ({a} \X {b, c, d}) \union ({b, c, d} \X {ext})}

Copies == {Copy(OneD(0, 3, 2)), Copy(OneD(2, 5, 1)), Copy(OneD(4, 7, 1)),
           Copy(TwoD(2, 5, 1, 1, 1, 1, 2)), Copy(TwoD(4, 8, 2, 7, 1, 3, 2))}

ToCopy == Request(Layers, {f \in [{a, b, c, d} -> Copies] : f[a] = Copy(OneD(0, 3, 2))},
                  {<<"copy-normalize", "copy-fuse">>, <<"copy-fuse", "batch">>})

All == ToReduce \union ToBatch \union ToFuse \union ToCopy
=============================================================================
