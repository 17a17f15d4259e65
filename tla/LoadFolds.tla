------------------------------ MODULE LoadFolds ------------------------------
(***************************************************************************)
(* The rewritings a session applies to a decoder's graph when it loads it  *)
(* (buildBucket): rotary chains become Rope nodes, movements in front of a *)
(* MatMul become strides, attention becomes one node, that node reads the  *)
(* cache and the new rows without their concatenation, and what movements  *)
(* are left are composed.                                                  *)
(*                                                                         *)
(* A graph is that of Elements.  Axes count from 1.  pinned are the        *)
(* tensors whose name asks for fp32.                                       *)
(***************************************************************************)
EXTENDS Elements, ImportPasses

CONSTANTS
  TiledMin,                     \* kTiledMatMulMin
  GemvMinK, GemvMaxN, GemvVec,  \* kGemvMinK, kGemvMaxN, kGemvVec
  MaxContext, MaxHeadDim,       \* kFaMaxContext, kFaMaxHeadDim
  MaxStaging                    \* kFaMaxStaging

ASSUME LimitsAssumption ==
  {TiledMin, GemvMinK, GemvMaxN, GemvVec, MaxContext, MaxHeadDim, MaxStaging} \subseteq Nat \ {0}

ShapeOf(g, t) == g.shape[t]
Out(nd) == nd.outs[1]

The(S) == CHOOSE x \in S : TRUE

\* No fused work and one output; fuseRope also names the attributes a node may have.
Bare(nd) == nd.steps = <<>> /\ nd.act = "None" /\ nd.bias = 0 /\ Len(nd.outs) = 1
BareNode(nd, allowed) == nd.act = "None" /\ nd.bias = 0 /\ Len(nd.outs) = 1 /\ DOMAIN nd.attr \subseteq allowed

\* A pass that changed something ends by removing what nobody reads any more.
CollectUnread(g, h) == IF h.nodes = g.nodes THEN g ELSE eliminateDeadNodes(h)

-----------------------------------------------------------------------------
(* fuseRope.  An expression is a sum of products of at most two tensors: a *)
(* function from monomials, rising tuples of tensors, to factors.          *)

Mono(s, t) == IF s <= t THEN <<s, t>> ELSE <<t, s>>
LeafExpr(t) == [m \in {<<t>>} |-> 1]
Opaque(t) == [ok |-> TRUE, e |-> LeafExpr(t)]
Refused == [ok |-> FALSE, e |-> LeafExpr(0)]

Small(e) == [ok |-> Cardinality(DOMAIN e) <= 4, e |-> e]

AddExpr(a, b, sign) == Small(PlusE(a, ScaleE(sign, b)))

\* Only of linear expressions.  A factor that cancels stays, as zero.
MulExpr(a, b) ==
  IF \E m \in DOMAIN a \union DOMAIN b : Len(m) = 2 THEN Refused
  ELSE LET Of(p) == Mono(p[1][1], p[2][1])
           pairs == (DOMAIN a) \X (DOMAIN b)
       IN  Small([m \in {Of(p) : p \in pairs} |->
                    FoldSet(LAMBDA p, n : n + a[p[1]] * b[p[2]], 0, {p \in pairs : Of(p) = m})])

Combined(op, a, b) ==
  CASE op = "Mul" -> MulExpr(a, b)
    [] op = "Add" -> AddExpr(a, b, 1)
    [] op = "Sub" -> AddExpr(a, b, -1)

\* evalPwUnit: the steps of a unit; a register must have been set.
EvalUnit(nd) ==
  LET Ref(m, r) == CASE r[1] = "acc"   -> [ok |-> TRUE, e |-> m.acc]
                     [] r[1] = "entry" -> Opaque(nd.ins[1])
                     [] r[1] = "reg"   -> IF r[2] \in DOMAIN m.reg THEN [ok |-> TRUE, e |-> m.reg[r[2]]] ELSE Refused
                     [] r[1] = "op"    -> Opaque(nd.ins[r[2]])
      Result(m, step) ==
        LET a == Ref(m, step.src[1])
            b == Ref(m, step.src[2])
        IN  CASE step.kind = "Load" -> a
              [] step.kind \in {"Mul", "Add", "Sub"} -> IF a.ok /\ b.ok THEN Combined(step.kind, a.e, b.e) ELSE Refused
              [] OTHER -> Refused
      Exec(m, step) ==
        IF ~m.ok THEN m
        ELSE LET r == Result(m, step)
             IN  [ok |-> r.ok, acc |-> r.e,
                  reg |-> IF step.dst = 0 THEN m.reg
                          ELSE [k \in DOMAIN m.reg \union {step.dst} |-> IF k = step.dst THEN r.e ELSE m.reg[k]]]
      end == FoldLeft(Exec, [ok |-> TRUE, acc |-> LeafExpr(nd.ins[1]), reg |-> <<>>], nd.steps)
  IN  [ok |-> end.ok, e |-> end.acc]

\* exprOf: the expression of a tensor, and the tensors it looked through.
RECURSIVE ExprOf(_, _, _)
ExprOf(g, t, depth) ==
  LET p    == Producer(g, t)
      nd   == g.nodes[p]
      leaf == [e |-> LeafExpr(t), absorbed |-> {}]
  IN  IF p = 0 \/ depth > 4 THEN leaf
      ELSE IF nd.op = "FusedPointwise"
      THEN LET u == EvalUnit(nd)
           IN  IF BareNode(nd, {}) /\ nd.pwOuts = <<>> /\ u.ok THEN [e |-> u.e, absorbed |-> {t}] ELSE leaf
      ELSE IF nd.op \notin {"Add", "Sub", "Mul"} \/ Len(nd.ins) /= 2 \/ ~BareNode(nd, {}) \/ nd.steps /= <<>> THEN leaf
      ELSE LET a == ExprOf(g, nd.ins[1], depth + 1)
               b == ExprOf(g, nd.ins[2], depth + 1)
               c == Combined(nd.op, a.e, b.e)
           IN  [e |-> IF c.ok THEN c.e ELSE LeafExpr(t),
                absorbed |-> a.absorbed \union b.absorbed \union (IF c.ok THEN {t} ELSE {})]

Metadata == {"Reshape", "Unsqueeze", "Squeeze"}

\* gatherBehind: the Gather a row comes from, if any, and the tensors from it on.
RECURSIVE GatherBehind(_, _, _, _)
GatherBehind(g, t, hop, chain) ==
  LET p  == Producer(g, t)
      nd == g.nodes[p]
  IN  IF p = 0 \/ hop = 8 \/ nd.steps /= <<>> THEN {}
      ELSE IF nd.op = "Gather" /\ BareNode(nd, {"axis"}) THEN {[gather |-> nd, chain |-> chain \union {t}]}
      ELSE IF nd.op \in Metadata /\ BareNode(nd, {}) THEN GatherBehind(g, nd.ins[1], hop + 1, chain \union {t})
      ELSE {}

\* sliceOfHalf: the last axis of x from lo, half of it.
SliceOfHalf(g, p, x, lo, half) ==
  LET nd   == g.nodes[p]
      in   == ShapeOf(g, x)
      out  == ShapeOf(g, Out(nd))
      rank == Len(in)
  IN  /\ nd.op = "Slice" /\ BareNode(nd, {"starts", "ends", "axes", "steps"}) /\ nd.steps = <<>> /\ nd.ins[1] = x
      /\ Len(out) = rank /\ Front(in) = Front(out) /\ Last(out) = half /\ Last(in) = 2 * half
      /\ Len(nd.attr.axes) = 1 /\ FromEnd(nd.attr.axes[1], rank) = rank - 1
      /\ nd.attr.starts = <<lo>>
      /\ Range(nd.attr.steps) \subseteq {1}

IsHalf(g, t, x, lo, half) == Producer(g, t) /= 0 /\ SliceOfHalf(g, Producer(g, t), x, lo, half)

RowsOfTables(g, cos, sin, half, positions) ==
  LET Table(t) == Len(ShapeOf(g, t)) = 2 /\ ShapeOf(g, t)[2] = half
  IN  /\ cos.attr.axis = 1 /\ sin.attr.axis = 1 /\ Table(cos.ins[1]) /\ Table(sin.ins[1])
      /\ cos.ins[2] = sin.ins[2] /\ ShapeOf(g, cos.ins[1]) = ShapeOf(g, sin.ins[1])
      /\ Size(ShapeOf(g, cos.ins[2])) = positions

\* One way to read two terms +s*r and -t*u: streams are halves of one source, rows are rows
\* of two tables of one height at one position.
Orientation(g, cat, e2, absorbed, s, r, t, u) ==
  LET out  == ShapeOf(g, Out(cat))
      part == ShapeOf(g, cat.ins[1])
      rank == Len(out)
      x    == g.nodes[Producer(g, s)].ins[1]
      behind == GatherBehind(g, r, 0, absorbed \union {s, t}) \X GatherBehind(g, u, 0, {})
  IN  IF /\ s /= t /\ r /= u /\ s /= r /\ t /= u
         /\ ShapeOf(g, s) = part /\ ShapeOf(g, t) = part
         /\ \A row \in {r, u} : ShapeOf(g, row) = [part EXCEPT ![rank - 1] = 1]
         /\ e2 = [m \in {Mono(s, u), Mono(t, r)} |-> 1]
         /\ IsHalf(g, s, x, 0, Last(part)) /\ IsHalf(g, t, x, Last(part), Last(part))
         /\ ShapeOf(g, x) = out
      THEN {[ins |-> <<x, b[1].gather.ins[2], b[1].gather.ins[1], b[2].gather.ins[1]>>,
             half |-> Last(part), internal |-> b[1].chain \union b[2].chain] :
              b \in {w \in behind : RowsOfTables(g, w[1].gather, w[2].gather, Last(part), Size(SubSeq(out, 1, rank - 2)))}}
      ELSE {}

\* The site at a Concat whose first half is one product minus another.  Each factor may be
\* the stream; one way fits at most, since streams come from a Slice and rows from a Gather.
Rotation(g, cat, o1, o2) ==
  LET Products(n) == {m \in DOMAIN o1.e : Len(m) = 2 /\ o1.e[m] = n}
      Try(p, m, i, j) == Orientation(g, cat, o2.e, o1.absorbed \union o2.absorbed, p[i], p[3 - i], m[j], m[3 - j])
  IN  IF Cardinality(DOMAIN o1.e) = 2 /\ Cardinality(DOMAIN o2.e) = 2
      THEN UNION {Try(p, m, ij[1], ij[2]) : p \in Products(1), m \in Products(-1), ij \in {1, 2} \X {1, 2}}
      ELSE {}

MatchSite(g, cat) ==
  LET part == ShapeOf(g, cat.ins[1])
      rank == Len(ShapeOf(g, Out(cat)))
  IN  IF /\ cat.op = "Concat" /\ BareNode(cat, {"axis"}) /\ cat.steps = <<>> /\ Len(cat.ins) = 2
         /\ part = ShapeOf(g, cat.ins[2]) /\ rank >= 3
         /\ cat.attr.axis = rank /\ Last(ShapeOf(g, Out(cat))) = 2 * Last(part)
      THEN Rotation(g, cat, ExprOf(g, cat.ins[1], 0), ExprOf(g, cat.ins[2], 0))
      ELSE {}

fuseRope(g) ==
  LET Rope(cat, sites) ==
        IF sites = {} \/ The(sites).internal \intersect g.pinned /= {} THEN cat
        ELSE [cat EXCEPT !.op = "Rope", !.ins = The(sites).ins, !.attr = [half |-> The(sites).half]]
  IN  CollectUnread(g, [g EXCEPT !.nodes = [i \in DOMAIN @ |-> Rope(@[i], MatchSite(g, @[i]))] \o <<>>])

-----------------------------------------------------------------------------
(* foldMatMulViews.  An axis of a view is a sequence of blocks, outer to   *)
(* inner, each a number of elements and the stride between them.  What may *)
(* be inexpressible is a set of at most one view.                          *)

Block(size, stride) == [size |-> size, stride |-> stride]
Extent(axis) == FoldLeft(LAMBDA n, b : n * b.size, 1, axis)
\* Blocks that are jointly dense merge, blocks of one element vanish.
canonicalAxis(axis) ==
  LET Add(out, b) == IF b.size = 1 THEN out
                     ELSE IF out /= <<>> /\ Last(out).stride = b.size * b.stride
                     THEN Append(Front(out), Block(Last(out).size * b.size, b.stride))
                     ELSE Append(out, b)
      merged == FoldLeft(Add, <<>>, axis)
  IN  IF merged = <<>> THEN <<Block(1, 0)>> ELSE merged

denseStrides(dims) == [i \in DOMAIN dims |-> IF dims[i] = 1 THEN 0 ELSE RowStrides(dims)[i]]

denseView(dims) == [i \in DOMAIN dims |-> <<Block(dims[i], denseStrides(dims)[i])>>]

\* The outer `need` elements of a queue of blocks, and what stays queued.
RECURSIVE Take(_, _, _)
Take(flat, need, axis) ==
  IF need = 1 THEN {[flat |-> flat, axis |-> canonicalAxis(axis)]}
  ELSE IF flat = <<>> THEN {}
  ELSE LET b == Head(flat)
           inner == b.size \div need
       IN  IF b.size <= need /\ need % b.size = 0 THEN Take(Tail(flat), need \div b.size, Append(axis, b))
           ELSE IF b.size > need /\ b.size % need = 0
           THEN Take(<<Block(inner, b.stride)>> \o Tail(flat), 1, Append(axis, Block(need, b.stride * inner)))
           ELSE {}

reshapeView(view, target) ==
  LET blocks == SelectSeq(FlattenSeq(view), LAMBDA b : b.size /= 1)
      Axis(S, n) == UNION {{[flat |-> r.flat, view |-> Append(w.view, r.axis)] : r \in Take(w.flat, n, <<>>)} : w \in S}
      ends == FoldLeft(Axis, {[flat |-> blocks, view |-> <<>>]}, target)
  IN  {w.view : w \in {x \in ends : x.flat = <<>>}}

Padded(view, rank) == [i \in 1..(rank - Len(view)) |-> <<Block(1, 0)>>] \o view

expandView(view, target) ==
  LET p == Padded(view, Len(target))
  IN  IF Len(target) < Len(view) \/ \E i \in DOMAIN p : Extent(p[i]) \notin {1, target[i]} THEN {}
      ELSE {[i \in DOMAIN p |-> IF Extent(p[i]) = target[i] THEN p[i] ELSE <<Block(target[i], 0)>>]}

Movers == {"Transpose", "Expand"}

applyChainOp(g, nd, view) ==
  LET out == ShapeOf(g, Out(nd))
  IN  CASE nd.op = "Transpose" -> LET perm == PermOf(nd, Len(view)) IN {[i \in DOMAIN perm |-> view[perm[i]]]}
        [] nd.op = "Expand" -> expandView(view, out)
        [] nd.op \in Metadata -> reshapeView(view, out)

\* The chain above an operand, from its source down.
RECURSIVE ChainAbove(_, _, _)
ChainAbove(g, t, hops) ==
  LET p == Producer(g, t)
  IN  IF hops = 16 \/ p = 0 THEN <<>>
      ELSE IF g.nodes[p].op \notin Movers \union Metadata \/ ~Bare(g.nodes[p]) \/ t \in g.pinned THEN <<>>
      ELSE Append(ChainAbove(g, g.nodes[p].ins[1], hops + 1), p)

resolveOperand(g, t) ==
  LET chain  == ChainAbove(g, t, 0)
      source == g.nodes[chain[1]].ins[1]
      views  == FoldLeft(LAMBDA S, p : UNION {applyChainOp(g, g.nodes[p], v) : v \in S},
                         {denseView(ShapeOf(g, source))}, chain)
  IN  IF (\E k \in DOMAIN chain : g.nodes[chain[k]].op \in Movers) /\ views /= {}
      THEN [view |-> The(views), source |-> source, folded |-> TRUE]
      ELSE [view |-> denseView(ShapeOf(g, t)), source |-> t, folded |-> FALSE]

\* refineAxis: two partitions of one extent, split at the boundaries of both.
RECURSIVE Refine(_, _, _)
Refine(pa, pb, out) ==
  IF pa = <<>> \/ pb = <<>> THEN IF pa = pb THEN {out} ELSE {}
  ELSE LET a == Head(pa)
           b == Head(pb)
           size == IF a.size < b.size THEN a.size ELSE b.size
           Rest(q) == IF Head(q).size = size THEN Tail(q)
                      ELSE <<Block(Head(q).size \div size, Head(q).stride)>> \o Tail(q)
           Outer(x) == x.stride * (x.size \div size)
       IN  IF a.size % size /= 0 \/ b.size % size /= 0 THEN {}
           ELSE Refine(Rest(pa), Rest(pb),
                       IF a.size = 1 /\ b.size = 1 /\ out /= <<>> THEN out
                       ELSE Append(out, [size |-> size, a |-> Outer(a), b |-> Outer(b)]))

singleStride(axis) == LET c == canonicalAxis(axis) IN IF Len(c) = 1 THEN {c[1].stride} ELSE {}

batchAxis(axis, want) ==
  CASE Extent(axis) = want -> {canonicalAxis(axis)}
    [] Extent(axis) = 1 /\ want /= 1 -> {<<Block(want, 0)>>}
    [] OTHER -> {}

\* The batch axes of two padded views over the coordinates of the result.
BatchBlocks(va, vb, out) ==
  LET Axis(S, i) == UNION {UNION {{w \o r : r \in Refine(a, b, <<>>)} :
                                    a \in batchAxis(va[i], out[i]), b \in batchAxis(vb[i], out[i])} : w \in S}
  IN  FoldLeft(Axis, {<<>>}, [i \in 1..(Len(out) - 2) |-> i])

\* Kernel-class parity: what the gemv4 kernel needs of B.
KeepsGemv(M, K, N, batch, bK, bN) ==
  M = 1 /\ K >= GemvMinK /\ N < GemvMaxN /\ N % GemvVec = 0 =>
    bN = 1 /\ bK % GemvVec = 0 /\ \A i \in DOMAIN batch : batch[i].b % GemvVec = 0

HasView(nd) == Has(nd, "aStride")

\* The product of two views, where the kernel can walk them.
ViewAttrs(a, b, out, M, N, K) ==
  LET rank == Len(out)
      Attr(batch, aM, aK, bK, bN) ==
        [dims    |-> [i \in DOMAIN batch |-> batch[i].size] \o <<M, N>>,
         aStride |-> [i \in DOMAIN batch |-> batch[i].a] \o <<aM, 0>>,
         bStride |-> [i \in DOMAIN batch |-> batch[i].b] \o <<0, bN>>,
         aK |-> aK, bK |-> bK, M |-> M, N |-> N, K |-> K]
  IN  {Attr(x[1], x[2], x[3], x[4], x[5]) :
         x \in {y \in BatchBlocks(a, b, out) \X singleStride(a[rank - 1]) \X singleStride(a[rank])
                        \X singleStride(b[rank - 1]) \X singleStride(b[rank]) :
                  KeepsGemv(M, K, N, y[1], y[4], y[5]) /\ Size([i \in DOMAIN y[1] |-> y[1][i].size]) * M * N = Size(out)}}

ViewedOperands(a, b, out, M, N, K) ==
  IF ~a.folded /\ ~b.folded THEN {}
  ELSE {[ins |-> <<a.source, b.source>>, attr |-> attr] :
          attr \in ViewAttrs(Padded(a.view, Len(out)), Padded(b.view, Len(out)), out, M, N, K)}

\* The operand views of a MatMul, if it is not of the tiled class and one folds.
MatMulViews(g, nd) ==
  LET sa == ShapeOf(g, nd.ins[1])
      sb == ShapeOf(g, nd.ins[2])
      M == sa[Len(sa) - 1]
      K == Last(sa)
      N == Last(sb)
  IN  IF \/ nd.op /= "MatMul" \/ HasView(nd) \/ Len(sa) < 2 \/ Len(sb) < 2
         \/ M >= TiledMin /\ N >= TiledMin /\ K >= TiledMin
      THEN {}
      ELSE ViewedOperands(resolveOperand(g, nd.ins[1]), resolveOperand(g, nd.ins[2]), ShapeOf(g, Out(nd)), M, N, K)

foldMatMulViews(g) ==
  LET Viewed(nd, views) ==
        IF views = {} THEN nd
        ELSE [nd EXCEPT !.ins = The(views).ins \o SubSeq(@, 3, Len(@)), !.attr = The(views).attr]
  IN  CollectUnread(g, [g EXCEPT !.nodes = [i \in DOMAIN @ |-> Viewed(@[i], MatMulViews(g, @[i]))] \o <<>>])

-----------------------------------------------------------------------------
(* fuseDecodeAttention.  A score is dot * scale + mask * maskScale.        *)

NoScaleMask == [scale |-> 1, maskScale |-> 1, mask |-> 0]

IsScalar(g, t) == IsConst(g, t) /\ Size(ShapeOf(g, t)) = 1

BroadcastsTo(dims, target) ==
  /\ Len(dims) <= Len(target)
  /\ \A i \in DOMAIN dims : dims[i] \in {1, target[Len(target) - Len(dims) + i]}

\* A product with a scalar initializer scales what was summed so far; one sum adds the mask.
absorbStep(g, sm, kind, t, scores) ==
  CASE kind = "Mul" /\ IsScalar(g, t) ->
         LET n == Factor(g.const[t][1], Unity)
         IN  {[sm EXCEPT !.scale = n * @, !.maskScale = IF sm.mask = 0 THEN @ ELSE n * @]}
    [] kind = "Add" /\ sm.mask = 0 /\ BroadcastsTo(ShapeOf(g, t), scores) -> {[sm EXCEPT !.mask = t, !.maskScale = 1]}
    [] OTHER -> {}

\* The unit on a MatMul, if each step takes the running value and an operand of its own.
decodeEpilogue(g, nd, scores) ==
  LET Absorb(S, k) ==
        LET step    == nd.steps[k]
            running == IF k = 1 THEN <<"entry">> ELSE <<"acc">>
            operand == IF step.src[1] = running THEN step.src[2] ELSE step.src[1]
        IN  IF /\ step.kind \in {"Add", "Sub", "Mul"} /\ step.dst = 0 /\ running \in Range(step.src)
               /\ operand[1] = "op" /\ operand[2] > nd.opbase
            THEN UNION {absorbStep(g, sm, step.kind, nd.ins[operand[2]], scores) : sm \in S} ELSE {}
  IN  IF nd.steps /= <<>> /\ nd.pwOuts /= <<>> THEN {}
      ELSE FoldLeftDomain(Absorb, {NoScaleMask}, nd.steps)

\* The MatMul that t comes from, and the scale and mask nodes between them, top down.
RECURSIVE ScoresFrom(_, _, _, _, _)
ScoresFrom(g, removed, scores, t, hops) ==
  LET p  == Producer(g, t)
      nd == g.nodes[p]
      InChain(x) == Producer(g, x) /= 0 /\ g.nodes[Producer(g, x)].op \in {"MatMul", "Add", "Sub", "Mul"}
      on == IF InChain(nd.ins[1]) THEN 1 ELSE 2
  IN  IF hops = 4 \/ p \in removed \union {0} THEN {}
      ELSE IF nd.op = "MatMul" THEN {[qk |-> p, steps |-> <<>>]}
      ELSE IF \/ nd.op \notin {"Mul", "Add"} \/ ~Bare(nd) \/ Len(nd.ins) /= 2
              \/ ShapeOf(g, Out(nd)) /= scores \/ ~InChain(nd.ins[on]) THEN {}
      ELSE {[c EXCEPT !.steps = Append(@, [node |-> p, operand |-> nd.ins[3 - on]])] :
              c \in ScoresFrom(g, removed, scores, nd.ins[on], hops + 1)}

\* A tensor the fusion erases has one reader, is no output and is not pinned.
Interior(g, t) == OnlyReader(g, t) /\ ~IsOutput(g, t) /\ t \notin g.pinned

SoleReader(g, t) == (CHOOSE r \in InputReads(g, t) : TRUE)[1]

\* Transposing leaves the order of the elements as it is.
flatIdentityPerm(dims, nd) ==
  /\ Has(nd, "perm")
  /\ \A i, j \in DOMAIN dims : i < j /\ dims[nd.attr.perm[i]] /= 1 /\ dims[nd.attr.perm[j]] /= 1
                                => nd.attr.perm[i] < nd.attr.perm[j]

\* The output tail: nodes after t that leave the order of its elements as it is.
RECURSIVE OutputTail(_, _, _)
OutputTail(g, removed, t) ==
  LET i  == SoleReader(g, t)
      nd == g.nodes[i]
  IN  IF ~Interior(g, t) THEN [out |-> t, nodes |-> {}]
      ELSE IF \/ i \in removed \/ ~Bare(nd)
              \/ ~(IF nd.op = "Transpose" THEN flatIdentityPerm(ShapeOf(g, t), nd) ELSE nd.op \in Metadata)
      THEN [out |-> t, nodes |-> {}]
      ELSE LET rest == OutputTail(g, removed, Out(nd)) IN [rest EXCEPT !.nodes = @ \union {i}]

\* maskStridesOverDims: the mask's stride along each dim, the dims splitting the scores' axes.
MaskStrides(scores, mask, dims) ==
  LET pad == Len(scores) - Len(mask)
      AxisStride(i) == IF i > pad THEN IF mask[i - pad] = scores[i] THEN denseStrides(mask)[i - pad] ELSE 0 ELSE 0
      Left(axis) == [axis |-> axis, rem |-> scores[axis], stride |-> AxisStride(axis)]
      \* past the axes that are used up
      Skip(w) == LET later == {i \in (w.axis + 1)..Len(scores) : scores[i] /= 1}
                 IN  IF w.rem /= 1 \/ later = {} THEN w
                     ELSE Left(CHOOSE i \in later : \A j \in later : i <= j)
      Split(S, n) ==
        UNION {LET a == Skip(w.at)
                   rem == a.rem \div n
               IN  IF n = 1 THEN {[w EXCEPT !.out = Append(@, 0)]}
                   ELSE IF a.rem % n /= 0 THEN {}
                   ELSE {[at |-> [a EXCEPT !.rem = rem], out |-> Append(w.out, a.stride * rem)]} : w \in S}
      ends == FoldLeft(Split, {[at |-> Left(1), out |-> <<>>]}, dims)
  IN  {w.out : w \in {x \in ends : x.at.rem = 1}}

\* The views of both products fit one kernel, and the second reads the scores as written.
GeometryFits(qk, pv) ==
  LET rank == Len(qk.dims)
      dense == denseStrides(qk.dims)
  IN  /\ Len(pv.dims) = rank
      /\ pv.M = qk.M /\ pv.K = qk.N /\ qk.N <= MaxContext /\ pv.N <= MaxHeadDim
      /\ Front(pv.dims) = Front(qk.dims)
      /\ pv.aK = 1 /\ pv.aStride[rank] = 0
      /\ \A d \in 1..(rank - 1) : qk.dims[d] = 1 \/ pv.aStride[d] = dense[d]

\* The first row axis that neither K nor V moves along is the group of queries it stages.
GroupSize(a) ==
  LET shared == {d \in DOMAIN a.dims : a.dims[d] > 1 /\ a.kStride[d] = 0 /\ a.vStride[d] = 0}
  IN  IF shared = {} THEN 1 ELSE a.dims[CHOOSE d \in shared : \A e \in shared : d <= e]

\* The attributes of the fused node; of several queries, their axis is one more row axis.
AttentionAttr(qk, pv, sm, mask) ==
  LET rank == Len(qk.dims)
      Rows(s) == SubSeq(s, 1, IF qk.M > 1 THEN rank - 1 ELSE rank - 2)
  IN  [dims |-> Rows(qk.dims), qStride |-> Rows(qk.aStride), kStride |-> Rows(qk.bStride), vStride |-> Rows(pv.bStride),
       qK |-> qk.aK, kN |-> qk.bStride[rank], kK |-> qk.bK, vN |-> pv.bStride[rank], vK |-> pv.bK,
       C |-> qk.N, hd |-> pv.N, scale |-> sm.scale, maskScale |-> sm.maskScale,
       mStride |-> Rows(mask), mN |-> mask[rank]]

\* The attention around a Softmax: the fused node and the nodes it replaces.
AttentionAt(g, removed, i) ==
  LET sm == g.nodes[i]
      scores == ShapeOf(g, sm.ins[1])
      Scaled(c) == FoldLeft(LAMBDA S, s : UNION {absorbStep(g, x, g.nodes[s.node].op, s.operand, scores) : x \in S},
                            decodeEpilogue(g, g.nodes[c.qk], scores), c.steps)
      Masks(x, dims) == IF x.mask = 0 THEN {[d \in DOMAIN dims |-> 0]} ELSE MaskStrides(scores, ShapeOf(g, x.mask), dims)
      Site(c, x) ==
        LET qk == g.nodes[c.qk]
            p  == SoleReader(g, Out(sm))
            pv == g.nodes[p]
            between == {c.qk, i} \union {c.steps[k].node : k \in DOMAIN c.steps}
            tail == OutputTail(g, removed, Out(pv))
            Fused(mask) ==
              MkNode("FusedAttention", <<qk.ins[1], qk.ins[2], pv.ins[2]>> \o (IF x.mask = 0 THEN <<>> ELSE <<x.mask>>), <<tail.out>>)
                @@ [attr |-> AttentionAttr(qk.attr, pv.attr, x, mask)]
        IN  IF /\ HasView(qk) /\ qk.act = "None" /\ qk.bias = 0 /\ Len(qk.outs) = 1 /\ ShapeOf(g, Out(qk)) = scores
               /\ \A j \in between : Interior(g, Out(g.nodes[j]))
               /\ p \notin removed /\ pv.op = "MatMul" /\ Bare(pv) /\ HasView(pv) /\ pv.ins[1] = Out(sm)
               /\ GeometryFits(qk.attr, pv.attr)
            THEN {[node |-> Fused(m), replaced |-> between \union {p} \union tail.nodes] :
                    m \in {n \in Masks(x, qk.attr.dims) : qk.attr.M = 1 \/ n[Len(n) - 1] /= 0}}
            ELSE {}
      sites == UNION {UNION {Site(c, x) : x \in Scaled(c)} : c \in ScoresFrom(g, removed, scores, sm.ins[1], 0)}
  IN  IF sm.op /= "Softmax" \/ ~Bare(sm) \/ i \in removed THEN {}
      ELSE {s \in sites : GroupSize(s.node.attr) * s.node.attr.hd <= MaxStaging}

fuseDecodeAttention(g) ==
  LET Fused(w, sites) ==
        IF sites = {} THEN w
        ELSE [removed |-> w.removed \union The(sites).replaced, added |-> Append(w.added, The(sites).node)]
      Ordered(w) == IF w.added = <<>> THEN g ELSE TopoSort([DropNodes(g, w.removed) EXCEPT !.nodes = @ \o w.added])
  IN  CollectUnread(g, Ordered(FoldLeftDomain(LAMBDA w, i : Fused(w, AttentionAt(g, w.removed, i)),
                                              [removed |-> {}, added |-> <<>>], g.nodes)))

-----------------------------------------------------------------------------
(* foldFusedAttentionKvConcat.                                             *)

\* decomposeStride: how far a stride moves along each axis, if it is a view of the shape.
decomposeStride(stride, dims) ==
  LET st == RowStrides(dims)
      coeff == [i \in DOMAIN dims |-> IF i = 1 THEN stride \div st[1] ELSE (stride % st[i - 1]) \div st[i]]
  IN  IF \A i \in DOMAIN dims : coeff[i] < dims[i] THEN {coeff} ELSE {}

\* Addressing over a concatenation, as addressing of one of its operands.
RemapStride(stride, whole, axis, step, part) ==
  {Address(c, RowStrides(part)) : c \in {d \in decomposeStride(stride, whole) : d[axis] = step}}

remapOntoOperand(rows, token, elem, whole, axis, part) ==
  LET Row(i) == RemapStride(rows[i], whole, axis, 0, part)
      \* a token is one step of the joined axis and of no other
      Token == {t \in RemapStride(token, whole, axis, 1, part) : token = RowStrides(whole)[axis]}
  IN  IF \A i \in DOMAIN rows : Row(i) /= {}
      THEN {[rows |-> [i \in DOMAIN rows |-> The(Row(i))], token |-> t, elem |-> e] :
              t \in Token, e \in RemapStride(elem, whole, axis, 0, part)}
      ELSE {}

bareConcat(nd) == nd.op = "Concat" /\ Len(nd.ins) = 2 /\ Bare(nd) /\ DOMAIN nd.attr = {"axis"}

\* References to t outside one node.
ExternalConsumers(g, t, i) == {j \in DOMAIN g.nodes \ {i} : t \in Range(g.nodes[j].ins) \union {g.nodes[j].bias}}

\* The fold of one attention, if its keys and its values are the past joined with new rows.
FoldPlans(g, i) ==
  LET fa == g.nodes[i]
      a  == fa.attr
      kp == Producer(g, fa.ins[2])
      vp == Producer(g, fa.ins[3])
      k  == g.nodes[kp]
      v  == g.nodes[vp]
      Dim(cat, t) == ShapeOf(g, t)[cat.attr.axis]
      pastLen == Dim(k, k.ins[1])
      Split(cat) == /\ Dim(cat, Out(cat)) = a.C /\ Dim(cat, cat.ins[1]) = pastLen /\ Dim(cat, cat.ins[2]) = a.C - pastLen
                    /\ ExternalConsumers(g, Out(cat), i) = {}
      Onto(cat, slot, rows, token, elem) ==
        remapOntoOperand(rows, token, elem, ShapeOf(g, Out(cat)), cat.attr.axis, ShapeOf(g, cat.ins[slot]))
      K(slot) == Onto(k, slot, a.kStride, a.kN, a.kK)
      V(slot) == Onto(v, slot, a.vStride, a.vK, a.vN)
  IN  IF fa.op /= "FusedAttention" \/ kp = 0 \/ vp = 0 \/ kp = vp THEN {}
      ELSE IF ~bareConcat(k) \/ ~bareConcat(v) \/ Len(fa.ins) > 4 THEN {}
      ELSE IF ~Split(k) \/ ~Split(v) THEN {}
      ELSE {[node |-> i, k |-> kp, v |-> vp, pastLen |-> pastLen, kPast |-> x[1], kNew |-> x[2], vPast |-> x[3], vNew |-> x[4]] :
              x \in K(1) \X K(2) \X V(1) \X V(2)}

SplitSources(g, plan) ==
  LET k == g.nodes[plan.k]
      v == g.nodes[plan.v]
      Mask(ins) == IF Len(ins) = 4 THEN ins[4] ELSE 0
      At2(nd) == [nd EXCEPT !.ins = <<@[1], k.ins[1], v.ins[1], Mask(@), k.ins[2], v.ins[2]>>,
                            !.attr = [kStride |-> plan.kPast.rows, kN |-> plan.kPast.token, kK |-> plan.kPast.elem,
                                      vStride |-> plan.vPast.rows, vK |-> plan.vPast.token, vN |-> plan.vPast.elem,
                                      kNewStride |-> plan.kNew.rows, kNewN |-> plan.kNew.token, kNewK |-> plan.kNew.elem,
                                      vNewStride |-> plan.vNew.rows, vNewK |-> plan.vNew.token, vNewN |-> plan.vNew.elem,
                                      pastLen |-> plan.pastLen] @@ @]
  IN  [g EXCEPT !.nodes[plan.node] = At2(@), !.outs = Subst(Subst(@, Out(k), k.ins[2]), Out(v), v.ins[2])]

\* All present outputs become rows, or none does.
foldFusedAttentionKvConcat(g) ==
  LET plans   == UNION {FoldPlans(g, i) : i \in DOMAIN g.nodes}
      covered == UNION {{Out(g.nodes[p.k]), Out(g.nodes[p.v])} : p \in plans}
      joined  == {t \in Range(g.outs) : Producer(g, t) /= 0 /\ g.nodes[Producer(g, t)].op = "Concat"}
  IN  IF plans = {} \/ ~(joined \subseteq covered) THEN g
      ELSE eliminateDeadNodes(FoldSet(LAMBDA p, h : SplitSources(h, p), g, plans))

-----------------------------------------------------------------------------
(* foldMovementChains.                                                     *)

\* Where a movement reads, given the strides of its operand: its result is a walk of the
\* operand by strides from a base.
movementMapOf(g, nd, strides) ==
  LET in == ShapeOf(g, nd.ins[1])
      b  == SliceBounds(nd, in, SliceStart)
  IN  CASE Has(nd, "view_stride") -> {[stride |-> nd.attr.view_stride, base |-> nd.attr.view_base]}
        [] nd.op = "Transpose" /\ ~Has(nd, "view_stride") ->
             LET perm == PermOf(nd, Len(in)) IN {[stride |-> [i \in DOMAIN perm |-> strides[perm[i]]], base |-> 0]}
        [] nd.op = "Slice" /\ ~Has(nd, "view_stride") ->
             IF \E k \in DOMAIN nd.attr.starts : SliceStep(nd, k) <= 0 THEN {}
             ELSE {[stride |-> [i \in DOMAIN in |-> strides[i] * b.step[i]], base |-> Address(b.begin, strides)]}

movementEligible(nd) == nd.op \in {"Transpose", "Slice"} /\ Len(nd.outs) = 1 /\ nd.steps = <<>> /\ nd.pwOuts = <<>>

\* A consumer's own map over the strides its producer reads with.
ComposedMaps(g, producer, nd) ==
  UNION {{[stride |-> f.stride, base |-> m.base + f.base] : f \in movementMapOf(g, nd, m.stride)} :
           m \in movementMapOf(g, producer, RowStrides(ShapeOf(g, producer.ins[1])))}

\* One round: producers and readers are those of its start, nodes are rewritten in place.
MovementRound(g) ==
  LET Visit(w, i) ==
        LET nd   == w.g.nodes[i]
            p    == Producer(g, nd.ins[1])
            maps == ComposedMaps(w.g, w.g.nodes[p], nd)
            view == [view_stride |-> The(maps).stride, view_base |-> The(maps).base]
        IN  IF ~movementEligible(nd) \/ Has(nd, "view_stride") \/ p \in w.removed \union {0} THEN w
            ELSE IF ~movementEligible(w.g.nodes[p]) \/ ~Interior(g, nd.ins[1]) THEN w
            ELSE IF maps = {} THEN w
            ELSE [g |-> [w.g EXCEPT !.nodes[i] = [nd EXCEPT !.ins[1] = w.g.nodes[p].ins[1], !.attr = view @@ @]],
                  removed |-> w.removed \union {p}]
  IN  Sweep(Visit, g)

RECURSIVE foldMovementChains(_)
foldMovementChains(g) == LET h == MovementRound(g) IN IF h.nodes = g.nodes THEN g ELSE foldMovementChains(h)
==============================================================================
