------------------------------- MODULE Elements -------------------------------
(***************************************************************************)
(* What the operators of a decoder compute, element by element, as the CPU *)
(* backend's kernels do (src/backend/cpu/ops).  Here a tensor's shape is a *)
(* sequence of extents, a node has its attributes in attr, and a value is  *)
(* the sequence of a tensor's elements in row-major order.                 *)
(*                                                                         *)
(* An element is a sum: a function from atoms to integer factors.  An atom *)
(* is an element of a graph input, a product of atoms, a dot product over  *)
(* rising k, or an entry of a softmax over a row.  Floats are not rounded. *)
(***************************************************************************)
EXTENDS ImportGraph

Has(nd, name) == name \in DOMAIN nd.attr

Atom(a) == [x \in {a} |-> 1]
Unity == <<"one">>
Number(n) == [x \in {Unity} |-> n]

Factor(e, a) == IF a \in DOMAIN e THEN e[a] ELSE 0
Nonzero(e) == Restrict(e, {a \in DOMAIN e : e[a] /= 0})

PlusE(a, b) == Nonzero([x \in DOMAIN a \union DOMAIN b |-> Factor(a, x) + Factor(b, x)])
ScaleE(n, a) == Nonzero([x \in DOMAIN a |-> n * a[x]])

Times(x, y) == IF x = Unity THEN y ELSE IF y = Unity THEN x ELSE <<"product", {x, y}>>
TimesE(a, b) ==
  FoldSet(LAMBDA p, e : PlusE(e, [x \in {Times(p[1], p[2])} |-> a[p[1]] * b[p[2]]]),
          Number(0), (DOMAIN a) \X (DOMAIN b))

BinaryE(op, a, b) ==
  CASE op = "Add" -> PlusE(a, b)
    [] op = "Sub" -> PlusE(a, ScaleE(-1, b))
    [] op = "Mul" -> TimesE(a, b)

\* A sum of products over rising k, and the softmax of a row.
DotE(pairs) == Atom(<<"dot", pairs>>)
SoftmaxE(row) == [j \in DOMAIN row |-> Atom(<<"softmax", row, j>>)]

-----------------------------------------------------------------------------
(* Addressing.                                                             *)
RECURSIVE Size(_), RowStrides(_)
Size(dims) == IF dims = <<>> THEN 1 ELSE Head(dims) * Size(Tail(dims))

RowStrides(dims) == IF dims = <<>> THEN <<>> ELSE <<Size(Tail(dims))>> \o RowStrides(Tail(dims))

Coordinates(dims, st, flat) == [i \in DOMAIN dims |-> (flat \div st[i]) % dims[i]]

Address(coord, stride) ==
  LET upTo[i \in 0..Len(stride)] == IF i = 0 THEN 0 ELSE upTo[i - 1] + coord[i] * stride[i] IN upTo[Len(stride)]

At(value, address) == IF address + 1 \in DOMAIN value THEN value[address + 1] ELSE Atom(<<"outside">>)

\* One element for each coordinate of dims, and what an affine walk of a value reads.
OverDims(dims, E(_)) ==
  LET st == RowStrides(dims) IN [j \in 1..Size(dims) |-> E(Coordinates(dims, st, j - 1))]

Walk(value, dims, stride, base) == OverDims(dims, LAMBDA c : At(value, base + Address(c, stride)))

\* NumPy broadcasting: shapes align at the right, an axis of one is repeated.
BroadcastStrides(dims, target) ==
  LET pad == Len(target) - Len(dims)
      st  == RowStrides(dims)
  IN  [i \in DOMAIN target |-> IF i <= pad \/ dims[i - pad] = 1 THEN 0 ELSE st[i - pad]]

BroadcastV(value, dims, target) == Walk(value, target, BroadcastStrides(dims, target), 0)

\* ONNX permutations: absent, the axes are reversed.
PermOf(nd, rank) == IF Has(nd, "perm") THEN nd.attr.perm ELSE [i \in 1..rank |-> rank + 1 - i]

\* resolveSliceAxis: the first index of a slice, and how many it has.
InRange(x, lo, hi) == IF x < lo THEN lo ELSE IF x > hi THEN hi ELSE x
FromEnd(x, dim) == IF x < 0 THEN x + dim ELSE x

SliceStart(dim, start, step) ==
  IF step > 0 THEN InRange(FromEnd(start, dim), 0, dim) ELSE InRange(FromEnd(start, dim), 0, dim - 1)

SliceCount(dim, start, end, step) ==
  LET s == SliceStart(dim, start, step)
  IN  IF step > 0
      THEN LET e == InRange(FromEnd(end, dim), 0, dim) IN IF e > s THEN (e - s + step - 1) \div step ELSE 0
      ELSE LET e == InRange(FromEnd(end, dim), -1, dim - 1) IN IF s > e THEN (s - e - step - 1) \div (-step) ELSE 0

\* The step of each axis of a Slice and where it starts: the k-th entry of the lists is
\* for the k-th of its axes, or axis k - 1 when they are not given.
SliceAxis(nd, rank, k) == FromEnd(IF k \in DOMAIN nd.attr.axes THEN nd.attr.axes[k] ELSE k - 1, rank) + 1
SliceStep(nd, k) == IF k \in DOMAIN nd.attr.steps THEN nd.attr.steps[k] ELSE 1

SliceBounds(nd, dims, Start(_, _, _)) ==
  FoldLeftDomain(
    LAMBDA b, k : LET ax == SliceAxis(nd, Len(dims), k)
                  IN  [begin |-> [b.begin EXCEPT ![ax] = Start(dims[ax], nd.attr.starts[k], SliceStep(nd, k))],
                       step  |-> [b.step EXCEPT ![ax] = SliceStep(nd, k)]],
    [begin |-> [i \in DOMAIN dims |-> 0], step |-> [i \in DOMAIN dims |-> 1]], nd.attr.starts)

-----------------------------------------------------------------------------
(* Kernels.  in and out are the extents of the operands and of the result, *)
(* v the operands' values.                                                 *)

TransposeV(nd, in, out, v) ==
  LET st == RowStrides(in[1])
      perm == PermOf(nd, Len(out))
  IN  Walk(v[1], out, [i \in DOMAIN out |-> st[perm[i]]], 0)

SliceV(nd, in, out, v) ==
  LET st == RowStrides(in[1])
      b  == SliceBounds(nd, in[1], SliceStart)
  IN  Walk(v[1], out, [i \in DOMAIN st |-> st[i] * b.step[i]], Address(b.begin, st))

\* runViewGather: a folded chain of movements.
ViewGatherV(nd, out, v) == Walk(v[1], out, nd.attr.view_stride, nd.attr.view_base)

ConcatV(nd, in, out, v) ==
  LET first == in[1][nd.attr.axis]
      Part(c) == IF c[nd.attr.axis] < first THEN 1 ELSE 2
      Shifted(c) == [i \in DOMAIN c |-> IF Part(c) = 2 /\ i = nd.attr.axis THEN c[i] - first ELSE c[i]]
  IN  OverDims(out, LAMBDA c : At(v[Part(c)], Address(Shifted(c), RowStrides(in[Part(c)]))))

\* A MatMul's rows and columns, through given strides.
ProductV(v, dims, aStride, bStride, aK, bK, K) ==
  OverDims(dims, LAMBDA c : DotE([k \in 1..K |->
    <<At(v[1], Address(c, aStride) + (k - 1) * aK), At(v[2], Address(c, bStride) + (k - 1) * bK)>>]))

MatMulV(in, out, v) ==
  LET batch == SubSeq(out, 1, Len(out) - 2)
      K == Last(in[1])
      N == Last(in[2])
      Batch(s, tail) == SubSeq(BroadcastStrides(s, batch \o SubSeq(s, Len(s) - 1, Len(s))), 1, Len(batch)) \o tail
  IN  ProductV(v, out, Batch(in[1], <<K, 0>>), Batch(in[2], <<0, 1>>), 1, N, K)

ViewMatMulV(nd, v) ==
  ProductV(v, nd.attr.dims, nd.attr.aStride, nd.attr.bStride, nd.attr.aK, nd.attr.bK, nd.attr.K)

\* Over the last axis.
SoftmaxV(dims, v) ==
  LET n == Last(dims)
  IN  [j \in 1..Size(dims) |-> LET row == (j - 1) \div n
                               IN  SoftmaxE(SubSeq(v[1], row * n + 1, (row + 1) * n))[((j - 1) % n) + 1]]

\* A row of a table at a position the graph computes.
TableAt(table, width, j, pos) ==
  Atom(<<"at", [p \in 1..(Len(table) \div width) |-> table[(p - 1) * width + j]], pos>>)

GatherV(in, v) ==
  LET w == in[1][2]
  IN  [j \in 1..(Len(v[2]) * w) |-> TableAt(v[1], w, ((j - 1) % w) + 1, v[2][(j - 1) \div w + 1])]

RopeV(nd, in, v) ==
  LET half == nd.attr.half
      heads == in[1][Len(in[1]) - 1]
  IN  [e \in 1..Size(in[1]) |->
         LET row == (e - 1) \div (2 * half)
             j   == (e - 1) % (2 * half)
             pos == v[2][row \div heads + 1]
             X(k) == v[1][row * 2 * half + k + 1]
             Row(t) == TableAt(v[t], half, (j % half) + 1, pos)
         IN  IF j < half THEN BinaryE("Sub", TimesE(X(j), Row(3)), TimesE(X(j + half), Row(4)))
             ELSE BinaryE("Add", TimesE(X(j - half), Row(4)), TimesE(X(j), Row(3)))]

\* FusedAttentionCpu: a row's scores over the past and then the new tokens, their
\* softmax, and the context in the same order.
FusedAttentionV(nd, v) ==
  LET a == nd.attr
      hasMask == Len(nd.ins) > 3 /\ nd.ins[4] /= 0
      past == IF Has(nd, "pastLen") THEN a.pastLen ELSE a.C
      ToK(r, s, d) == IF s < past THEN At(v[2], Address(r, a.kStride) + s * a.kN + d * a.kK)
                      ELSE At(v[5], Address(r, a.kNewStride) + (s - past) * a.kNewN + d * a.kNewK)
      ToV(r, s, n) == IF s < past THEN At(v[3], Address(r, a.vStride) + s * a.vK + n * a.vN)
                      ELSE At(v[6], Address(r, a.vNewStride) + (s - past) * a.vNewK + n * a.vNewN)
      Score(r, s) ==
        LET dot == DotE([d \in 1..a.hd |-> <<At(v[1], Address(r, a.qStride) + (d - 1) * a.qK), ToK(r, s, d - 1)>>])
        IN  IF hasMask
            THEN PlusE(ScaleE(a.scale, dot), ScaleE(a.maskScale, At(v[4], Address(r, a.mStride) + s * a.mN)))
            ELSE ScaleE(a.scale, dot)
      Context(r) == LET p == SoftmaxE([s \in 1..a.C |-> Score(r, s - 1)])
                    IN  [n \in 1..a.hd |-> DotE([s \in 1..a.C |-> <<p[s], ToV(r, s - 1, n - 1)>>])]
  IN  FlattenSeq(OverDims(a.dims, Context))

-----------------------------------------------------------------------------
CoreV(nd, in, out, v) ==
  CASE Has(nd, "view_stride") -> ViewGatherV(nd, out, v)
    [] nd.op = "Transpose" -> TransposeV(nd, in, out, v)
    [] nd.op = "Slice" -> SliceV(nd, in, out, v)
    [] nd.op \in {"Reshape", "Unsqueeze", "Squeeze", "FusedPointwise"} -> v[1]
    [] nd.op = "Expand" -> BroadcastV(v[1], in[1], out)
    [] nd.op = "Concat" -> ConcatV(nd, in, out, v)
    [] nd.op \in {"Add", "Sub", "Mul"} ->
         LET a == BroadcastV(v[1], in[1], out)
             b == BroadcastV(v[2], in[2], out)
         IN  [j \in DOMAIN a |-> BinaryE(nd.op, a[j], b[j])]
    [] nd.op = "MatMul" -> IF Has(nd, "aStride") THEN ViewMatMulV(nd, v) ELSE MatMulV(in, out, v)
    [] nd.op = "Softmax" -> SoftmaxV(out, v)
    [] nd.op = "Gather" -> GatherV(in, v)
    [] nd.op = "Rope" -> RopeV(nd, in, v)
    [] nd.op = "FusedAttention" -> FusedAttentionV(nd, v)

\* The steps of a unit over each element of the entry value.
SteppedV(nd, in, out, v, entry) ==
  LET operands == [k \in DOMAIN in |-> IF k > nd.opbase THEN BroadcastV(v[k], in[k], out) ELSE <<>>]
      Ref(m, r, j) == CASE r[1] = "acc"   -> m.acc
                        [] r[1] = "entry" -> entry[j]
                        [] r[1] = "reg"   -> m.reg[r[2]]
                        [] r[1] = "op"    -> operands[r[2]][j]
      Exec(m, step, j) ==
        LET acc == IF step.kind = "Load" THEN Ref(m, step.src[1], j)
                   ELSE BinaryE(step.kind, Ref(m, step.src[1], j), Ref(m, step.src[2], j))
        IN  [acc |-> acc, reg |-> IF step.dst = 0 THEN m.reg ELSE [m.reg EXCEPT ![step.dst] = acc]]
  IN  [j \in DOMAIN entry |->
         FoldLeft(LAMBDA m, step : Exec(m, step, j), [acc |-> entry[j], reg |-> [r \in 1..2 |-> Number(0)]], nd.steps).acc]

Computed(nd, in, out, v) ==
  LET core == CoreV(nd, in, out, v)
  IN  IF nd.steps = <<>> THEN core ELSE SteppedV(nd, in, out, v, core)

InputV(dims, t) == [j \in 1..Size(dims) |-> Atom(<<"in", t, j>>)]

\* The values of all tensors, of nodes run in list order.
ElementValues(g) ==
  LET Operands(f, nd) == [k \in DOMAIN nd.ins |-> IF nd.ins[k] = 0 THEN <<>> ELSE f[nd.ins[k]]] \o <<>>
  IN  FoldLeft(
        LAMBDA val, nd : [val EXCEPT ![nd.outs[1]] =
                            Computed(nd, Operands(g.shape, nd), g.shape[nd.outs[1]], Operands(val, nd)) \o <<>>],
        [t \in TensorIds(g) |-> IF IsConst(g, t) THEN g.const[t]
                                ELSE IF t \in g.inputs THEN InputV(g.shape[t], t) \o <<>> ELSE <<>>] \o <<>>,
        g.nodes)
==============================================================================
