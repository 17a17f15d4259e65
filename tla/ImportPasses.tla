----------------------------- MODULE ImportPasses -----------------------------
(***************************************************************************)
(* The graph passes of src/import that remove, lower, fold and fuse single *)
(* nodes, each an operator from graphs to graphs, in the order in which    *)
(* runStandardPasses applies them.                                         *)
(***************************************************************************)
EXTENDS ImportGraph

IsOutput(g, t) == OutputReads(g, t) /= {}

Consumed(g, t) == InputReads(g, t) /= {} \/ IsOutput(g, t)
                    \/ \E i \in DOMAIN g.nodes : g.nodes[i].bias = t

\* eliminateDropout.  "Dropout" has training off, "Train" a training mode that is
\* not a constant false; a second output is the mask.
eliminateDropout(g) ==
  Sweep(LAMBDA w, i :
          LET dp == w.g.nodes[i]
          IN  IF dp.op = "Dropout" /\ (Len(dp.outs) = 1 \/ ~Consumed(w.g, dp.outs[2]))
              THEN [g |-> RewireTensor(w.g, dp.outs[1], dp.ins[1]), removed |-> w.removed \union {i}]
              ELSE w,
        g)

-----------------------------------------------------------------------------
\* lowerVariadicElementwise: a Sum of other than two operands and every Mean
\* become a chain of two-operand steps; the first takes the node's place.
IsVariadic(nd) == nd.op = "Mean" \/ (nd.op = "Add" /\ Len(nd.ins) /= 2)

LowerVariadic(w, i) ==
  LET nd    == w.g.nodes[i]
      n     == Len(nd.ins)
      out   == nd.outs[1]
      shape == w.g.shape[out]
      first == NewTensor(w.g)
      steps == n - 1
      partials == IF nd.op = "Mean" THEN steps ELSE steps - 1
      h     == FoldLeftDomain(LAMBDA a, k : AddTensor(a, shape, w.g.dtype[out]), w.g, [k \in 1..partials |-> k])
      Result(k) == IF k = steps /\ nd.op = "Add" THEN out ELSE first + k
      Step(k)   == MkNode("Add", <<IF k = 1 THEN nd.ins[1] ELSE Result(k - 1), nd.ins[k + 1]>>, <<Result(k)>>)
      scaled == AddConst(h, "c", F(<<"reciprocal", n>>))
      scale  == MkNode("Mul", <<Result(steps), NewTensor(scaled)>>, <<out>>)
      rest   == [k \in 1..(steps - 1) |-> Step(k + 1)]
  IN  IF n = 1 THEN [g |-> [w.g EXCEPT !.nodes[i] = MkNode("Identity", nd.ins, <<out>>)], appended |-> w.appended]
      ELSE IF nd.op = "Mean"
      THEN [g |-> [scaled EXCEPT !.nodes[i] = Step(1)], appended |-> w.appended \o rest \o <<scale>>]
      ELSE [g |-> [h EXCEPT !.nodes[i] = Step(1)], appended |-> w.appended \o rest]

\* Lowerings append the extra nodes and sort.
Lower(Matches(_, _), Rewrite(_, _), g) ==
  LET end == FoldLeftDomain(LAMBDA w, i : IF Matches(w.g, w.g.nodes[i]) THEN Rewrite(w, i) ELSE w,
                            [g |-> g, appended |-> <<>>], g.nodes)
  IN  IF end.appended = <<>> THEN end.g
      ELSE TopoSort([end.g EXCEPT !.nodes = @ \o end.appended])

lowerVariadicElementwise(g) == Lower(LAMBDA h, nd : IsVariadic(nd), LowerVariadic, g)

-----------------------------------------------------------------------------
\* eliminateIdentity.  The result of a removed Identity that is a graph output
\* keeps its tensor: the producer of the input writes it instead.
RenameOutput(g, i, from, to) ==
  [g EXCEPT !.nodes[i].outs = Subst(@, from, to)]

eliminateIdentity(g) ==
  Sweep(LAMBDA w, i :
          LET id == w.g.nodes[i]
              in == id.ins[1]
              out == id.outs[1]
              writers == {p \in DOMAIN w.g.nodes \ {i} : in \in Range(w.g.nodes[p].outs)}
              first == CHOOSE p \in writers : \A q \in writers : p <= q
              internal == writers /= {} /\ ~IsConst(w.g, in) /\ in \notin w.g.inputs /\ ~IsOutput(w.g, in)
          IN  IF id.op /= "Identity" THEN w
              ELSE IF ~IsOutput(w.g, out)
              THEN [g |-> RewireReads(w.g, out, in), removed |-> w.removed \union {i}]
              ELSE IF internal
              THEN [g |-> RewireReads(RenameOutput(w.g, first, in, out), in, out),
                    removed |-> w.removed \union {i}]
              ELSE w,
        g)

-----------------------------------------------------------------------------
IsConv(nd) == nd.op \in DOMAIN ConvOps

\* A convolution with no bias input is given one.
WithBias(g, i) ==
  IF Len(g.nodes[i].ins) > 2 /\ g.nodes[i].ins[3] /= 0 THEN g
  ELSE LET h == AddConst(g, "c", NoBias)
       IN  [h EXCEPT !.nodes[i].ins = <<@[1], @[2], NewTensor(h)>>]

\* MUTANT of OnlyReader: any number of readers will do.
SomeReader(g, t) == InputReads(g, t) /= {}

OnlyReader(g, t) == Cardinality(InputReads(g, t)) = 1

\* foldBatchNorm: weights and bias are rescaled in place and the batch norm's
\* readers read the convolution.  Readers are counted over node inputs.
foldBatchNorm(g) ==
  LET producer == [t \in TensorIds(g) |-> Producer(g, t)]
  IN  Sweep(
        LAMBDA w, i :
          LET bn   == w.g.nodes[i]
              pi   == producer[bn.ins[1]]
              conv == w.g.nodes[pi]
              h    == WithBias(w.g, pi)
              wt   == h.nodes[pi].ins[2]
              bi   == h.nodes[pi].ins[3]
              p    == h.const[bn.ins[2]]
              folded == [h EXCEPT !.const[wt] = F(<<"scaled", p, @>>), !.const[bi] = F(<<"shifted", p, @>>)]
          IN  IF bn.op = "BatchNorm" /\ pi /= 0 /\ IsConv(conv)
                 /\ OnlyReader(w.g, conv.outs[1])
              THEN [g |-> RewireOutputs(RewireInputs(folded, bn.outs[1], conv.outs[1]), bn.outs[1], conv.outs[1]),
                    removed |-> w.removed \union {i}]
              ELSE w,
        g)

\* lowerBatchNorm: what is left becomes a multiplication and an addition.
LowerBatchNorm(w, i) ==
  LET bn  == w.g.nodes[i]
      out == bn.outs[1]
      p   == w.g.const[bn.ins[2]]
      gs  == AddConst(w.g, "c", F(<<"scale", p>>))
      gb  == AddConst(gs, "c", F(<<"shift", p>>))
      gm  == AddTensor(gb, gb.shape[out], gb.dtype[out])
      mul == MkNode("Mul", <<bn.ins[1], NewTensor(gs)>>, <<NewTensor(gm)>>)
      add == MkNode("Add", <<NewTensor(gm), NewTensor(gb)>>, <<out>>)
  IN  [g |-> [gm EXCEPT !.nodes[i] = mul], appended |-> Append(w.appended, add)]

lowerBatchNorm(g) ==
  Lower(LAMBDA h, nd : nd.op = "BatchNorm", LowerBatchNorm, g)

-----------------------------------------------------------------------------
\* fuseActivations: an activation that is the only reader of a convolution or an
\* addition joins its epilogue.  "Relu6" is a Clip with the default bounds.
Activations == {"Relu", "Relu6", "Clip"}

fuseActivations(g) ==
  LET producer == [t \in TensorIds(g) |-> Producer(g, t)]
  IN  Sweep(
        LAMBDA w, i :
          LET act  == w.g.nodes[i]
              pi   == producer[act.ins[1]]
              prod == w.g.nodes[pi]
              consumers == Cardinality(InputReads(w.g, prod.outs[1])) + Cardinality(OutputReads(w.g, prod.outs[1]))
          IN  IF act.op \in Activations /\ pi /= 0 /\ (IsConv(prod) \/ prod.op = "Add")
                 /\ prod.act = "None" /\ consumers = 1
              THEN [g |-> RewireOutputs(RewireInputs([w.g EXCEPT !.nodes[pi].act = act.op],
                                                     act.outs[1], prod.outs[1]), act.outs[1], prod.outs[1]),
                    removed |-> w.removed \union {i}]
              ELSE w,
        g)

\* Consumer counts taken once, over node inputs.
ReadCounts(g) == [t \in TensorIds(g) |-> Cardinality(InputReads(g, t))]

BiasOf(nd) == IF Len(nd.ins) > 2 THEN nd.ins[3] ELSE 0

\* fuseSqueezeExcite: pool -> 1x1 conv with relu -> 1x1 conv -> hard sigmoid; the
\* pool stays.  The code does not test that the convolutions are 1x1.
fuseSqueezeExcite(g) ==
  LET producer == [t \in TensorIds(g) |-> Producer(g, t)]
      reads    == ReadCounts(g)
  IN  Sweep(
        LAMBDA w, i :
          LET hs    == w.g.nodes[i]
              p2    == producer[hs.ins[1]]
              conv2 == w.g.nodes[p2]
              p1    == producer[conv2.ins[1]]
              conv1 == w.g.nodes[p1]
              pg    == producer[conv1.ins[1]]
              se    == MkNode("FusedSE", <<conv1.ins[1], conv1.ins[2], BiasOf(conv1), conv2.ins[2], BiasOf(conv2)>>,
                              hs.outs)
          IN  IF hs.op = "HardSigmoid" /\ p2 /= 0 /\ IsConv(conv2) /\ reads[conv2.outs[1]] = 1
                 /\ p1 /= 0 /\ IsConv(conv1) /\ reads[conv1.outs[1]] = 1 /\ conv1.act = "Relu"
                 /\ pg /= 0 /\ w.g.nodes[pg].op = "Pool"
              THEN [g |-> [w.g EXCEPT !.nodes[i] = se], removed |-> w.removed \union {p1, p2}]
              ELSE w,
        g)

\* fuseDwPw: a depthwise convolution whose only reader is a 1x1 convolution.
fuseDwPw(g) ==
  LET producer == [t \in TensorIds(g) |-> Producer(g, t)]
      reads    == ReadCounts(g)
  IN  Sweep(
        LAMBDA w, i :
          LET P == w.g.nodes[i]
              d == producer[P.ins[1]]
              D == w.g.nodes[d]
              f == [MkNode("FusedDwPw", <<D.ins[1], D.ins[2], BiasOf(D), P.ins[2], BiasOf(P)>>, P.outs)
                      EXCEPT !.sub = D.act, !.act = P.act]
          IN  IF P.op = "PwConv" /\ d /= 0 /\ D.op = "DwConv" /\ reads[D.outs[1]] = 1
                 /\ D.act \in {"None", "Relu", "Relu6"}
              THEN [g |-> [w.g EXCEPT !.nodes[i] = f], removed |-> w.removed \union {d}]
              ELSE w,
        g)

-----------------------------------------------------------------------------
\* The dtype lattice of the two cast passes: what is known to be float or
\* integer, seeded from the inputs' declared types and carried forward.
FloatResult == DOMAIN ConvOps \union
  {"MatMul", "TiledMatMul", "Softmax", "BatchNorm", "Pool", "GridSample", "FusedSE", "FusedDwPw"}

Lattice(g, seed) ==
  FoldLeftDomain(
    LAMBDA dt, i :
      LET nd == g.nodes[i]
          out == CASE nd.op = "CastFloat" -> "f"
                   [] nd.op = "Where" -> dt[nd.ins[2]]
                   [] nd.op \in {"CastInt", "CastNarrow", "ArgMax"} -> "i"
                   [] nd.op \in FloatResult -> "f"
                   [] OTHER -> dt[nd.ins[1]]
      IN  [t \in DOMAIN dt |-> IF nd.op = "TopK" /\ t = nd.outs[2] THEN "i"
                                ELSE IF out /= "?" /\ t \in Range(nd.outs) THEN out ELSE dt[t]],
    [t \in TensorIds(g) |-> IF IsConst(g, t) THEN g.dtype[t] ELSE IF t \in g.inputs THEN seed[t] ELSE "?"],
    g.nodes)

\* eliminateFloatCast: an 8-bit input counts as float, its device buffer is.
eliminateFloatCast(g) ==
  LET dt == Lattice(g, [t \in g.inputs |-> IF g.dtype[t] = "u8" THEN "f" ELSE g.dtype[t]])
  IN  Sweep(
        LAMBDA w, i :
          LET c == w.g.nodes[i]
          IN  IF c.op = "CastFloat" /\ dt[c.ins[1]] = "f" /\ ~IsOutput(w.g, c.outs[1])
              THEN [g |-> RewireInputs(w.g, c.outs[1], c.ins[1]), removed |-> w.removed \union {i}]
              ELSE w,
        g)

\* foldIntRoundtripCast: float -> wide integer -> float, through a tensor that
\* nothing else reads, is a truncation.  Readers are those of the graph given.
foldIntRoundtripCast(g) ==
  LET dt == Lattice(g, [t \in g.inputs |-> g.dtype[t]])
  IN  Sweep(
        LAMBDA w, i :
          LET c1  == w.g.nodes[i]
              mid == c1.outs[1]
              j   == (CHOOSE r \in InputReads(g, mid) : TRUE)[1]
              c2  == w.g.nodes[j]
          IN  IF i \notin w.removed /\ c1.op = "CastInt" /\ dt[c1.ins[1]] = "f" /\ ~IsOutput(g, mid)
                 /\ Cardinality(InputReads(g, mid)) = 1
                 /\ j \notin w.removed /\ c2.op = "CastFloat"
              THEN [g |-> [w.g EXCEPT !.nodes[i] = MkNode("Trunc", c1.ins, c2.outs)],
                    removed |-> w.removed \union {j}]
              ELSE w,
        g)

-----------------------------------------------------------------------------
\* eliminateDeadNodes: liveness from the outputs back to a fixpoint.
RECURSIVE LiveFrom(_, _)
LiveFrom(g, live) ==
  LET next == live \union UNION {(Range(g.nodes[i].ins) \union {g.nodes[i].bias}) \ {0} :
                                   i \in {k \in DOMAIN g.nodes : Range(g.nodes[k].outs) \intersect live /= {}}}
  IN  IF next = live THEN live ELSE LiveFrom(g, next)

eliminateDeadNodes(g) ==
  LET live == LiveFrom(g, Range(g.outs))
  IN  DropNodes(g, {i \in DOMAIN g.nodes : Range(g.nodes[i].outs) \intersect live = {}})

\* pruneDeadInitializers.
Referenced(g) ==
  Range(g.outs) \union g.inputs
    \union UNION {Range(g.nodes[i].ins) \union {g.nodes[i].bias} : i \in DOMAIN g.nodes}

pruneDeadInitializers(g) ==
  [g EXCEPT !.const = Restrict(@, DOMAIN @ \intersect Referenced(g))]
==============================================================================
