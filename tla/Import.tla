-------------------------------- MODULE Import --------------------------------
(***************************************************************************)
(* runStandardPasses over every graph of a family: an arbitrary exporter   *)
(* builds a graph node by node and names its outputs, the passes then run  *)
(* one by one in the order of the source, and the session that loads the   *)
(* result sorts it once more and plans its layout and storage.             *)
(*                                                                         *)
(* A decoder's graph takes the other way into Next: it is loaded as it was *)
(* compiled, and the session folds it (LoadFolds.tla) with the hints of    *)
(* opt on or off.                                                          *)
(*                                                                         *)
(* Passes on operators the families do not have (rms and instance norm,    *)
(* einsum, quantisation, shape inference, constant folding) are left out.  *)
(***************************************************************************)
EXTENDS LoadFolds, FusePointwise, StoragePlan

CONSTANTS
  Decoders,     \* what a session loads: [graphs, options], graphs as in Elements.tla with
                \* settings [rope, views, attention, kv] of its hints
  Families,     \* the graphs: [inputs, kinds, options, pins], the graph inputs as a sequence
                \* of [shape, dtype], a set of node kinds for each position, settings of PassOptions
                \* as records [se, dwpw, pw, strict] with whether the session plans storage,
                \* and whether a tensor may be marked fp32
  MayTap,       \* graphs may name a convolution's result an output although a batch norm
                \* or a block fusion consumes it
  MayShare,     \* convolutions may share one weight initializer
  MayGateTwice, \* an activation may stand between a convolution and a hard sigmoid
  MayMoveIndex  \* a Gather may take its index from a node that only moves or casts integers

VARIABLES
  family, opt,
  g,        \* the graph
  phase,    \* "build", then the name of the pass to run next, at last "done" or "folded"
  meaning   \* what the graph computed when the passes began

vars == <<family, opt, g, phase, meaning>>

PassOrder ==
  <<"eliminateDropout", "lowerVariadicElementwise", "eliminateIdentity", "foldBatchNorm", "lowerBatchNorm",
    "fuseActivations", "fuseSqueezeExcite", "fuseDwPw", "eliminateFloatCast", "foldIntRoundtripCast",
    "eliminateDeadNodes", "fusePointwiseChains", "pruneDeadInitializers", "load", "plan", "done">>

LoadOrder ==
  <<"fuseRope", "foldMatMulViews", "fuseDecodeAttention", "foldFusedAttentionKvConcat", "foldMovementChains", "folded">>

LoadPhases == Range(LoadOrder)

Following(order) ==
  [p \in Range(Front(order)) |-> order[1 + CHOOSE k \in DOMAIN order : order[k] = p]]
NextPass == Following(PassOrder) @@ Following(LoadOrder)

\* Pointwise fusion leaves the order to the sort at load.
Scheduled == IF phase \in {"pruneDeadInitializers", "load"} THEN TopoSort(g) ELSE g

-----------------------------------------------------------------------------
(* The exporter.                                                           *)

Join(s, t) == IF s = t THEN s ELSE IF s = "vector" THEN t ELSE IF t = "vector" THEN s
              ELSE IF {s, t} = {"channel", "scalar"} THEN "channel" ELSE "full"

Data(h) == {t \in TensorIds(h) : ~IsConst(h, t)}

\* The label inferShapes gives a result: a copy of the operand's for these operators, an
\* integer for an ArgMax, else that of an unlabelled tensor (a Cast's and a sum's too).
CopiesLabel == {"Relu", "Relu6", "Clip", "Sigmoid", "HardSigmoid", "Identity", "Dropout", "BatchNorm",
                "Softmax", "TopK"}

Label(h, op, x) ==
  CASE op = "ArgMax" -> "i"
    [] op \in CopiesLabel -> h.dtype[x]
    [] OTHER -> "f"

\* A node on existing tensors that writes a new one.
Produce(h, op, ins, shape) ==
  LET k == AddTensor(h, shape, Label(h, op, ins[1]))
  IN  [k EXCEPT !.nodes = Append(@, MkNode(op, ins, <<NewTensor(k)>>))]

\* ... with a constant as its second input, and perhaps one as its third.
Fresh(h) == F(<<"param", NewTensor(h)>>)

OnConst(h, op, x, cshape) ==
  LET k == AddConst(h, cshape, Fresh(h)) IN Produce(k, op, <<x, NewTensor(k)>>, h.shape[x])

Biased(h, op, x) ==
  LET k == AddConst(h, "vector", Fresh(h))
      b == AddConst(k, "vector", Fresh(k))
  IN  Produce(b, op, <<x, NewTensor(k), NewTensor(b)>>, h.shape[x])

\* A node with a second result of the same shape.
Twofold(h, op, x, label) ==
  LET y == AddTensor(h, h.shape[x], Label(h, op, x))
      z == AddTensor(y, h.shape[x], label)
  IN  [z EXCEPT !.nodes = Append(@, MkNode(op, <<x>>, <<NewTensor(y), NewTensor(z)>>))]

\* Integers with an integer constant, before or after them.
WithInteger(h, op, x, cshape, shape, first) ==
  LET k == AddConst(h, cshape, I(<<"param", NewTensor(h)>>))
  IN  Produce(k, op, IF first THEN <<NewTensor(k), x>> ELSE <<x, NewTensor(k)>>, shape)

Conditions(h) == UNION {Range(h.nodes[i].outs) : i \in {k \in DOMAIN h.nodes : h.nodes[k].op = "Less"}}

Weights(h) == {h.nodes[i].ins[2] : i \in {k \in DOMAIN h.nodes : IsConv(h.nodes[k])}}

\* The graphs h becomes by one more node of a kind, on operands taken from h's floats,
\* from its integers, or from its pairs of tensors of one element type.
OneMore(h, kind, floats, ints, pairs) ==
  CASE kind \in {"Relu", "Identity", "Dropout", "CastFloat", "CastInt", "CastNarrow", "ArgMax"} ->
         {Produce(h, kind, <<x>>, h.shape[x]) : x \in Data(h)}
    [] kind \in {"Relu6", "Clip", "Sigmoid", "HardSigmoid", "Train", "Softmax", "Tile"} ->
         {Produce(h, kind, <<x>>, h.shape[x]) : x \in floats}
    [] kind = "Pool" -> {Produce(h, kind, <<x>>, "channel") : x \in {t \in floats : h.shape[t] = "full"}}
    [] kind = "DropoutMask" -> {Twofold(h, "Dropout", x, "f") : x \in Data(h)}
    [] kind \in {"Add", "Mul"} ->
         {Produce(h, kind, p, Join(h.shape[p[1]], h.shape[p[2]])) : p \in {q \in pairs : q[1] <= q[2]}}
    [] kind = "Swap" -> \* a product with its operands the other way round
         {Produce(h, "Mul", <<p[2], p[1]>>, Join(h.shape[p[1]], h.shape[p[2]])) : p \in {q \in pairs : q[1] < q[2]}}
    [] kind \in {"Sum3", "Mean2", "Mean3"} ->
         {Produce(h, IF kind = "Sum3" THEN "Add" ELSE "Mean",
                  IF kind = "Mean2" THEN p ELSE <<p[1], p[2], p[1]>>, h.shape[p[1]]) :
            p \in {q \in pairs : h.shape[q[1]] = h.shape[q[2]]}}
    [] kind = "Sum1" -> {Produce(h, "Add", <<x>>, h.shape[x]) : x \in Data(h)}
    [] kind = "Concat" -> {Produce(h, kind, p, "full") : p \in {q \in floats \X floats : q[1] <= q[2]}}
    [] kind \in {"AddVector", "AddChannel", "MulChannel"} ->
         {OnConst(h, IF kind = "MulChannel" THEN "Mul" ELSE "Add", x,
                  IF kind = "AddVector" THEN "vector" ELSE "channel") : x \in floats}
    [] kind \in {"BatchNorm", "MatMul", "TiledMatMul"} -> {OnConst(h, kind, x, "vector") : x \in floats}
    [] kind \in DOMAIN ConvOps ->
         {OnConst(h, kind, x, "vector") : x \in floats}
           \union (IF MayShare THEN {Produce(h, kind, <<x, wt>>, h.shape[x]) : x \in floats, wt \in Weights(h)}
                   ELSE {})
    [] kind = "BiasedConv" -> {Biased(h, "Conv", x) : x \in floats}
    [] kind = "Reshape" ->
         {Produce(h, kind, <<x>>, IF h.shape[x] = "full" THEN "plane" ELSE "full") :
            x \in {t \in Data(h) : h.shape[t] \in {"full", "plane"}}}
    [] kind = "Flatten" -> {Produce(h, kind, <<x>>, "row") : x \in Data(h)}
    [] kind = "Split" -> {Twofold(h, kind, x, "f") : x \in Data(h)}
    [] kind = "TopK"  -> {Twofold(h, kind, x, "i") : x \in Data(h)}
    [] kind \in {"Join", "Less", "Shift"} -> \* operands of one shape
         {Produce(h, IF kind = "Join" THEN "Concat" ELSE kind, p, h.shape[p[1]]) :
            p \in {q \in pairs : h.shape[q[1]] = h.shape[q[2]] /\ (kind = "Shift" => q[1] \in ints)}}
    [] kind = "Where" ->
         {Produce(h, kind, <<c>> \o p, h.shape[p[1]]) :
            c \in Conditions(h), p \in {q \in pairs : h.shape[q[1]] = h.shape[q[2]]}}
    [] kind = "Gather" -> {Produce(h, kind, <<x, y>>, h.shape[x]) : x \in Data(h), y \in ints}
    [] kind = "Lookup" -> {WithInteger(h, "Gather", y, "row", h.shape[y], TRUE) : y \in ints}
    [] kind = "AddInteger" -> {WithInteger(h, "Add", x, "scalar", h.shape[x], FALSE) : x \in ints}
    [] kind = "JoinInteger" -> {WithInteger(h, "Concat", x, h.shape[x], h.shape[x], FALSE) : x \in ints}
    [] kind = "GridSample" ->
         {Produce(h, kind, <<x, y>>, "full") : x \in {t \in floats : h.shape[t] = "full"}, y \in floats}

OfType(h, val, ty) == {t \in Data(h) : val[t].ty = ty}

OneMoreOf(h, kind, val) ==
  OneMore(h, kind, OfType(h, val, "f"), OfType(h, val, "i"),
          {p \in Data(h) \X Data(h) : val[p[1]].ty = val[p[2]].ty})

Extensions(h, kind) == OneMoreOf(h, kind, Values(h))

-----------------------------------------------------------------------------
(* What the exporter is kept from, each by a constant.                     *)

\* A convolution's result, normalised and activated or not.
RECURSIVE OfConv(_)
OfConv(v) ==
  CASE v.t[1] = "Conv" -> TRUE
    [] v.t[1] \in Activations -> OfConv(v.t[2])
    [] v.t[1] = "bn" -> OfConv(v.t[3])
    [] OTHER -> FALSE

\* An output that the next node would absorb with the convolution it comes from.
Tapped(h, val) ==
  \E i \in DOMAIN h.nodes, k \in DOMAIN h.outs :
    /\ h.nodes[i].op \in {"BatchNorm", "HardSigmoid"} \union DOMAIN ConvOps
    /\ val[h.nodes[i].ins[1]] = val[h.outs[k]]
    /\ OfConv(val[h.outs[k]])

GatedTwice(h, val) ==
  \E i \in DOMAIN h.nodes :
    /\ h.nodes[i].op = "HardSigmoid"
    /\ val[h.nodes[i].ins[1]].t[1] \in Activations
    /\ OfConv(val[h.nodes[i].ins[1]])

\* The index of a lookup comes from a node that moves or casts integers.
IndexMoved(h, val) ==
  \E i \in DOMAIN h.nodes :
    /\ h.nodes[i].op = "Gather" /\ Producer(h, h.nodes[i].ins[2]) /= 0
    /\ LET nd == h.nodes[Producer(h, h.nodes[i].ins[2])]
       IN  h.nodes[i].ins[2] \in DataOuts(nd) /\ Flow(nd) \in {"Moves", "Casts"}
             /\ \E t \in DataOperands(nd) : val[t].ty = "i"

\* A graph output has its declared type, unless inferShapes copies another.
Declared(h, val) ==
  LET declared == [t \in TensorIds(h) |->
                     IF t \in Range(h.outs) /\ val[t].ty = "i" /\ val[t].t[1] /= "toNarrow" THEN "i" ELSE h.dtype[t]]
  IN  [h EXCEPT !.dtype =
         FoldLeftDomain(LAMBDA dt, i : LET nd == h.nodes[i]
                                       IN  IF nd.op \in CopiesLabel THEN [dt EXCEPT ![nd.outs[1]] = dt[nd.ins[1]]] ELSE dt,
                        declared, h.nodes)]

Accepted(h, val) ==
  /\ MayTap \/ ~Tapped(h, val)
  /\ MayGateTwice \/ ~GatedTwice(h, val)
  /\ MayMoveIndex \/ ~IndexMoved(h, val)

\* The values do not depend on what is an output or pinned.
ExportedAs(h, pins, val) ==
  {Declared(k, val) : k \in
   {k \in {[h EXCEPT !.outs = <<last>> \o tap, !.pinned = pin] :
            last \in Range(h.nodes[Len(h.nodes)].outs),
            tap \in {<<>>} \union {<<t>> : t \in UNION {Range(h.nodes[i].outs) : i \in DOMAIN h.nodes}},
            pin \in {{}} \union (IF pins THEN {{t} : t \in Data(h) \ h.inputs} ELSE {})} :
     Cardinality(Range(k.outs)) = Len(k.outs) /\ Accepted(k, val)}}

Exported(h, pins) == ExportedAs(h, pins, Values(h))

-----------------------------------------------------------------------------
\* What a loaded graph's outputs hold: of a concatenation, all of it and its new rows.
Presents(h) ==
  LET val == ElementValues(h)
      Source(t) == h.nodes[Producer(h, t)]
  IN  [k \in DOMAIN h.outs |->
         [whole |-> val[h.outs[k]],
          rows  |-> val[IF Source(h.outs[k]).op = "Concat" THEN Source(h.outs[k]).ins[2] ELSE h.outs[k]]]]

InitLoaded ==
  /\ \E d \in Decoders : g \in d.graphs /\ opt \in d.options
  /\ family = <<>>
  /\ phase = LoadOrder[1]
  /\ meaning = Presents(g)

InitExported ==
  /\ family \in Families
  /\ opt \in family.options
  /\ g = [nodes |-> <<>>, outs |-> <<>>, const |-> <<>>, inputs |-> DOMAIN family.inputs, pinned |-> {},
          flat |-> {}, fp32 |-> {},
          shape |-> [t \in DOMAIN family.inputs |-> family.inputs[t].shape],
          dtype |-> [t \in DOMAIN family.inputs |-> family.inputs[t].dtype]]
  /\ phase = "build"
  /\ meaning = <<>>

Init == InitLoaded \/ InitExported

AddNode ==
  /\ phase = "build" /\ Len(g.nodes) < Len(family.kinds)
  /\ \E kind \in family.kinds[Len(g.nodes) + 1] : g' \in Extensions(g, kind)
  /\ UNCHANGED <<family, opt, phase, meaning>>

Export ==
  /\ phase = "build" /\ Len(g.nodes) = Len(family.kinds)
  /\ g' \in Exported(g, family.pins)
  /\ phase' = PassOrder[1]
  /\ meaning' = OutputValues(g')
  /\ UNCHANGED <<family, opt>>

Pass(name, result) ==
  /\ phase = name
  /\ g' = result
  /\ phase' = NextPass[phase]
  /\ UNCHANGED <<family, opt, meaning>>

If(flag, result) == IF flag THEN result ELSE g

BlockFusions == opt.se \/ opt.dwpw

Next ==
  \/ AddNode
  \/ Export
  \/ Pass("eliminateDropout", eliminateDropout(g))
  \/ Pass("lowerVariadicElementwise", lowerVariadicElementwise(g))
  \/ Pass("eliminateIdentity", eliminateIdentity(g))
  \/ Pass("foldBatchNorm", foldBatchNorm(g))
  \/ Pass("lowerBatchNorm", lowerBatchNorm(g))
  \/ Pass("fuseActivations", If(BlockFusions, fuseActivations(g)))
  \/ Pass("fuseSqueezeExcite", If(opt.se, fuseSqueezeExcite(g)))
  \/ Pass("fuseDwPw", If(opt.dwpw, fuseDwPw(g)))
  \/ Pass("eliminateFloatCast", eliminateFloatCast(g))
  \/ Pass("foldIntRoundtripCast", foldIntRoundtripCast(g))
  \/ Pass("eliminateDeadNodes", eliminateDeadNodes(g))
  \/ Pass("fusePointwiseChains", If(opt.pw, fusePointwiseChains(g, opt.strict)))
  \/ Pass("pruneDeadInitializers", pruneDeadInitializers(g))
  \/ Pass("load", TopoSort(g))
  \/ Pass("plan", If(opt.plan, planFlatLayoutAndStorage(g)))
  \/ Pass("fuseRope", If(opt.rope, fuseRope(g)))
  \/ Pass("foldMatMulViews", If(opt.views, foldMatMulViews(g)))
  \/ Pass("fuseDecodeAttention", If(opt.attention, fuseDecodeAttention(g)))
  \/ Pass("foldFusedAttentionKvConcat", If(opt.attention /\ opt.kv, foldFusedAttentionKvConcat(g)))
  \/ Pass("foldMovementChains", foldMovementChains(g))

Spec == Init /\ [][Next]_vars

-----------------------------------------------------------------------------
(* Properties.                                                             *)

\* Every stage is behavior-preserving (run_standard_passes.cpp:62): after each
\* pass every output slot still computes what it computed in the exporter's graph,
\* by nodes that run after what they read.  The folds at load keep every value too
\* (fold_matmul_views.cpp:325, fold_movement_chains.cpp:137, session.cpp:615), but the
\* presents of a decoder may hold their new rows only: all of them or none
\* (fold_kv_concat.cpp:20).
MeaningKept ==
  IF phase \in LoadPhases
  THEN LET val == ElementValues(g)
       IN  \E rowsOnly \in BOOLEAN : \A k \in DOMAIN g.outs :
             val[g.outs[k]] = IF rowsOnly THEN meaning[k].rows ELSE meaning[k].whole
  ELSE phase /= "build" =>
         LET h == [g EXCEPT !.nodes = Scheduled.nodes] IN OutputValues(h) = meaning

\* The graph handed to the session can be ordered: no unit waits for itself.
LoadedIsAcyclic == phase \in {"load", "plan"} => Acyclic(g)

\* A fused unit computes in floats of one storage kind: it neither reads nor
\* writes a tensor that is pinned to fp32 or that holds integers.
UnitsStayFloat ==
  phase = "plan" =>
    LET val == Values(g)
    IN  \A i \in DOMAIN g.nodes : g.nodes[i].steps /= <<>> =>
          \A t \in Range(g.nodes[i].outs)
                     \union {g.nodes[i].ins[k] : k \in {1} \union (g.nodes[i].opbase + 1)..Len(g.nodes[i].ins)} :
             val[t].ty = "f" /\ (t \in g.pinned => g.nodes[i].op /= "FusedPointwise" /\ t = g.nodes[i].ins[1])

Planned == phase = "done" /\ opt.plan

\* Every kernel meets the buffers it was written for, whatever passes gave a tensor
\* its layout and storage: a node runs row-major or packed as its kernel does, its
\* operands have its layout and its precision (insert_layout_converts.cpp:538-541,
\* mark_fp32.cpp:131-136), except those a kernel reads as they are stored; a lookup's
\* index is fp32 (gather.comp); all results of a node are alike; the convolution
\* family and a node that reads a constant filled by the segment stay fp16.
Fp16Ops == DOMAIN ConvOps \union {"Pool", "FusedSE", "FusedDwPw"}

KernelsAgree ==
  Planned =>
    \A i \in DOMAIN g.nodes :
      LET nd    == g.nodes[i]
          out   == nd.outs[1]
          flat  == out \in g.flat
          Slots == {k \in DOMAIN nd.ins : IsRuntime(g, nd.ins[k])}
      IN  /\ \A k \in Slots : nd.op /= "ConvertLayout" =>
               (nd.ins[k] \in g.flat) = (flat \/ (nd.op = "GridSample" /\ k = 2))
          /\ nd.op \in Agnostic => flat \/ KeepsPacking(g, nd)
          /\ nd.op \notin Agnostic \union {"ConvertLayout", "ConvertDtype"} =>
               flat = (gpuFlatNode(g, nd) \/ g.shape[out] = "deep")
          /\ \A k \in Slots : nd.op /= "ConvertDtype" /\ ~ReadsAsStored(g, nd, k) =>
               (nd.ins[k] \in g.fp32) = (out \in g.fp32)
          /\ nd.op = "Gather" /\ 2 \in Slots => nd.ins[2] \in g.fp32
          /\ \A t \in Range(nd.outs) : (t \in g.flat) = flat /\ (t \in g.fp32) = (out \in g.fp32)
          /\ nd.op \in Fp16Ops => out \notin g.fp32
          /\ ReadsSegmentConstant(g, nd) => out \notin g.fp32

\* Integers are exact where a node needs them so: where one is added, compared,
\* shifted, ranked or used as an index, and in every integer output, it has never been
\* in fp16 storage since it entered the graph or was computed from floats
\* (mark_fp32.cpp:1071-1073, passes.h:303-338).  What follows a node that has to keep
\* the segment's precision is excepted, as the source says.
Narrowed(val) ==
  LET IsInt(t) == t /= 0 /\ val[t].ty = "i" /\ ~IsConst(g, t)
  IN  FoldLeftDomain(
        LAMBDA narrowed, i :
          LET nd == g.nodes[i]
              lossy == \E k \in DOMAIN nd.ins : IsInt(nd.ins[k]) /\ nd.ins[k] \in narrowed
          IN  narrowed \union {t \in Range(nd.outs) :
                 IsInt(t) /\ ~ReadsSegmentConstant(g, nd) /\ (lossy \/ t \notin g.fp32)},
        {t \in g.inputs : IsInt(t) /\ t \notin g.fp32}, g.nodes)

NeedsExact ==
  Range(g.outs) \union
  UNION {LET nd == g.nodes[i]
         IN  CASE nd.op \in {"Add", "Mul", "Less", "Shift", "ArgMax", "TopK"} -> Range(nd.ins)
               [] nd.op = "Gather" -> {nd.ins[2]}
               [] OTHER -> {} : i \in DOMAIN g.nodes}

IntegersStayExact == Planned => Narrowed(Values(g)) \intersect NeedsExact = {}
==============================================================================
