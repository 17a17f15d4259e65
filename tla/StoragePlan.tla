------------------------------ MODULE StoragePlan ------------------------------
(***************************************************************************)
(* planFlatLayoutAndStorage: which layout and which storage precision each *)
(* tensor of a loaded graph has on the device, and the converts between    *)
(* nodes that disagree.  g.flat are the row-major tensors, the others are  *)
(* NC4HW4; g.fp32 are the tensors stored at full precision in a segment    *)
(* that computes in fp16.                                                  *)
(*                                                                         *)
(* Standalone pointwise units and host epilogues are left out: which of    *)
(* them are flat is the fuser's choice.  A shape is a class: full and      *)
(* channel have rank 4, the channels of full being a multiple of 4; plane, *)
(* row and vector have ranks 3, 2 and 1; deep has rank 5.                  *)
(***************************************************************************)
EXTENDS ImportGraph

Casts == {"CastFloat", "CastInt", "CastNarrow"}
CastsToInteger == {"CastInt", "CastNarrow"}

Runtime(g) == {t \in TensorIds(g) : ~IsConst(g, t)}

-----------------------------------------------------------------------------
(* Layouts.                                                                *)

\* nc4PackingKey: full and plane store their elements at the same positions.
PackingKey(shape) == IF shape = "plane" THEN "full" ELSE shape

KeepsPacking(g, nd) == PackingKey(g.shape[nd.ins[1]]) = PackingKey(g.shape[nd.outs[1]])

FlatOps == {"Relu6", "Clip", "MatMul", "TiledMatMul", "Tile", "Less", "Where", "ArgMax", "Shift", "Gather", "TopK"}

\* A product with one [N,C,1,1] operand.
ChannelBroadcast(nd, a, b) == nd.op = "Mul" /\ {a, b} = {"full", "channel"}

\* gpuFlatNode: does the node only have a row-major kernel?
gpuFlatNode(g, nd) ==
  LET Shapes(ts) == {g.shape[ts[k]] : k \in DOMAIN ts}
      a == g.shape[nd.ins[1]]
      b == g.shape[nd.ins[2]]
  IN  CASE nd.op \in FlatOps -> TRUE
        [] nd.op = "Softmax" -> a \notin {"channel", "row"}
        [] nd.op = "Concat"  -> Shapes(nd.ins) \union Shapes(nd.outs) /= {"full"}
        [] nd.op = "Split"   -> Shapes(nd.ins) \union Shapes(nd.outs) /= {"full"}
        [] nd.op \in {"Add", "Mul"} ->
             /\ Len(nd.ins) = 2
             /\ \/ IsConst(g, nd.ins[1]) \/ IsConst(g, nd.ins[2])
                \/ ~(a = b /\ a \in {"full", "channel"}) /\ ~ChannelBroadcast(nd, a, b)
        [] OTHER -> FALSE

\* layoutAgnostic: the node runs in its operand's layout if it can.
Agnostic == {"Reshape", "Flatten"} \union Casts

PassesLayoutThrough(g, nd) == nd.op \in Agnostic /\ KeepsPacking(g, nd)

\* seedFromProducers, in schedule order.
SeedLayouts(g) ==
  [g EXCEPT !.flat =
     FoldLeftDomain(
       LAMBDA flat, i :
         LET nd == g.nodes[i]
             f  == IF nd.op \in Agnostic THEN nd.ins[1] \in flat \/ ~KeepsPacking(g, nd) ELSE gpuFlatNode(g, nd)
         IN  IF f THEN flat \union Range(nd.outs) ELSE flat \ Range(nd.outs),
       @, g.nodes)]

\* A sampling grid is row-major whatever the node's layout.
WantsFlat(g, nd, slot) == nd.outs[1] \in g.flat \/ (nd.op = "GridSample" /\ slot = 2)

FusedReads(g, t) == {i \in DOMAIN g.nodes : g.nodes[i].bias = t}

\* Is t read, and every time by a row-major kernel?  A node that passes the
\* layout through reads row-major when its output is in `through`.
AllReadsRunFlat(g, t, through) ==
  /\ InputReads(g, t) /= {} \/ FusedReads(g, t) /= {}
  /\ \A r \in InputReads(g, t) :
       LET nd == g.nodes[r[1]]
       IN  IF r[2] = 1 /\ PassesLayoutThrough(g, nd) THEN nd.outs[1] \in through ELSE WantsFlat(g, nd, r[2])
  /\ \A i \in FusedReads(g, t) : g.nodes[i].outs[1] \in g.flat

\* Unproduced tensors that only row-major kernels read are packed row-major.
RECURSIVE AdoptInputs(_)
AdoptInputs(g) ==
  LET through == FoldRightDomain(
                   LAMBDA i, acc :
                     LET nd == g.nodes[i]
                     IN  IF PassesLayoutThrough(g, nd) /\ OutputReads(g, nd.outs[1]) = {}
                            /\ AllReadsRunFlat(g, nd.outs[1], acc)
                         THEN acc \union {nd.outs[1]} ELSE acc,
                   g.nodes, {})
      adopted == {t \in Runtime(g) \ g.flat : Producer(g, t) = 0 /\ AllReadsRunFlat(g, t, through)}
  IN  IF adopted = {} THEN g ELSE AdoptInputs(SeedLayouts([g EXCEPT !.flat = @ \union adopted]))

\* NC4HW4 holds at most four dimensions.
globalLayoutAssign(g) ==
  LET h == AdoptInputs(SeedLayouts(g))
  IN  [h EXCEPT !.flat = @ \union {t \in TensorIds(h) : h.shape[t] = "deep"}]

-----------------------------------------------------------------------------
(* Converts.                                                               *)

\* A convert of each tensor of a sequence; a copy differs from its source in the
\* one property converted.  Substring marks see the source's name in the copy's.
AddCopies(g, op, ts) ==
  LET n == Len(g.shape)
      Copied(S, toggled) == S \union {n + k : k \in {j \in DOMAIN ts : (ts[j] \in S) /= toggled}}
  IN  [g EXCEPT !.nodes  = @ \o [k \in DOMAIN ts |-> MkNode(op, <<ts[k]>>, <<n + k>>)],
                !.shape  = @ \o [k \in DOMAIN ts |-> g.shape[ts[k]]],
                !.dtype  = @ \o [k \in DOMAIN ts |-> g.dtype[ts[k]]],
                !.pinned = Copied(@, FALSE),
                !.flat   = Copied(@, op = "ConvertLayout"),
                !.fp32   = Copied(@, op = "ConvertDtype")]

\* The reads of a graph, <<node, slot>>; slot 0 is the fused bias.
Reads(g) == UNION {{<<i, k>> : k \in 0..Len(g.nodes[i].ins)} : i \in DOMAIN g.nodes}

Read(g, r) == IF r[2] = 0 THEN g.nodes[r[1]].bias ELSE g.nodes[r[1]].ins[r[2]]

IsRuntime(g, t) == t /= 0 /\ ~IsConst(g, t)

\* Route the given reads through converts, one for each tensor.
Splice(g, op, crossing) ==
  LET ts    == Ascending({Read(g, r) : r \in crossing})
      To(t) == Len(g.shape) + (CHOOSE k \in DOMAIN ts : ts[k] = t)
      Via(i, k, t) == IF <<i, k>> \in crossing THEN To(t) ELSE t
  IN  AddCopies([g EXCEPT !.nodes =
                   [i \in DOMAIN @ |-> [@[i] EXCEPT !.ins = [k \in DOMAIN @ |-> Via(i, k, @[k])],
                                                    !.bias = Via(i, 0, @)]]],
                op, ts)

\* Operands a kernel reads in the other layout, through converts.
ConvertReads(g) ==
  Splice(g, "ConvertLayout",
         {r \in Reads(g) : /\ IsRuntime(g, Read(g, r))
                           /\ (Read(g, r) \in g.flat) /= WantsFlat(g, g.nodes[r[1]], r[2])})

\* A graph output leaves the device row-major.
ConvertOutputs(g, slots) ==
  LET To(k) == Len(g.shape) + (CHOOSE j \in DOMAIN slots : slots[j] = k)
  IN  [AddCopies(g, "ConvertLayout", [j \in DOMAIN slots |-> g.outs[slots[j]]])
         EXCEPT !.outs = [k \in DOMAIN @ |-> IF k \in Range(slots) THEN To(k) ELSE @[k]]]

PackedOutputs(g) == {k \in DOMAIN g.outs : ~IsConst(g, g.outs[k]) /\ g.outs[k] \notin g.flat}

ConvertPackedOutputs(g) == ConvertOutputs(g, Ascending(PackedOutputs(g)))

insertLayoutConverts(g) == TopoSort(ConvertPackedOutputs(ConvertReads(globalLayoutAssign(g))))

-----------------------------------------------------------------------------
(* Pins of single operands.                                                *)

\* A tensor and its sources through layout converts, as far as they are in `may`.
RECURSIVE SourceChain(_, _, _)
SourceChain(g, t, may) ==
  IF IsConst(g, t) \/ t \notin may THEN {}
  ELSE LET p == Producer(g, t)
       IN  {t} \union (IF p /= 0 /\ g.nodes[p].op = "ConvertLayout" THEN SourceChain(g, g.nodes[p].ins[1], may) ELSE {})

PinSecondOperand(g, op, may) ==
  [g EXCEPT !.fp32 = @ \union UNION {SourceChain(g, g.nodes[i].ins[2], may) :
                                       i \in {k \in DOMAIN g.nodes : g.nodes[k].op = op}}]

pinGatherIndexFp32(g) == PinSecondOperand(g, "Gather", TensorIds(g))

\* Only while the chain is row-major: the NC4HW4 kernels of the convolutions are fp16.
pinGridSampleGridFp32(g) == PinSecondOperand(g, "GridSample", g.flat)

-----------------------------------------------------------------------------
(* pinIntegerResultsFp32.                                                  *)

\* integerDataSlots: how a node's result relates to integers in its data operands.
Flow(nd) ==
  CASE nd.steps /= <<>> -> "None"
    [] nd.op \in {"ConvertLayout", "ConvertDtype", "Identity", "Reshape", "Flatten", "Tile", "Split", "Gather",
                  "TopK", "Concat", "Where"} -> "Moves"
    [] nd.op \in Casts -> "Casts"
    [] nd.op \in {"Add", "Mul", "Clip", "Relu6"} -> "Computes"
    [] nd.op = "Less" -> "Compares"
    [] OTHER -> "None"

DataSlots(nd) ==
  CASE Flow(nd) = "None" -> {}
    [] nd.op \in {"Concat", "Add", "Mul"} -> DOMAIN nd.ins
    [] nd.op = "Where" -> {2, 3}
    [] nd.op = "Less" -> {1, 2}
    [] OTHER -> {1}

DataOperands(nd) == {nd.ins[k] : k \in DataSlots(nd)}
DataOuts(nd) == IF nd.op = "TopK" THEN {nd.outs[1]} ELSE Range(nd.outs)

\* producesIntegers: outputs that hold integers whatever the operands hold.
IntegerResults(nd) ==
  CASE nd.op \in CastsToInteger \union {"ArgMax", "Shift"} -> Range(nd.outs)
    [] nd.op = "TopK" -> {nd.outs[2]}
    [] OTHER -> {}

\* Integer-valued tensors, forward from labels and integer results.
IntegerValued(g) ==
  FoldLeftDomain(
    LAMBDA acc, i : LET nd == g.nodes[i]
                    IN  IF Flow(nd) \in {"Moves", "Computes"} /\ DataOperands(nd) \intersect acc /= {}
                        THEN acc \union DataOuts(nd) ELSE acc,
    {t \in TensorIds(g) : g.dtype[t] = "i"} \union UNION {IntegerResults(g.nodes[i]) : i \in DOMAIN g.nodes},
    g.nodes)

\* uploadsConstantOperandsItself
UploadsConstants(g, nd) ==
  \/ nd.op \in Agnostic \union {"Sigmoid", "HardSigmoid", "Trunc", "Tile", "Gather", "Where", "Clip", "Relu6",
                                "Less", "ArgMax", "Shift", "MatMul", "TiledMatMul"}
  \/ nd.op \in {"Add", "Mul", "Concat", "Split"} /\ nd.outs[1] \in g.flat

\* readsConstantAtSegmentPrecision: the segment fills constant operand 0, and every
\* part of an NC4HW4 Concat, at its own precision.
ReadsSegmentConstant(g, nd) ==
  LET filled == IF nd.op = "Concat" /\ nd.outs[1] \notin g.flat THEN DOMAIN nd.ins ELSE {1}
  IN  ~UploadsConstants(g, nd) /\ \E k \in filled : nd.ins[k] /= 0 /\ IsConst(g, nd.ins[k])

\* MUTANT of CanPin: only row-major tensors can be stored in fp32.
CanPinFlat(g, t) == IsRuntime(g, t) /\ t \in g.flat

\* storageCanPin, for a runtime tensor.
CanPin(g, t) ==
  LET p  == Producer(g, t)
      nd == g.nodes[p]
  IN  /\ IsRuntime(g, t)
      /\ p /= 0 =>
           /\ ~ReadsSegmentConstant(g, nd)
           /\ t \in g.flat \/ (nd.steps = <<>> /\ nd.op \in Agnostic \union
                {"ConvertLayout", "Add", "Mul", "Sigmoid", "HardSigmoid", "Trunc", "Concat", "Split"})

\* The walk's items are <<tensor, reach>>: an Integer tensor is followed to its
\* sources and its readers, an Upstream one to its sources only.
Reached(ts, reach) == {<<t, reach>> : t \in ts}

Seeds(g) ==
  LET valued == IntegerValued(g)
      Of(nd) ==
        (CASE nd.op = "ArgMax" -> Reached(Range(nd.outs) \union ({nd.ins[1]} \intersect valued), "Integer")
           [] nd.op = "TopK"   -> Reached({nd.ins[1]} \intersect valued, "Integer")
           [] nd.op = "Shift"  -> Reached(Range(nd.outs) \union Range(nd.ins), "Integer")
           [] OTHER -> {})
        \union
        (IF Flow(nd) \in {"Computes", "Compares"} /\ DataOperands(nd) \intersect valued /= {}
         THEN Reached(DataOperands(nd), "Integer")
                \union Reached(DataOuts(nd), IF Flow(nd) = "Computes" THEN "Integer" ELSE "Upstream")
         ELSE {})
  IN  Reached(Range(g.outs) \intersect valued, "Integer") \union UNION {Of(g.nodes[i]) : i \in DOMAIN g.nodes}

ToSources(g, t, reach) ==
  LET p  == Producer(g, t)
      nd == g.nodes[p]
  IN  IF p = 0 \/ t \notin DataOuts(nd) THEN {}
      ELSE CASE Flow(nd) = "Moves" ->
                  Reached(DataOperands(nd), reach)
                    \union (IF reach = "Integer" THEN Reached(DataOuts(nd), "Integer") ELSE {})
             [] Flow(nd) = "Computes" -> IF reach = "Integer" THEN Reached(DataOperands(nd), "Integer") ELSE {}
             [] Flow(nd) = "Casts" -> Reached(DataOperands(nd), "Upstream")
             [] OTHER -> {}

ToReaders(g, t) ==
  UNION {LET nd == g.nodes[r[1]]
         IN  CASE r[2] \notin DataSlots(nd) -> {}
               [] Flow(nd) = "Casts" -> IF nd.op \in CastsToInteger THEN Reached(DataOuts(nd), "Integer") ELSE {}
               [] OTHER -> Reached(DataOperands(nd), "Integer")
                             \union Reached(DataOuts(nd), IF Flow(nd) = "Compares" THEN "Upstream" ELSE "Integer") :
           r \in InputReads(g, t)}

RECURSIVE Flood(_, _)
Flood(g, items) ==
  LET reached == items \union UNION {ToSources(g, x[1], x[2])
                                       \union (IF x[2] = "Integer" THEN ToReaders(g, x[1]) ELSE {}) : x \in items}
      pinnable == {x \in reached : CanPin(g, x[1])}
  IN  IF pinnable = items THEN items ELSE Flood(g, pinnable)

IntegerRegion(g) == {x[1] : x \in Flood(g, {x \in Seeds(g) : CanPin(g, x[1])})}

\* MUTANT of PinFirstOutputs: the first outputs keep their storage.
KeepFirstOutputs(g) == g

\* A pin on a later output holds only if the node's first one is pinned too.
PinFirstOutputs(g) ==
  [g EXCEPT !.fp32 = @ \union {t \in {g.nodes[i].outs[1] :
                                        i \in {k \in DOMAIN g.nodes : Range(g.nodes[k].outs) \intersect g.fp32 /= {}}} :
                                 CanPin(g, t)}]

pinIntegerResultsFp32(g) == PinFirstOutputs([g EXCEPT !.fp32 = @ \union IntegerRegion(g)])

-----------------------------------------------------------------------------
(* markFp32.                                                               *)

\* A kernel writes all its outputs at the precision of the first.
AlignOutputs(g) ==
  [g EXCEPT !.fp32 = (@ \ UNION {Range(g.nodes[i].outs) : i \in DOMAIN g.nodes})
                       \union UNION {Range(g.nodes[i].outs) :
                                       i \in {k \in DOMAIN g.nodes : g.nodes[k].outs[1] \in g.fp32}}]

\* Operands a kernel reads at their own precision.
ReadsAsStored(g, nd, slot) ==
  \/ nd.op = "Gather" /\ slot = 2
  \/ nd.op = "GridSample" /\ slot = 2 /\ nd.outs[1] \notin g.fp32
  \/ nd.op = "ArgMax" /\ slot = 1

markFp32(g) ==
  LET a == AlignOutputs([g EXCEPT !.fp32 = @ \union {t \in Runtime(g) \intersect g.flat : t \in g.pinned}])
  IN  TopoSort(Splice(a, "ConvertDtype",
        {r \in Reads(a) : LET nd == a.nodes[r[1]]
                          IN  /\ IsRuntime(a, Read(a, r)) /\ ~ReadsAsStored(a, nd, r[2])
                              /\ (Read(a, r) \in a.fp32) /= (nd.outs[1] \in a.fp32)}))

planFlatLayoutAndStorage(g) ==
  markFp32(pinIntegerResultsFp32(pinGridSampleGridFp32(pinGatherIndexFp32(insertLayoutConverts(g)))))
==============================================================================
