----------------------------- MODULE ImportGraph -----------------------------
(***************************************************************************)
(* The graph the importer's passes rewrite (include/vknn/graph.h, node.h)  *)
(* and what it computes.                                                   *)
(*                                                                         *)
(* A graph is a record: nodes, a sequence in schedule order; outs, the     *)
(* graph outputs by slot; shape and dtype, one entry per tensor id; const, *)
(* the initializers and the value each holds; inputs, the graph inputs;    *)
(* pinned, the tensors whose name asks for fp32; flat and fp32, the device *)
(* layout and storage chosen at load.  A tensor id is a positive number,   *)
(* 0 is kNoTensor.                                                         *)
(*                                                                         *)
(* A value is a term: an operation applied to terms.  Two graphs compute   *)
(* the same outputs when their terms are equal, which is exact for         *)
(* rewritings that move, merge or drop nodes without changing arithmetic.  *)
(* The few that do change it (a batch norm folded into weights, a cast     *)
(* pair turned into a truncation, swish as one step) are equations of the  *)
(* constructors below.                                                     *)
(***************************************************************************)
EXTENDS Integers, FiniteSets, SequencesExt

\* A node with no epilogue.
MkNode(op, ins, outs) ==
  [op |-> op, ins |-> ins, outs |-> outs, act |-> "None", sub |-> "None",
   bias |-> 0, opbase |-> 0, steps |-> <<>>, pwOuts |-> <<>>]

TensorIds(g) == 1..Len(g.shape)

IsConst(g, t) == t \in DOMAIN g.const

\* Graph::addTensor: the new id is the number of tensors, as ids start at 1.
AddTensor(g, shape, dtype) ==
  [g EXCEPT !.shape = Append(@, shape), !.dtype = Append(@, dtype)]

NewTensor(g) == Len(g.shape)

AddConst(g, shape, value) ==
  LET h == AddTensor(g, shape, value.ty)
  IN  [h EXCEPT !.const = [t \in DOMAIN @ \union {NewTensor(h)} |->
                             IF t = NewTensor(h) THEN value ELSE @[t]]]

-----------------------------------------------------------------------------
\* Who writes and who reads a tensor.  The passes' producer maps are filled in
\* node order, so the last writer wins; 0 is no producer.
Producer(g, t) ==
  LET writers == {i \in DOMAIN g.nodes : t \in Range(g.nodes[i].outs)}
  IN  IF t = 0 \/ writers = {} THEN 0 ELSE CHOOSE i \in writers : \A j \in writers : j <= i

\* Reads of t through node inputs, one for each operand slot.
InputReads(g, t) ==
  {r \in UNION {{<<i, k>> : k \in DOMAIN g.nodes[i].ins} : i \in DOMAIN g.nodes} :
     g.nodes[r[1]].ins[r[2]] = t}

OutputReads(g, t) == {k \in DOMAIN g.outs : g.outs[k] = t}

Subst(s, from, to) == ReplaceAll(s, from, to)

\* Redirect reads of `from`: of node inputs, ...
RewireInputs(g, from, to) ==
  [g EXCEPT !.nodes = [i \in DOMAIN @ |-> [@[i] EXCEPT !.ins = Subst(@, from, to)]]]

\* ... of the fused edges too, ...
RewireReads(g, from, to) ==
  [g EXCEPT !.nodes = [i \in DOMAIN @ |->
     [@[i] EXCEPT !.ins = Subst(@, from, to), !.bias = IF @ = from THEN to ELSE @]]]

\* ... and of the graph outputs.
RewireOutputs(g, from, to) == [g EXCEPT !.outs = Subst(@, from, to)]

RewireTensor(g, from, to) ==
  IF from = to \/ from = 0 THEN g ELSE RewireOutputs(RewireReads(g, from, to), from, to)

\* A set of positive numbers in rising order.
Ascending(S) ==
  IF S = {} THEN <<>>
  ELSE SelectSeq([k \in 1..(CHOOSE x \in S : \A y \in S : y <= x) |-> k], LAMBDA k : k \in S)

\* The compaction at the end of a pass.
DropNodes(g, removed) ==
  LET kept == Ascending(DOMAIN g.nodes \ removed)
  IN  [g EXCEPT !.nodes = [k \in DOMAIN kept |-> g.nodes[kept[k]]]]

\* A pass walks the node list once, carrying the graph and the nodes to drop.
Sweep(Visit(_, _), g) ==
  LET end == FoldLeftDomain(LAMBDA w, i : Visit(w, i), [g |-> g, removed |-> {}], g.nodes)
  IN  DropNodes(end.g, end.removed)

-----------------------------------------------------------------------------
\* Graph::topoSort: Kahn's algorithm, seeded and extended in node order.  Of a
\* cycle, which the code reports with an exception, no node is in the result.
Preds(g, i) ==
  {Producer(g, t) : t \in Range(g.nodes[i].ins) \union {g.nodes[i].bias}} \ {0, i}

RECURSIVE Kahn(_, _, _)
Kahn(preds, queue, head) ==
  IF head > Len(queue) THEN queue
  ELSE LET done  == {queue[k] : k \in 1..head}
           ready == {v \in DOMAIN preds : queue[head] \in preds[v] /\ preds[v] \subseteq done}
       IN  Kahn(preds, queue \o Ascending(ready), head + 1)

TopoSort(g) ==
  LET preds == [i \in DOMAIN g.nodes |-> Preds(g, i)]
      order == Kahn(preds, Ascending({i \in DOMAIN preds : preds[i] = {}}), 1)
  IN  [g EXCEPT !.nodes = [k \in DOMAIN order |-> g.nodes[order[k]]]]

Acyclic(g) == Len(TopoSort(g).nodes) = Len(g.nodes)

-----------------------------------------------------------------------------
(* Values.  A value is [ty, t]: whether its elements are integers or floats, *)
(* and the term.                                                             *)
F(term) == [ty |-> "f", t |-> term]
I(term) == [ty |-> "i", t |-> term]

Undefined == F(<<"undefined">>)

AddV(a, b) ==
  IF a.t[1] = "Mul" /\ b.t[1] = "shift" /\ F(<<"scale", b.t[2]>>) \in a.t[2]
    THEN LET x == CHOOSE v \in a.t[2] : Cardinality(a.t[2]) = 1 \/ v /= F(<<"scale", b.t[2]>>)
         IN  F(<<"bn", b.t[2], x>>)
    ELSE [ty |-> a.ty, t |-> <<"Add", a, b>>]

MulV(a, b) == [ty |-> a.ty, t |-> <<"Mul", {a, b}>>]

UnaryV(f, a) == [ty |-> a.ty, t |-> <<f, a>>]

ActV(act, a) == IF act = "None" THEN a ELSE UnaryV(act, a)

PartV(k, a) == [ty |-> a.ty, t |-> <<"part", k, a>>]

SiluV(a) == MulV(a, UnaryV("Sigmoid", a))

\* A convolution whose weights and bias carry a batch norm.
RECURSIVE ConvV(_, _, _, _)
ConvV(kind, x, w, b) ==
  IF w.t[1] = "scaled" /\ b.t[1] = "shifted" /\ w.t[2] = b.t[2]
  THEN F(<<"bn", w.t[2], ConvV(kind, x, w.t[3], b.t[3])>>)
  ELSE F(<<"Conv", kind, x, w, b>>)

NoBias == F(<<"zero">>)

CastV(to, a) ==
  CASE to = "f" /\ a.ty = "f" -> a
    [] to = "f" /\ a.ty = "i" -> IF a.t[1] = "toInt" THEN F(<<"Trunc", a.t[2]>>) ELSE F(<<"toFloat", a>>)
    [] to = "i" /\ a.ty = "i" -> a
    [] to = "i" /\ a.ty = "f" -> I(<<"toInt", a>>)
    [] to = "narrow"          -> I(<<"toNarrow", a>>)

\* What each operator computes from its inputs, v[k] the value of input k
\* (Undefined where the node has none), before any epilogue.
ConvOps == [Conv |-> "kxk", DwConv |-> "dw", PwConv |-> "1x1"]

Compute(nd, v) ==
  LET n      == nd.op
      core   == IF nd.steps = <<>> THEN Len(nd.ins) ELSE nd.opbase
      In(k)  == IF k <= core /\ nd.ins[k] /= 0 THEN v[k] ELSE Undefined
      Bias(k) == IF k <= core /\ nd.ins[k] /= 0 THEN v[k] ELSE NoBias
      Sum    == FoldLeftDomain(LAMBDA acc, k : IF k = 1 THEN v[1] ELSE AddV(acc, v[k]), Undefined,
                               SubSeq(nd.ins, 1, core))
  IN  CASE n \in DOMAIN ConvOps -> ConvV(ConvOps[n], In(1), In(2), Bias(3))
        [] n = "BatchNorm" -> F(<<"bn", In(2), In(1)>>)
        [] n \in {"Identity", "Dropout", "FusedPointwise", "ConvertLayout", "ConvertDtype"} -> In(1)
        [] n \in {"Reshape", "Flatten", "TopK"} -> UnaryV(n, In(1))
        [] n = "Split" -> PartV(1, In(1))
        [] n \in {"Gather", "Concat", "Shift"} -> [ty |-> In(1).ty, t |-> <<n, In(1), In(2)>>]
        [] n = "Where" -> [ty |-> In(2).ty, t |-> <<n, In(1), In(2), In(3)>>]
        [] n \in {"Less", "GridSample"} -> F(<<n, In(1), In(2)>>)
        [] n = "Train" -> F(<<"Train", In(1)>>)
        [] n \in {"Relu", "Relu6", "Clip", "Sigmoid", "HardSigmoid", "Trunc"} -> UnaryV(n, In(1))
        [] n \in {"Pool", "Softmax"} -> F(<<n, In(1)>>)
        [] n = "Tile" -> UnaryV(n, In(1))
        [] n = "ArgMax" -> I(<<n, In(1)>>)
        [] n = "CastFloat" -> CastV("f", In(1))
        [] n = "CastInt" -> CastV("i", In(1))
        [] n = "CastNarrow" -> CastV("narrow", In(1))
        [] n = "Add" -> Sum
        [] n = "Mean" -> MulV(Sum, F(<<"reciprocal", core>>))
        [] n = "Mul" -> MulV(In(1), In(2))
        [] n \in {"MatMul", "TiledMatMul"} ->
             IF nd.bias = 0 THEN F(<<"MatMul", In(1), In(2)>>)
             ELSE AddV(F(<<"MatMul", In(1), In(2)>>), In(3))
        [] n = "FusedSE" ->
             UnaryV("HardSigmoid", ConvV("1x1", UnaryV("Relu", ConvV("1x1", In(1), In(2), Bias(3))),
                                         In(4), Bias(5)))
        [] n = "FusedDwPw" ->
             ConvV("1x1", ActV(nd.sub, ConvV("dw", In(1), In(2), Bias(3))), In(4), Bias(5))

\* applyPwEpilogue: the step program over the entry value.  A reference is
\* <<"acc">>, <<"entry">>, <<"reg", r>> or <<"op", k>>, k indexing the node's
\* inputs; a register that was never written reads zero.
StepValue(step, a, b) ==
  CASE step.kind = "Load"  -> a
    [] step.kind = "Unary" -> IF step.code = "SiLU" THEN SiluV(a) ELSE ActV(step.code, a)
    [] step.kind = "Add"   -> AddV(a, b)
    [] step.kind = "Mul"   -> MulV(a, b)

RunSteps(nd, entry, v) ==
  LET Ref(m, r) == CASE r[1] = "acc"   -> m.acc
                     [] r[1] = "entry" -> entry
                     [] r[1] = "reg"   -> m.reg[r[2]]
                     [] r[1] = "op"    -> v[r[2]]
      Exec(m, s) ==
        LET step == nd.steps[s]
            b    == IF Len(step.src) = 2 THEN Ref(m, step.src[2]) ELSE Undefined
            acc  == StepValue(step, Ref(m, step.src[1]), b)
        IN  [acc |-> acc, log |-> Append(m.log, acc),
             reg |-> IF step.dst = 0 THEN m.reg ELSE [m.reg EXCEPT ![step.dst] = acc]]
  IN  FoldLeftDomain(LAMBDA m, s : Exec(m, s),
                     [acc |-> entry, log |-> <<>>, reg |-> [r \in 1..8 |-> F(<<"zero">>)]], nd.steps)

\* The values a node writes, one for each of its outputs.
NodeValues(nd, v) ==
  LET entry == ActV(nd.act, Compute(nd, v))
      run   == RunSteps(nd, entry, v)
  IN  [o \in DOMAIN nd.outs |->
         IF o = 1 THEN run.acc
         ELSE IF nd.op = "Split" THEN PartV(o, v[1])
         ELSE IF nd.op = "TopK" THEN I(<<"indices", v[1]>>)
         ELSE IF nd.op = "Dropout" THEN F(<<"mask", v[1]>>)
         ELSE IF nd.pwOuts[o - 1] = 0 THEN entry ELSE run.log[nd.pwOuts[o - 1]]]

\* The values of all tensors.  Nodes run in list order, as the session runs
\* them; what is read before it is written has no value.
Values(g) ==
  FoldLeftDomain(
    LAMBDA val, i :
      LET nd  == g.nodes[i]
          out == NodeValues(nd, [k \in DOMAIN nd.ins |-> IF nd.ins[k] = 0 THEN Undefined ELSE val[nd.ins[k]]])
      IN  FoldLeftDomain(LAMBDA v, o : [v EXCEPT ![nd.outs[o]] = out[o]], val, nd.outs),
    [t \in TensorIds(g) |-> IF IsConst(g, t) THEN g.const[t]
                            ELSE IF t \in g.inputs
                                 THEN [ty |-> IF g.dtype[t] = "i" THEN "i" ELSE "f", t |-> <<"in", t>>]
                                 ELSE Undefined],
    g.nodes)

OutputValues(g) == LET val == Values(g) IN [k \in DOMAIN g.outs |-> val[g.outs[k]]]
==============================================================================
