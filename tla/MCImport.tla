------------------------------- MODULE MCImport -------------------------------
(* Families of graphs for TLC: for the importer, then what a session loads. *)
EXTENDS Import

One(shape, dtype) == [shape |-> shape, dtype |-> dtype]
Image  == <<One("full", "f")>>
Images == <<One("full", "f"), One("channel", "f")>>
Typed  == <<One("full", "f"), One("full", "i"), One("full", "u8")>>

Settings(blocks, strict) ==
  {[se |-> b, dwpw |-> b, pw |-> TRUE, strict |-> s, plan |-> FALSE] : b \in blocks, s \in strict}
NoUnits == {[se |-> FALSE, dwpw |-> FALSE, pw |-> FALSE, strict |-> FALSE, plan |-> TRUE]}

WithPlan == {[se |-> TRUE, dwpw |-> TRUE, pw |-> FALSE, strict |-> FALSE, plan |-> TRUE]}

Family(inputs, kinds, options) == [inputs |-> inputs, kinds |-> kinds, options |-> options, pins |-> FALSE]
Pinned(f) == [f EXCEPT !.pins = TRUE]

\* Convolutions with what follows them.
Norms == Family(Image, <<{"Conv", "BiasedConv"}, {"BatchNorm", "Relu", "Tile"}, {"BatchNorm", "Dropout"},
                         {"Relu", "Mul", "Conv"}>>, Settings(BOOLEAN, {FALSE}))
\* The two block fusions.
Blocks == {
  Family(Image, <<{"Pool"}, {"PwConv"}, {"Relu", "Relu6"}, {"PwConv"}, {"HardSigmoid"}, {"Mul"}>>,
         Settings({TRUE}, {FALSE}) \union WithPlan),
  Family(Image, <<{"DwConv"}, {"BatchNorm"}, {"Relu", "Clip"}, {"PwConv", "DwConv"}, {"BatchNorm"}>>,
         Settings({TRUE}, {FALSE}) \union WithPlan)}
\* Casts over all three input types.
CastFamily == Family(Typed, <<{"CastFloat", "CastInt"}, {"CastNarrow", "ArgMax", "Relu"},
                              {"CastFloat", "Relu"}, {"Mul", "CastFloat"}>>, Settings({FALSE}, {FALSE}))
\* Copies and sums.
Copies == {
  Family(Image, <<{"Relu", "Conv"}, {"Identity", "Dropout", "DropoutMask", "Train"},
                  {"Identity", "Dropout", "Sum1", "Mean3"}, {"Add", "Identity"}>>, NoUnits),
  Family(Image, <<{"Relu", "Identity"}, {"Identity", "Dropout", "Sum3"}, {"Mean2", "Sum3"}>>,
         Settings({FALSE}, {FALSE}))}
\* Units over two shapes, and behind every kind of host.
Units == {
  Family(Images, <<{"Relu"}, {"Sigmoid", "Pool"}, {"Mul", "Tile"}, {"Mul", "Add"}>>, Settings({FALSE}, BOOLEAN)),
  Family(Image, <<{"Conv", "MatMul", "TiledMatMul", "Softmax"}, {"AddVector", "Sigmoid", "Relu6"},
                  {"Swap", "Concat"}, {"AddChannel", "Relu"}>>, Settings({FALSE}, BOOLEAN)),
  Family(Image, <<{"Sigmoid"}, {"Tile"}, {"Mul"}, {"Tile"}, {"Add"}>>, Settings({FALSE}, {FALSE})),
  Pinned(Family(Image, <<{"Conv"}, {"Sigmoid"}, {"Swap"}, {"Relu"}>>, Settings({FALSE}, {FALSE})))}

\* What the storage plan tells apart: layouts, integers, and marked tensors.
Ids   == <<One("row", "i"), One("full", "f")>>
Tags  == <<One("full", "i"), One("full", "i")>>
Mixed == <<One("full", "f"), One("full", "i"), One("deep", "f")>>
Stored == {
  Family(Ids, <<{"Lookup", "CastInt", "AddInteger"}, {"Gather", "CastFloat", "TopK", "ArgMax"},
                {"Where", "Split", "Shift", "Conv"}>>, NoUnits),
  Family(Tags, <<{"Add", "Join", "Less", "Reshape"}, {"JoinInteger", "Split", "Flatten", "Where"},
                 {"Add", "CastFloat", "TopK", "Shift"}>>, NoUnits),
  Family(Mixed, <<{"TopK", "Tile", "Sigmoid"}, {"Gather", "GridSample", "Flatten"}, {"Add", "GridSample", "Gather"}>>, NoUnits),
  Pinned(Family(Image, <<{"Tile", "Conv"}, {"Softmax", "Reshape", "Split"}, {"GridSample", "MatMul", "Add"}>>, NoUnits))}

MCFamilies == {Norms, CastFamily} \union Copies \union Blocks \union Units \union Stored
MCCycle == {Family(Images, <<{"Relu"}, {"Sigmoid"}, {"Pool"}, {"Mul"}, {"Mul"}>>, Settings({FALSE}, {FALSE}))}
\* For the runs that show what the constants exclude.
MCTaps == {Norms}
MCIndices == {Family(Ids, <<{"CastInt", "Flatten", "TopK"}, {"Gather"}>>, NoUnits)}
MCShared == {Family(Image, <<{"Conv"}, {"Conv"}, {"BatchNorm"}, {"BatchNorm"}>>, NoUnits)}
MCGates == {Family(Image, <<{"Pool"}, {"PwConv"}, {"Relu"}, {"PwConv"}, {"Relu"}, {"HardSigmoid"}>>,
                   Settings({TRUE}, {FALSE}))}

-----------------------------------------------------------------------------
\* A decoder's graph is given line by line; each line makes one tensor, named by a word, a
\* layer and how often it has been moved.
Line(out, op, ins, dims, attr) ==
  <<[out |-> out, op |-> op, ins |-> ins, dims |-> dims, attr |-> attr, steps |-> <<>>]>>
Given(out, dims) == Line(out, "input", <<>>, dims, <<>>)
Scalar(out, n) == Line(out, "parameter", <<>>, <<1>>, [value |-> n])
Table(out, dims) == Line(out, "parameter", <<>>, dims, <<>>)
\* A node and the unit behind it, which reads the operands that follow the node's own.
Unit(out, op, own, ins, dims, steps) ==
  <<[out |-> out, op |-> op, ins |-> own \o ins, dims |-> dims, attr |-> <<>>, steps |-> steps]>>
UnitStep(kind, src, dst) == [kind |-> kind, code |-> "None", src |-> src, dst |-> dst]

Graph(lines, outs, pins) ==
  LET Id(name) == CHOOSE i \in DOMAIN lines : lines[i].out = name
      Content(i) == [j \in 1..Size(lines[i].dims) |->
                       IF Has(lines[i], "value") THEN Number(lines[i].attr.value) ELSE Atom(<<"in", i, j>>)] \o <<>>
      Own(i) == IF lines[i].op = "MatMul" THEN 2 ELSE 1
      Node(i) == [MkNode(lines[i].op, [k \in DOMAIN lines[i].ins |-> Id(lines[i].ins[k])] \o <<>>, <<i>>)
                    EXCEPT !.steps = lines[i].steps, !.opbase = IF lines[i].steps = <<>> THEN @ ELSE Own(i)]
                 @@ [attr |-> lines[i].attr]
      run == SelectSeq([i \in DOMAIN lines |-> i], LAMBDA i : lines[i].op \notin {"input", "parameter"})
  IN  [nodes |-> [k \in DOMAIN run |-> Node(run[k])] \o <<>>, outs |-> [k \in DOMAIN outs |-> Id(outs[k])] \o <<>>,
       inputs |-> {i \in DOMAIN lines : lines[i].op = "input"},
       const |-> [i \in {k \in DOMAIN lines : lines[k].op = "parameter"} |-> Content(i)],
       pinned |-> {Id(p) : p \in pins}, flat |-> {}, fp32 |-> {},
       shape |-> [i \in DOMAIN lines |-> lines[i].dims] \o <<>>, dtype |-> [i \in DOMAIN lines |-> "f"] \o <<>>]

\* Movements of a tensor, one after the other.
Cut(axis, start, end, step) == <<"cut", [starts |-> <<start>>, ends |-> <<end>>, axes |-> <<axis>>, steps |-> <<step>>]>>
CutDims(dims, a) ==
  [dims EXCEPT ![FromEnd(a.axes[1], Len(dims)) + 1] = SliceCount(@, a.starts[1], a.ends[1], a.steps[1])]

Moved(m, from, to, dims) ==
  CASE m[1] = "turn" -> Line(to, "Transpose", <<from>>, [i \in DOMAIN dims |-> dims[m[2][i]]] \o <<>>, [perm |-> m[2]])
    [] m[1] = "reverse" -> Line(to, "Transpose", <<from>>, [i \in DOMAIN dims |-> dims[Len(dims) + 1 - i]] \o <<>>, <<>>)
    [] m[1] = "cut" -> Line(to, "Slice", <<from>>, CutDims(dims, m[2]), m[2])
    [] m[1] = "shape" -> Line(to, "Reshape", <<from>>, m[2], <<>>)
    [] m[1] = "expand" -> Line(to, "Expand", <<from>>, m[2], <<>>)

Moves(word, j, lines, ms) ==
  FoldLeftDomain(LAMBDA w, k : w \o Moved(ms[k], <<word, j, k - 1>>, <<word, j, k>>, w[Len(w)].dims), lines, ms)

Operand(word, dims, ms) == Moves(word, 1, Given(<<word, 1, 0>>, dims), ms)

ThreeAxes == {<<"turn", <<2, 3, 1>>>>, <<"turn", <<1, 3, 2>>>>, <<"reverse">>,
              Cut(1, 1, 9, 1), Cut(-1, 0, 2, 2), Cut(0, -1, -9, -1)}
MoveGraphs ==
  {Graph(Operand("x", <<2, 4, 3>>, <<m[1], m[2], m[3]>>), <<<<"x", 1, 3>>>> \o tap, pin) :
     m \in ThreeAxes \X ThreeAxes \X ThreeAxes, tap \in {<<>>, <<<<"x", 1, 1>>>>, <<<<"x", 1, 2>>>>}, pin \in {{}, {<<"x", 1, 1>>}}}

\* Products of operands that reach their extents by movements, batch 4.
GroupedBy(m, n) == <<<<"shape", <<2, 1, m, n>>>>, <<"expand", <<2, 2, m, n>>>>, <<"shape", <<4, m, n>>>>>>
By(dims, ms) == [dims |-> dims, ms |-> ms]
Lefts(M) ==
  {By(<<4, M, 3>>, <<>>), By(<<1, M, 3>>, <<>>), By(<<1, M, 3>>, <<<<"expand", <<4, M, 3>>>>>>),
   By(<<M, 12>>, <<<<"shape", <<M, 4, 3>>>>, <<"turn", <<2, 1, 3>>>>>>),
   By(<<3, M, 4>>, <<<<"reverse">>>>), By(<<2, M, 3>>, GroupedBy(M, 3))}
Rights ==
  {By(<<4, 3, 2>>, <<>>), By(<<3, 2>>, <<>>), By(<<2, 3>>, <<<<"turn", <<2, 1>>>>>>),
   By(<<3, 2>>, <<<<"expand", <<4, 3, 2>>>>>>), By(<<2, 3, 2>>, GroupedBy(3, 2)),
   By(<<2, 2, 3>>, GroupedBy(2, 3) \o <<<<"turn", <<1, 3, 2>>>>>>),
   By(<<3, 2, 2>>, <<<<"turn", <<2, 1, 3>>>>>> \o GroupedBy(3, 2)), By(<<2, 3, 4>>, <<<<"reverse">>>>),
   By(<<3, 2, 4>>, <<<<"turn", <<3, 1, 2>>>>, <<"shape", <<4, 2, 3>>>>, <<"turn", <<1, 3, 2>>>>>>),
   By(<<4, 6>>, <<<<"turn", <<2, 1>>>>, <<"shape", <<4, 3, 2>>>>>>),
   By(<<2, 2, 2, 3>>, <<<<"turn", <<2, 1, 4, 3>>>>, <<"shape", <<4, 3, 2>>>>>>),
   By(<<2, 4, 3>>, <<<<"turn", <<2, 3, 1>>>>, Cut(1, 0, 3, 1)>>)}
TheProduct == <<"p", 1, 0>>
ProductGraphs ==
  UNION {{Graph(Operand("a", l.dims, l.ms) \o Operand("b", r.dims, r.ms)
                  \o Line(TheProduct, "MatMul", <<<<"a", 1, Len(l.ms)>>, <<"b", 1, Len(r.ms)>>>>, <<4, M, 2>>, <<>>), <<TheProduct>>, {}) :
            l \in Lefts(M), r \in Rights} : M \in 1..3}

-----------------------------------------------------------------------------
\* The attention of layer j.  c has the layout of its cache (1 by heads, 2 by tokens), the heads
\* of keys and of queries, how many queries after how many tokens, the widths of keys and values,
\* the scaling and masking of the scores (<<op, factor or extents>>), whether these are one unit,
\* and whether the heads are joined at the end.
Base == [layout |-> 1, kv |-> 2, heads |-> 4, queries |-> 1, past |-> 2, wk |-> 2, wv |-> 2,
         steps |-> <<>>, unit |-> FALSE, joined |-> TRUE]

RowDims(c, n, width) == IF c.layout = 1 THEN <<c.kv, n, width>> ELSE <<n, c.kv, width>>

\* Rows by token turned by head, each head repeated for the queries that share it.
ForHeads(c, n, width) ==
  (IF c.layout = 1 THEN <<>> ELSE <<<<"turn", <<2, 1, 3>>>>>>)
    \o (IF c.kv = c.heads THEN <<>>
        ELSE <<<<"shape", <<c.kv, 1, n, width>>>>, <<"expand", <<c.kv, c.heads \div c.kv, n, width>>>>,
               <<"shape", <<c.heads, n, width>>>>>>)

\* The past and the new rows, joined.
Cached(old, new, all, j, c, width) ==
  Given(<<old, j, 0>>, RowDims(c, c.past, width)) \o Given(<<new, j, 0>>, RowDims(c, c.queries, width))
  \o Line(<<all, j, 0>>, "Concat", <<<<old, j, 0>>, <<new, j, 0>>>>, RowDims(c, c.past + c.queries, width),
          [axis |-> IF c.layout = 1 THEN 2 ELSE 1])

\* Scores: <<"s", j, k>> after k steps, or after their unit.
ScoreOperands(j, steps) ==
  FoldLeftDomain(LAMBDA w, k : w \o IF steps[k][1] = "Mul" THEN Scalar(<<"o", j, k>>, steps[k][2])
                                    ELSE Given(<<"o", j, k>>, steps[k][2]), <<>>, steps)
ScoreNodes(j, steps, dims) ==
  FoldLeftDomain(LAMBDA w, k : w \o Line(<<"s", j, k>>, steps[k][1],
                                         IF k % 2 = 1 THEN <<<<"s", j, k - 1>>, <<"o", j, k>>>>
                                         ELSE <<<<"o", j, k>>, <<"s", j, k - 1>>>>, dims, <<>>), <<>>, steps)
ScoreSteps(steps) ==
  [k \in DOMAIN steps |-> UnitStep(steps[k][1], <<IF k = 1 THEN <<"entry">> ELSE <<"acc">>, <<"op", k + 2>>>>, 0)] \o <<>>

Scores(j, c, qk, dims) ==
  ScoreOperands(j, c.steps)
  \o IF c.unit THEN Unit(<<"s", j, Len(c.steps)>>, "MatMul", qk, [k \in DOMAIN c.steps |-> <<"o", j, k>>] \o <<>>,
                         dims, ScoreSteps(c.steps))
     ELSE Line(<<"s", j, 0>>, "MatMul", qk, dims, <<>>) \o ScoreNodes(j, c.steps, dims)

Attention(j, c) ==
  LET n  == c.past + c.queries
      ks == ForHeads(c, n, c.wk) \o <<<<"turn", <<1, 3, 2>>>>>>
      vs == ForHeads(c, n, c.wv)
      dims == <<c.heads, c.queries, n>>
  IN  Moves("k", j, Cached("kp", "kn", "k", j, c, c.wk), ks) \o Moves("v", j, Cached("vp", "vn", "v", j, c, c.wv), vs)
      \o Scores(j, c, <<<<"q", 1, 1>>, <<"k", j, Len(ks)>>>>, dims)
      \o Line(<<"w", j, 0>>, "Softmax", <<<<"s", j, Len(c.steps)>>>>, dims, <<>>)
      \o Moves("c", j, Line(<<"c", j, 0>>, "MatMul", <<<<"w", j, 0>>, <<"v", j, Len(vs)>>>>, <<c.heads, c.queries, c.wv>>, <<>>),
               IF c.joined THEN <<<<"turn", <<2, 1, 3>>>>, <<"shape", <<c.queries, c.heads * c.wv>>>>>> ELSE <<>>)

Queries(c) == Operand("q", <<c.queries, c.heads, c.wk>>, <<<<"turn", <<2, 1, 3>>>>>>)

Context(c) == <<"c", 1, IF c.joined THEN 2 ELSE 0>>
Presented(j) == <<<<"k", j, 0>>, <<"v", j, 0>>>>
OneLayer(c, taps, pins) == Graph(Queries(c) \o Attention(1, c), <<Context(c)>> \o Presented(1) \o taps, pins)

ByLayout == {[Base EXCEPT !.layout = l, !.queries = q, !.past = 3 - q] : l \in {1, 2}, q \in {1, 2}}

Masks(c) == {<<3>>, <<c.queries, 3>>, <<c.heads, 1, 1>>, <<c.heads, c.queries, 3>>}
Scorings(c) ==
  {<<>>, <<<<"Mul", 2>>>>, <<<<"Add", <<3>>>>, <<"Add", <<c.queries, 3>>>>>>}
  \union UNION {{<<<<"Add", m>>>>, <<<<"Mul", 2>>, <<"Add", m>>>>, <<<<"Mul", 3>>, <<"Add", m>>, <<"Mul", 2>>>>} : m \in Masks(c)}
ScoredGraphs == UNION {{OneLayer([c EXCEPT !.steps = s, !.unit = u], <<>>, {}) : s \in Scorings(c), u \in BOOLEAN} : c \in ByLayout}

\* What else names or pins a tensor of the chain.
Inner(c) == {<<"k", 1, 1>>, <<"s", 1, 0>>, <<"s", 1, 1>>, <<"s", 1, 2>>, <<"w", 1, 0>>, <<"c", 1, 0>>, <<"c", 1, 1>>}
ScaledMasked == {[c EXCEPT !.steps = <<<<"Mul", 2>>, <<"Add", <<c.queries, 3>>>>>>] : c \in ByLayout}
TappedGraphs ==
  UNION {{OneLayer(c, <<t>>, {}) : t \in Inner(c)} \union {OneLayer(c, <<>>, {t}) : t \in Inner(c)} : c \in ScaledMasked}
  \union {OneLayer([c EXCEPT !.kv = kv, !.heads = 2, !.joined = FALSE], <<>>, {}) : c \in ScaledMasked, kv \in {1, 2}}

\* Two layers over one query; the second keeps another form of the cache, is not fused for its
\* context, or its keys have another reader.
SmallLayer(l, q, past) ==
  [Base EXCEPT !.heads = 2, !.kv = 1, !.joined = FALSE, !.layout = l, !.past = past, !.queries = q,
               !.steps = IF q = 1 THEN <<>> ELSE <<<<"Add", <<q, past + q>>>>>>]
Seconds(c) == {c, [c EXCEPT !.layout = 3 - @], [c EXCEPT !.kv = 2, !.layout = 1], SmallLayer(c.layout, c.queries, 2)}
TwoLayers(c, d, read) ==
  LET K == <<"k", 2, 0>>
  IN  Graph(Queries(c) \o Attention(1, c) \o Attention(2, d)
              \o Line(<<"y", 1, 0>>, "Add", <<<<"c", 1, 0>>, <<"c", 2, 0>>>>, <<c.heads, c.queries, c.wv>>, <<>>)
              \o (IF read THEN Line(<<"r", 1, 0>>, "Reshape", <<K>>, <<d.kv * (d.past + d.queries) * d.wk>>, <<>>) ELSE <<>>),
            <<<<"y", 1, 0>>>> \o Presented(1) \o Presented(2) \o (IF read THEN <<<<"r", 1, 0>>>> ELSE <<>>), {})
LayeredGraphs ==
  UNION {{TwoLayers(SmallLayer(l, q, 1), d, read) : d \in Seconds(SmallLayer(l, q, 1)), read \in BOOLEAN} : l \in {1, 2}, q \in {1, 2}}

-----------------------------------------------------------------------------
\* Rotary embedding of x: its halves a and b, the rows c and s of two tables, and two sums
\* << <<h, r, op, k, t>>, ... >>, each half h by row r op half k by row t.
RotaryRow(word, table, pos) ==
  Moves(word, 1, Line(<<word, 1, 0>>, "Gather", <<table, pos>>, <<2, 2>>, [axis |-> 1]), <<<<"shape", <<2, 1, 2>>>>>>)
RotaryHalf(word, heads, lo) == Line(<<word, 1, 0>>, "Slice", <<<<"x", 1, 0>>>>, <<2, heads, 2>>, Cut(2, lo, lo + 2, 1)[2])

HalfName(k) == <<<<"a", "b">>[k], 1, 0>>
RowName(k) == <<<<"c", "s">>[k], 1, 1>>
RotarySum(out, f, dims, unit) ==
  IF unit
  THEN Unit(<<out, 1, 2>>, "FusedPointwise", <<HalfName(f[1])>>, <<RowName(f[2]), HalfName(f[4]), RowName(f[5])>>, dims,
            <<UnitStep("Mul", <<<<"entry">>, <<"op", 2>>>>, 1), UnitStep("Mul", <<<<"op", 3>>, <<"op", 4>>>>, 0),
              UnitStep(f[3], <<<<"reg", 1>>, <<"acc">>>>, 0)>>)
  ELSE Line(<<out, 1, 0>>, "Mul", <<HalfName(f[1]), RowName(f[2])>>, dims, <<>>) \o Line(<<out, 1, 1>>, "Mul", <<RowName(f[5]), HalfName(f[4])>>, dims, <<>>)
       \o Line(<<out, 1, 2>>, f[3], <<<<out, 1, 0>>, <<out, 1, 1>>>>, dims, <<>>)

\* The table and the position of each row.
Rotary(heads, form, unit, tables, positions, taps, pins) ==
  LET dims == <<2, heads, 2>>
      T(k) == <<<<"t", "u">>[k], 1, 0>>
      N(k) == <<<<"n", "m">>[k], 1, 0>>
  IN  Graph(Given(<<"x", 1, 0>>, <<2, heads, 4>>) \o Given(N(1), <<2>>) \o Given(N(2), <<2>>)
              \o Table(T(1), <<3, 2>>) \o Table(T(2), <<3, 2>>)
              \o RotaryRow("c", T(tables[1]), N(positions[1])) \o RotaryRow("s", T(tables[2]), N(positions[2]))
              \o RotaryHalf("a", heads, 0) \o RotaryHalf("b", heads, 2)
              \o RotarySum("f", form[1], dims, unit) \o RotarySum("g", form[2], dims, unit)
              \o Line(<<"y", 1, 0>>, "Concat", <<<<"f", 1, 2>>, <<"g", 1, 2>>>>, <<2, heads, 4>>, [axis |-> 3]),
            <<<<"y", 1, 0>>>> \o taps, pins)

Sums == {1, 2} \X {1, 2} \X {"Sub", "Add"} \X {1, 2} \X {1, 2}
Forms == {e \in Sums : e[1] /= e[4]} \X {e \in Sums : e[1] = 1 /\ e[4] = 2}
Usual == <<<<1, 1, "Sub", 2, 2>>, <<1, 2, "Add", 2, 1>>>>
RotaryInner == {<<"a", 1, 0>>, <<"c", 1, 0>>, <<"c", 1, 1>>, <<"f", 1, 2>>}
RopeGraphs ==
  {Rotary(heads, form, unit, <<1, 2>>, <<1, 1>>, <<>>, {}) : heads \in {1, 2}, form \in Forms, unit \in BOOLEAN}
  \union {Rotary(2, Usual, FALSE, tables, positions, tap, pin) :
            tables \in {<<1, 2>>, <<1, 1>>, <<2, 1>>}, positions \in {<<1, 1>>, <<1, 2>>},
            tap \in {<<>>} \union {<<t>> : t \in RotaryInner}, pin \in {{}} \union {{t} : t \in RotaryInner}}

AllHints == [rope |-> TRUE, views |-> TRUE, attention |-> TRUE, kv |-> TRUE, plan |-> FALSE]
FewerHints == {[AllHints EXCEPT !.kv = FALSE], [AllHints EXCEPT !.attention = FALSE], [AllHints EXCEPT !.views = FALSE]}

MCDecoders == {
  [graphs |-> MoveGraphs, options |-> {AllHints}],
  [graphs |-> ProductGraphs, options |-> {AllHints}],
  [graphs |-> RopeGraphs, options |-> {AllHints}],
  [graphs |-> ScoredGraphs \union TappedGraphs, options |-> {AllHints}],
  [graphs |-> LayeredGraphs, options |-> {AllHints} \union FewerHints]}
\* Keys wider than values.
MCHeads == {[graphs |-> {OneLayer([c EXCEPT !.wk = 3], <<>>, {}) : c \in ByLayout}, options |-> {AllHints}]}
MCNone == {}
==============================================================================
