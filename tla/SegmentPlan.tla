----------------------------- MODULE SegmentPlan -----------------------------
(***************************************************************************)
(* Which memory each activation of a Vulkan segment lives in: the          *)
(* constructor of VulkanSegment aliases pure copies, places the parts of   *)
(* Concat, Split, Slice and Pad as views into one buffer, and pools what   *)
(* is left by liveness (backend/vulkan/vk_segment.cpp).                    *)
(*                                                                         *)
(* The planner is a pure function of the segment, so the module builds     *)
(* every segment whose k-th node is of kinds[k], node by node, and states   *)
(* its properties of the plan of each finished segment.  A tensor is a     *)
(* number; sizes and offsets count units of storage of one layout.  Inputs *)
(* are session inputs; a fused residual is one more input of its node.     *)
(***************************************************************************)
EXTENDS Integers, Sequences, FiniteSets, SequencesExt

CONSTANT
  Shapes  \* the segments to build: for each the sizes of its boundary inputs, the kinds of node to
          \* try at each position, the most inputs an op has, 1 or 2, and the bound of a tensor's size

ASSUME SegmentPlanAssumption ==
  \A s \in Shapes : /\ s.maxSize \in Nat /\ s.inputs \in Seq(1 .. s.maxSize)
                    /\ s.maxReads \in {1, 2}
                    /\ s.kinds \in Seq(SUBSET {"op", "reshape", "concat", "split", "slice", "pad"})

VARIABLES
  shape,     \* the member of Shapes being built
  nodes,     \* the segment's nodes in execution order: [op, ins, outs, at]
  size,      \* the size of each tensor
  readBack,  \* tensors read outside the segment
  done       \* the segment is complete

vars == <<shape, nodes, size, readBack, done>>

Inputs  == 1 .. Len(shape.inputs)
Tensors == DOMAIN size
Pos     == DOMAIN nodes
Ins(k)  == ToSet(nodes[k].ins)
Outs(k) == ToSet(nodes[k].outs)

\* The offset of slice i among the tensors of s laid end to end.
OffsetIn(s, i) == FoldLeft(+, 0, [j \in 1 .. i - 1 |-> size[s[j]]])

-----------------------------------------------------------------------------
\* Aliases: the output of a pure copy shares its input's buffer.

\* MUTANT of Aliases: outputs read outside the segment are aliased too.
AliasesReadBack ==
  FoldLeft(LAMBDA alias, n : IF n.op = "reshape"
                             THEN [alias EXCEPT ![n.outs[1]] = alias[n.ins[1]]] ELSE alias,
           [t \in Tensors |-> t], nodes)

\* aliasRoot: only an output that stays inside the segment.
Aliases ==
  FoldLeft(LAMBDA alias, n : IF n.op = "reshape" /\ n.outs[1] \notin readBack
                             THEN [alias EXCEPT ![n.outs[1]] = alias[n.ins[1]]] ELSE alias,
           [t \in Tensors |-> t], nodes)

-----------------------------------------------------------------------------
\* Views: a plan p is [alias, view, claims, elided, fills, rescues]; view[t] = <<parent, offset>>.
\* rescues is no state of the code: the groups moved by the liveness rescue.

\* resolveView
Place(view, t) ==
  LET hop[n \in 0 .. Len(size)] ==
        IF n = 0 THEN <<t, 0>>
        ELSE LET r == hop[n - 1]
             IN  IF r[1] \in DOMAIN view THEN <<view[r[1]][1], r[2] + view[r[1]][2]>> ELSE r
  IN  hop[Len(size)]
PlaceOf(p, t) == Place(p.view, p.alias[t])

Internal(t) == t \in Tensors \ (Inputs \cup readBack)
ExtendView(view, t, parent, off) ==
  [u \in DOMAIN view \cup {t} |-> IF u = t THEN <<parent, off>> ELSE view[u]]

\* claimWrite: a range no other claim on that tensor overlaps.
Claimable(p, whole, lo, hi) ==
  \A c \in p.claims : c.of = whole => hi <= c.lo \/ c.hi <= lo
Claim(p, whole, lo, hi) == [p EXCEPT !.claims = @ \cup {[of |-> whole, lo |-> lo, hi |-> hi]}]

\* The last position that reads t by name, 0 if none; the one that produces it, past the end if none.
LastRead(t)  == FoldLeft(LAMBDA a, k : IF t \in Ins(k) THEN k ELSE a, 0, [k \in Pos |-> k])
Producer(t)  == FoldLeft(LAMBDA a, k : IF t \in Outs(k) THEN k ELSE a, Len(nodes) + 1, [k \in Pos |-> k])

\* A pad whose data becomes a view into the padded buffer; the node only fills the rest.  The data is
\* internal, what it is an alias of need not be.
PlanPad(p, k) ==
  LET data == nodes[k].ins[1]
      out  == nodes[k].outs[1]
      root == p.alias[data]
  IN  IF Internal(data) /\ PlaceOf(p, data) = <<root, 0>> /\ size[root] = size[data]
         /\ Claimable(p, out, 0, size[out])
      THEN [Claim(p, out, 0, size[out]) EXCEPT !.view = ExtendView(@, root, out, nodes[k].at),
                                               !.fills = @ \cup {k}]
      ELSE p

\* A slice whose output becomes a view into its input.
PlanSlice(p, k) ==
  LET out    == nodes[k].outs[1]
      parent == p.alias[nodes[k].ins[1]]
  IN  IF Internal(out) /\ parent \notin Inputs
      THEN [p EXCEPT !.view = ExtendView(@, out, parent, nodes[k].at), !.elided = @ \cup {k}]
      ELSE p

\* MUTANT of PlanSplit: a split with one view is elided.
PlanSplitElidesPartly(p, k) ==
  LET whole  == nodes[k].ins[1]
      outs   == nodes[k].outs
      parent == p.alias[whole]
      ok     == {i \in DOMAIN outs : Internal(outs[i]) /\ parent \notin Inputs}
      view   == FoldLeft(LAMBDA v, i : IF i \in ok THEN ExtendView(v, outs[i], parent, OffsetIn(outs, i)) ELSE v,
                         p.view, [i \in DOMAIN outs |-> i])
  IN  [p EXCEPT !.view = view, !.elided = IF ok # {} THEN @ \cup {k} ELSE @]

\* A split, each output a view into its input.
PlanSplit(p, k) ==
  LET whole  == nodes[k].ins[1]
      outs   == nodes[k].outs
      parent == p.alias[whole]
      ok     == {i \in DOMAIN outs : Internal(outs[i]) /\ parent \notin Inputs}
      view   == FoldLeft(LAMBDA v, i : IF i \in ok THEN ExtendView(v, outs[i], parent, OffsetIn(outs, i)) ELSE v,
                         p.view, [i \in DOMAIN outs |-> i])
  IN  [p EXCEPT !.view = view, !.elided = IF ok = DOMAIN outs THEN @ \cup {k} ELSE @]

\* The slices of the concat at k whose place is in r, and the one distance they all lie from it.
Tiles(p, k, r) ==
  LET ins == nodes[k].ins
  IN  {i \in DOMAIN ins : PlaceOf(p, ins[i])[1] = r /\ OffsetIn(ins, i) >= PlaceOf(p, ins[i])[2]}
Delta(p, k, i) == OffsetIn(nodes[k].ins, i) - PlaceOf(p, nodes[k].ins[i])[2]

\* The units of r that no tile covers.
Uncovered(p, k, r) ==
  (0 .. size[r] - 1) \
    UNION {PlaceOf(p, nodes[k].ins[i])[2] .. PlaceOf(p, nodes[k].ins[i])[2] + size[nodes[k].ins[i]] - 1 :
             i \in Tiles(p, k, r)}

\* MUTANT of Group: the views of r are forgotten.
GroupOfRoot(p, r) == {<<r, 0>>}

\* The group of r with the offset of each member: r and the views that resolve to it.
Group(p, r) ==
  {<<r, 0>>} \cup {<<t, Place(p.view, t)[2]>> : t \in {u \in DOMAIN p.view : Place(p.view, u)[1] = r}}

\* MUTANT of Rescued: reading as late as the writer's own position is let through.
RescuedLate(p, k, r) ==
  LET ins     == nodes[k].ins
      delta   == Delta(p, k, CHOOSE i \in Tiles(p, k, r) : TRUE)
  IN  \A m \in Group(p, r) :
        LET cells == m[2] .. m[2] + size[m[1]] - 1
        IN  \/ cells \cap Uncovered(p, k, r) = {} \/ LastRead(m[1]) = 0
            \/ \A j \in DOMAIN ins \ Tiles(p, k, r) :
                 (\E c \in cells : OffsetIn(ins, j) <= delta + c /\ delta + c < OffsetIn(ins, j) + size[ins[j]])
                   => LastRead(m[1]) <= Producer(ins[j])

\* The liveness rescue: every member of r's group over an uncovered unit is last read before the
\* producers of the slices that will hold that unit.
Rescued(p, k, r) ==
  LET ins     == nodes[k].ins
      delta   == Delta(p, k, CHOOSE i \in Tiles(p, k, r) : TRUE)
  IN  \A m \in Group(p, r) :
        LET cells == m[2] .. m[2] + size[m[1]] - 1
        IN  \/ cells \cap Uncovered(p, k, r) = {} \/ LastRead(m[1]) = 0
            \/ \A j \in DOMAIN ins \ Tiles(p, k, r) :
                 (\E c \in cells : OffsetIn(ins, j) <= delta + c /\ delta + c < OffsetIn(ins, j) + size[ins[j]])
                   => LastRead(m[1]) < Producer(ins[j])

\* The group of r moves into the concat's buffer when its slices tile r at one distance, or are
\* rescued, and claim ranges of their own.
PlanRoot(p, k, r) ==
  LET ins   == nodes[k].ins
      whole == nodes[k].outs[1]
      tiles == Tiles(p, k, r)
      off(i)   == PlaceOf(p, ins[i])[2]
      range(i) == [of |-> whole, lo |-> OffsetIn(ins, i), hi |-> OffsetIn(ins, i) + size[ins[i]]]
      delta == Delta(p, k, CHOOSE i \in tiles : TRUE)
  IN  IF /\ \A i \in tiles : Delta(p, k, i) = delta
         /\ \A i, j \in tiles : i < j => off(i) + size[ins[i]] <= off(j) \/ off(j) + size[ins[j]] <= off(i)
         /\ delta + size[r] <= size[whole]
         /\ Uncovered(p, k, r) = {} \/ Rescued(p, k, r)
         /\ \A i \in tiles : Claimable(p, whole, range(i).lo, range(i).hi)
      THEN [p EXCEPT !.view = ExtendView(@, r, whole, delta),
                     !.claims = @ \cup {range(i) : i \in tiles},
                     !.rescues = IF Uncovered(p, k, r) = {} THEN @
                                 ELSE @ \cup {[group |-> {m[1] : m \in Group(p, r)},
                                               others |-> {ins[j] : j \in DOMAIN ins \ tiles}]}]
      ELSE p

\* A concat, root by root in the order of their ids.
PlanConcat(p, k) ==
  LET ins   == nodes[k].ins
      whole == nodes[k].outs[1]
      roots == {PlaceOf(p, ins[i])[1] : i \in DOMAIN ins}
      movable(r) == r # whole /\ Internal(r) /\ Tiles(p, k, r) # {}
      after == FoldLeft(LAMBDA q, r : IF movable(r) THEN PlanRoot(q, k, r) ELSE q,
                        p, SetToSortSeq({r \in roots : r \in Tensors}, <))
      linked == {i \in DOMAIN ins : PlaceOf(after, ins[i]) = <<whole, OffsetIn(ins, i)>>}
  IN  IF linked = DOMAIN ins THEN [after EXCEPT !.elided = @ \cup {k}] ELSE after

PlanNode(p, k) ==
  CASE nodes[k].op = "pad"    -> PlanPad(p, k)
    [] nodes[k].op = "slice"  -> PlanSlice(p, k)
    [] nodes[k].op = "split"  -> PlanSplit(p, k)
    [] nodes[k].op = "concat" -> PlanConcat(p, k)
    [] OTHER                  -> p

Plan ==
  FoldLeft(PlanNode, [alias |-> Aliases, view |-> <<>>, claims |-> {}, elided |-> {}, fills |-> {}, rescues |-> {}],
           [k \in Pos |-> k])

-----------------------------------------------------------------------------
\* The pool: every internal tensor that is no view takes a slot for the span of its group.

Pooled(p) == {t \in Tensors : Internal(t) /\ p.alias[t] = t /\ t \notin DOMAIN p.view}
Touches(p, k, t) == \E u \in Ins(k) \cup Outs(k) : PlaceOf(p, u)[1] = t
FirstPos(p, t) == CHOOSE k \in Pos : Touches(p, k, t) /\ \A j \in Pos : Touches(p, j, t) => k <= j
LastPos(p, t)  == CHOOSE k \in Pos : Touches(p, k, t) /\ \A j \in Pos : Touches(p, j, t) => k >= j

\* MUTANT of Free: a slot is free at the position that last reads it.
FreeEarly(p, slots, t) == {s \in DOMAIN slots : slots[s].deadAt <= FirstPos(p, t)}

\* The slots whose tenants are all dead before t is first touched.
Free(p, slots, t) == {s \in DOMAIN slots : slots[s].deadAt < FirstPos(p, t)}

\* Best fit among the free slots, else a new one.  slots[s] = [cap, deadAt, tenants, viewable].
Allocate(p, slots, t) ==
  LET hosts == \E u \in DOMAIN p.view : Place(p.view, u)[1] = t
      fit   == {s \in Free(p, slots, t) : slots[s].cap >= size[t] /\ (hosts => slots[s].viewable)}
  IN  IF fit = {}
      THEN Append(slots, [cap |-> size[t], deadAt |-> LastPos(p, t), tenants |-> {t}, viewable |-> hosts])
      ELSE LET s == CHOOSE s \in fit : \A r \in fit : slots[s].cap <= slots[r].cap
           IN  [slots EXCEPT ![s].deadAt = LastPos(p, t), ![s].tenants = @ \cup {t}]

Slots(p) ==
  FoldLeft(LAMBDA slots, t : Allocate(p, slots, t), <<>>,
           SetToSortSeq(Pooled(p), LAMBDA a, b : \/ FirstPos(p, a) < FirstPos(p, b)
                                                 \/ FirstPos(p, a) = FirstPos(p, b) /\ a < b))

\* The buffer of a root, and the cells of a tensor in plan p with slots s.
Buffer(s, root) == IF \E i \in DOMAIN s : root \in s[i].tenants
                   THEN <<"slot", CHOOSE i \in DOMAIN s : root \in s[i].tenants>> ELSE <<"own", root>>
Cell(p, s, t, i) == <<Buffer(s, PlaceOf(p, t)[1]), PlaceOf(p, t)[2] + i>>
Cells(p, s, t)   == {Cell(p, s, t, i) : i \in 1 .. size[t]}

-----------------------------------------------------------------------------
\* What record() makes the GPU do: an op writes its outputs from its inputs; every other node is a
\* copy, unit by unit, and skips the units that are already in place.

\* Where unit i of output t of a copy node comes from: an input's unit, or the pad value.
From(k, t, i) ==
  LET n == nodes[k]
      j == CHOOSE x \in DOMAIN n.ins :
             OffsetIn(n.ins, x) < i /\ i <= OffsetIn(n.ins, x) + size[n.ins[x]]
  IN  CASE n.op = "reshape" -> <<n.ins[1], i>>
        [] n.op = "slice"   -> <<n.ins[1], n.at + i>>
        [] n.op = "split"   -> <<n.ins[1], OffsetIn(n.outs, CHOOSE x \in DOMAIN n.outs : n.outs[x] = t) + i>>
        [] n.op = "concat"  -> <<n.ins[j], i - OffsetIn(n.ins, j)>>
        [] n.op = "pad"     -> IF n.at < i /\ i <= n.at + size[n.ins[1]] THEN <<n.ins[1], i - n.at>> ELSE <<0, 0>>

Units(t) == {<<t, i>> : i \in 1 .. size[t]}
At(p, s, u) == Cell(p, s, u[1], u[2])

\* The units node k writes: all of an op's, and those of a copy that are not in place.
Moved(p, s, k) ==
  {u \in UNION {Units(t) : t \in Outs(k)} :
     \/ nodes[k].op = "op"
     \/ From(k, u[1], u[2])[1] = 0
     \/ At(p, s, From(k, u[1], u[2])) # At(p, s, u)}

\* The units node k reads.
ReadUnits(p, s, k) ==
  IF nodes[k].op = "op" THEN UNION {Units(t) : t \in Ins(k)}
  ELSE {From(k, u[1], u[2]) : u \in {v \in Moved(p, s, k) : From(k, v[1], v[2])[1] # 0}}

\* What unit u must hold: itself, or what it is a copy of.
Want ==
  LET add(w, k) == [u \in UNION {Units(t) : t \in Outs(k)} |->
                      IF nodes[k].op = "op" \/ From(k, u[1], u[2])[1] = 0 THEN <<"new", u>>
                      ELSE w[From(k, u[1], u[2])]] @@ w
  IN  FoldLeft(add, [u \in UNION {Units(t) : t \in Inputs} |-> <<"new", u>>], [k \in Pos |-> k])

\* Node k on memory m; torn collects the ops that read a unit that is not what it must be.
RunNode(p, s, want, st, k) ==
  LET moved == Moved(p, s, k)
      held(u) == IF nodes[k].op = "op" \/ From(k, u[1], u[2])[1] = 0 THEN want[u]
                 ELSE st.m[At(p, s, From(k, u[1], u[2]))]
      cells == {At(p, s, u) : u \in moved}
  IN  [m |-> [c \in cells |-> held(CHOOSE u \in moved : At(p, s, u) = c)] @@ st.m,
       torn |-> IF nodes[k].op = "op" /\ \E u \in ReadUnits(p, s, k) : st.m[At(p, s, u)] # want[u]
                THEN st.torn \cup {k} ELSE st.torn]

\* The memory before the run holds the inputs, and zero everywhere else.
Executed(p, s) ==
  LET want  == Want
      cells == UNION {Cells(p, s, t) : t \in Tensors}
      start == [u \in {At(p, s, v) : v \in UNION {Units(t) : t \in Inputs}} |->
                  <<"new", CHOOSE v \in UNION {Units(t) : t \in Inputs} : At(p, s, v) = u>>]
  IN  FoldLeft(LAMBDA st, k : RunNode(p, s, want, st, k),
               [m |-> start @@ [c \in cells |-> <<"zero">>], torn |-> {}], [k \in Pos |-> k])

\* Every op reads intact values, and every read-back tensor holds its value after the last node.
Exact(p) ==
  LET s == Slots(p)
      e == Executed(p, s)
      want == Want
  IN  /\ e.torn = {}
      /\ \A t \in readBack : \A u \in Units(t) : e.m[At(p, s, u)] = want[u]

\* A rescue the code's argument covers: no alias shares a buffer of the group, and each of the other
\* parts is produced in the segment and written by the node that produces it.
NoAliasIn(p, rescue)      == \A t \in Tensors : p.alias[t] # t => p.alias[t] \notin rescue.group
PartsProduced(p, rescue)  == \A t \in rescue.others : Producer(t) \in Pos
PartsWritten(p, rescue)   == \A t \in rescue.others : Producer(t) \in Pos => nodes[Producer(t)].op = "op"
Covered(p, rescue)        == NoAliasIn(p, rescue) /\ PartsProduced(p, rescue) /\ PartsWritten(p, rescue)

\* The boundary tensors a pad moved into its buffer, and where nothing else disturbs them: no tenant of
\* the slot comes before an input is read, or after what is read back was written, and no rescue counts
\* what is read back as dead.
Carried(p) == {t \in DOMAIN p.view : ~Internal(t)}
Undisturbed(p, s) ==
  \A t \in Carried(p) :
    LET root == PlaceOf(p, t)[1]
    IN  /\ \A i \in DOMAIN s : root \in s[i].tenants =>
             \A u \in s[i].tenants \ {root} :
               IF t \in Inputs THEN LastPos(p, root) < FirstPos(p, u) ELSE LastPos(p, u) < FirstPos(p, root)
        /\ t \in readBack => \A r \in p.rescues : t \notin r.group
Argued(p) == Undisturbed(p, Slots(p)) /\ \A r \in p.rescues : Covered(p, r)

-----------------------------------------------------------------------------
Produced == Tensors \ Inputs
Read     == UNION {Ins(k) : k \in Pos}

Add(op, ins, newSizes, at) ==
  /\ ~done /\ Len(nodes) < Len(shape.kinds) /\ op \in shape.kinds[Len(nodes) + 1]
  /\ size' = size \o newSizes
  /\ nodes' = Append(nodes, [op |-> op, ins |-> ins, at |-> at,
                             outs |-> [i \in DOMAIN newSizes |-> Len(size) + i]])
  /\ UNCHANGED <<shape, readBack, done>>

AddOp      == \E a, b \in Tensors, n \in 1 .. shape.maxSize :
                a <= b /\ (a = b \/ shape.maxReads = 2) /\ Add("op", IF a = b THEN <<a>> ELSE <<a, b>>, <<n>>, 0)
AddReshape == \E a \in Tensors : Add("reshape", <<a>>, <<size[a]>>, 0)
AddConcat  == \E a, b \in Tensors :
                size[a] + size[b] <= shape.maxSize /\ Add("concat", <<a, b>>, <<size[a] + size[b]>>, 0)
AddSplit   == \E a \in Tensors : \E n \in 1 .. size[a] - 1 : Add("split", <<a>>, <<n, size[a] - n>>, 0)
AddSlice   == \E a \in Tensors : \E n \in 1 .. size[a] - 1 : \E at \in 0 .. size[a] - n :
                Add("slice", <<a>>, <<n>>, at)
AddPad     == \E a \in Tensors : \E n \in size[a] + 1 .. shape.maxSize : \E at \in 0 .. n - size[a] :
                Add("pad", <<a>>, <<n>>, at)

\* MUTANT of Finish: what is read back need not be produced here.
FinishWithInputs ==
  /\ ~done /\ nodes # <<>>
  /\ \E more \in SUBSET Read : Cardinality(more) <= 1 /\ readBack' = (Produced \ Read) \cup more
  /\ done' = TRUE
  /\ UNCHANGED <<shape, nodes, size>>

\* readBack: produced here and read outside.  What nobody reads is, and at most one tensor more.
Finish ==
  /\ ~done /\ nodes # <<>>
  /\ \E more \in SUBSET (Produced \cap Read) :
       Cardinality(more) <= 1 /\ readBack' = (Produced \ Read) \cup more
  /\ done' = TRUE
  /\ UNCHANGED <<shape, nodes, size>>

Init == shape \in Shapes /\ nodes = <<>> /\ size = shape.inputs /\ readBack = {} /\ done = FALSE
Next == AddOp \/ AddReshape \/ AddConcat \/ AddSplit \/ AddSlice \/ AddPad \/ Finish
Spec == Init /\ [][Next]_vars

-----------------------------------------------------------------------------
\* Types of the segment under construction.
TypeOK ==
  /\ shape \in Shapes /\ size \in Seq(1 .. shape.maxSize) /\ readBack \subseteq Produced /\ done \in BOOLEAN
  /\ \A k \in Pos : /\ nodes[k].op \in shape.kinds[k] /\ nodes[k].at \in 0 .. shape.maxSize
                    /\ Ins(k) \cup Outs(k) \subseteq Tensors
                    /\ \A t \in Ins(k) : t \in Inputs \/ Producer(t) < k

\* "Bit-exact by construction" (vk_segment.cpp:440): wherever the planner put the tensors, the segment
\* computes what one buffer per tensor would, as long as every liveness rescue is one its argument covers
\* and nothing disturbs a boundary tensor that moved.
PlanIsExact == done => LET p == Plan IN Argued(p) => Exact(p)

\* The same where a pad of an alias moves a boundary tensor: "A tensor may hold a view only when its
\* buffer is [...] produced by a GPU node of THIS segment, and not host-read" (vk_segment.cpp:487-489)
\* is asked of the pad's data (535) but not of its alias root (603-613).
CarriedIsExact == done => LET p == Plan IN (\A r \in p.rescues : Covered(p, r)) => Exact(p)

\* The comment's own claim, "The re-root is still exact when every such member is fully read BEFORE the
\* earliest of those producers runs" (vk_segment.cpp:849), where a part may be an input of the segment,
\* where an alias may read a member, and where a part may be a view or a concat.
InputPartIsExact ==
  done => LET p == Plan IN (\A r \in p.rescues : NoAliasIn(p, r) /\ PartsWritten(p, r)) => Exact(p)
AliasedMemberIsExact ==
  done => LET p == Plan IN (\A r \in p.rescues : PartsProduced(p, r) /\ PartsWritten(p, r)) => Exact(p)
NestedPartIsExact ==
  done => LET p == Plan IN (\A r \in p.rescues : NoAliasIn(p, r) /\ PartsProduced(p, r)) => Exact(p)

\* No dispatch writes memory it reads: an invocation would see another's output (the pool's reuse
\* point is past the last reader, and a group never moves over what its own writer reads).
NoDispatchOverlaps ==
  done => LET p == Plan
              s == Slots(p)
          IN  (\A r \in p.rescues : Covered(p, r)) =>
                \A k \in Pos : {At(p, s, u) : u \in Moved(p, s, k)}
                                 \cap {At(p, s, u) : u \in ReadUnits(p, s, k)} = {}

\* record() leaves an elided node out of the hazard bookkeeping and a filling pad out of the compute
\* stage, so the first must really record nothing and the second nothing but the fill.
RoutingMatchesRecording ==
  done => LET p == Plan
              s == Slots(p)
          IN  /\ \A k \in p.elided : Moved(p, s, k) = {}
              /\ \A k \in p.fills : ReadUnits(p, s, k) = {}
=============================================================================
