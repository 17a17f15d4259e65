---------------------------- MODULE FusePointwise ----------------------------
(***************************************************************************)
(* fusePointwiseChains: connected per-element nodes of one shape become a  *)
(* unit, a straight-line program of steps over one entry stream, hosted by *)
(* the entry's producer or run as a node of its own.                       *)
(*                                                                         *)
(* Removed nodes stay in the list until the end of the pass: producer and  *)
(* reader indices are taken over the list with them in it, as in the code. *)
(***************************************************************************)
EXTENDS ImportGraph

CONSTANTS MaxSteps, MaxOperands, MaxRegs, MaxOuts \* kPwMax... of op_type.h

ASSUME BudgetsAssumption ==
  {MaxSteps, MaxOperands, MaxRegs, MaxOuts} \subseteq Nat \ {0}

\* The flags of op_descriptor.cpp, for the operators of the model.
PwMember == {"Relu", "Relu6", "Clip", "Sigmoid", "HardSigmoid", "Trunc", "Add", "Mul"}
PwEpilogue == DOMAIN ConvOps \union {"FusedDwPw", "Pool", "MatMul", "TiledMatMul", "Softmax", "Concat"}
FlatNode == {"MatMul", "TiledMatMul", "Softmax"}

\* integerValuesRule: the outputs that hold integers whatever the operands hold, the operands whose
\* integers reach an output, and the outputs they reach.
HoldsIntegers(nd) ==
  CASE nd.op \in {"CastInt", "CastNarrow", "ArgMax", "Shift"} -> Range(nd.outs)
    [] nd.op = "TopK" -> {nd.outs[2]}
    [] OTHER -> {}

PassesIntegers(nd) ==
  LET core == IF nd.steps = <<>> THEN nd.ins ELSE SubSeq(nd.ins, 1, nd.opbase)
  IN  CASE nd.op \in {"Identity", "Reshape", "Flatten", "Tile", "Split", "Gather", "TopK", "ConvertLayout",
                      "ConvertDtype", "Relu", "Clip", "Relu6"} -> {nd.ins[1]}
        [] nd.op = "Where" -> {nd.ins[2], nd.ins[3]}
        [] nd.op \in {"Add", "Sub", "Mul", "Concat"} -> Range(core)
        [] OTHER -> {}

\* Tensors holding integers: labelled so, or the result of such a rule.
IntegerTensors(g) ==
  FoldLeftDomain(
    LAMBDA s, i : LET nd == g.nodes[i]
                  IN  IF PassesIntegers(nd) \intersect s /= {} THEN s \union Range(nd.outs)
                      ELSE s \union HoldsIntegers(nd),
    {t \in TensorIds(g) : g.dtype[t] /= "f"}, g.nodes)

\* MUTANT of Eligible: the labels alone tell integers from floats.
EligibleByLabel(g, integer, i) ==
  LET nd == g.nodes[i]
  IN  /\ nd.op \in PwMember
      /\ Len(nd.outs) = 1
      /\ nd.outs[1] \notin g.pinned
      /\ \A t \in Range(nd.ins) \union {nd.outs[1]} : g.dtype[t] = "f"

\* pwEligibleNode.
Eligible(g, integer, i) ==
  LET nd == g.nodes[i]
  IN  /\ nd.op \in PwMember
      /\ Len(nd.outs) = 1
      /\ nd.outs[1] \notin g.pinned
      /\ \A t \in Range(nd.ins) \union {nd.outs[1]} : g.dtype[t] = "f" /\ t \notin integer

\* pwBcastClass: 0 the run shape, 1 one value per channel, 3 a scalar, 2 anything
\* else, which only the flat layout can address.
BcastClass(g, t, run) ==
  CASE g.shape[t] = run -> 0
    [] g.shape[t] = "scalar" -> 3
    [] g.shape[t] = "channel" -> 1
    [] OTHER -> 2

\* pwConcatPartsCanAlias, without the layout and extent tests: the parts come from
\* nodes, so the concat can become views and record nothing.
PartsCanAlias(g, nd) ==
  nd.op = "Concat" /\ \A t \in Range(nd.ins) : ~IsConst(g, t) /\ t \notin g.inputs

-----------------------------------------------------------------------------
(* Planning a unit.                                                        *)

Consumers(g, t) == Cardinality(InputReads(g, t)) + Cardinality(OutputReads(g, t))

MemberOf(g, members, t) ==
  LET p == Producer(g, t) IN IF p \in Range(members) THEN p ELSE 0

\* PwPlanner::entryCandidates, in member order, each tensor once.
EntryCandidates(g, members, run) ==
  LET reads == FoldLeftDomain(LAMBDA s, k : s \o g.nodes[members[k]].ins, <<>>, members)
      fits(t) == MemberOf(g, members, t) = 0 /\ ~IsConst(g, t) /\ g.shape[t] = run /\ t \notin g.pinned
  IN  FoldLeft(LAMBDA s, t : IF fits(t) /\ t \notin Range(s) THEN Append(s, t) ELSE s, <<>>, reads)

\* Reads of m's value inside the unit: pairs of a reader and an operand slot.
ReadsInUnit(g, members, m) ==
  {r \in InputReads(g, g.nodes[m].outs[1]) : r[1] \in Range(members)}

\* Broadcast operands a member needs beyond the one its step can carry.
Loads(g, members, entry, run, m) ==
  LET n == Cardinality({k \in DOMAIN g.nodes[m].ins :
             LET t == g.nodes[m].ins[k]
             IN  MemberOf(g, members, t) = 0 /\ t /= entry /\ BcastClass(g, t, run) /= 0})
  IN  IF n > 1 THEN n - 1 ELSE 0

\* A value that only the next member reads, and that member loads nothing, stays
\* in the accumulator; any other value read inside the unit takes a register,
\* from its member to its last reader.
NeedsRegister(g, members, entry, run, k) ==
  LET rd == ReadsInUnit(g, members, members[k])
  IN  /\ rd /= {}
      /\ ~(/\ Cardinality(rd) = 1
           /\ k < Len(members)
           /\ \A r \in rd : r[1] = members[k + 1]
           /\ Loads(g, members, entry, run, members[k + 1]) = 0)

LastReader(g, members, m) ==
  CHOOSE last \in {r[1] : r \in ReadsInUnit(g, members, m)} :
    \A r \in ReadsInUnit(g, members, m) : r[1] <= last

\* Registers by member, 0 for none; "ok" is lost when none is free.
Registers(g, members, entry, run) ==
  FoldLeftDomain(
    LAMBDA s, k :
      LET needs == NeedsRegister(g, members, entry, run, k)
          r     == CHOOSE x \in s.free : \A y \in s.free : x <= y
          of    == IF needs /\ s.free /= {} THEN [s.of EXCEPT ![members[k]] = r] ELSE s.of
          freed == {of[m] : m \in {x \in Range(members) : of[x] /= 0 /\ LastReader(g, members, x) = members[k]}}
      IN  [of |-> of, ok |-> s.ok /\ ~(needs /\ s.free = {}),
           free |-> (IF needs THEN s.free \ {of[members[k]]} ELSE s.free) \union freed],
    [of |-> [m \in Range(members) |-> 0], ok |-> TRUE, free |-> 1..MaxRegs], members)

Step(kind, code, src, dst) == [kind |-> kind, code |-> code, src |-> src, dst |-> dst]

NoUnit == [ok |-> FALSE, steps |-> <<>>, operands |-> <<>>, exports |-> <<>>, outSteps |-> <<>>,
           entry |-> 0, mainOut |-> 0, nc4Ok |-> FALSE]

\* Emission of one member: references of its operands, the loads of broadcast
\* operands after the first, its own step, and the activation fused onto it.  A full
\* unit is refused before a Mul is folded onto its last step.
EmitMember(g, members, entry, run, regs, strict, e, k) ==
  LET m   == members[k]
      nd  == g.nodes[m]
      val == nd.outs[1]
      ops == FoldLeft(LAMBDA s, t : IF MemberOf(g, members, t) = 0 /\ t /= entry /\ t \notin Range(s)
                                    THEN Append(s, t) ELSE s, e.operands, nd.ins)
      Internal(t) == MemberOf(g, members, t)
      Ref(t) == IF Internal(t) /= 0
                THEN IF regs[Internal(t)] /= 0 THEN <<"reg", regs[Internal(t)]>> ELSE <<"acc">>
                ELSE IF t = entry THEN <<"entry">>
                ELSE <<"op", CHOOSE o \in DOMAIN ops : ops[o] = t>>
      lost == \E t \in Range(nd.ins) : Internal(t) /= 0 /\ regs[Internal(t)] = 0 /\ e.acc /= t
      extern == {o \in DOMAIN nd.ins : Internal(nd.ins[o]) = 0 /\ nd.ins[o] /= entry}
      bcast == {o \in extern : BcastClass(g, nd.ins[o], run) /= 0}
      loaded == IF bcast = {} THEN {} ELSE {o \in bcast : \E q \in bcast : q < o}
      spare == Ascending((1..MaxRegs) \ Range(regs))
      slot  == Ascending(loaded)
      Scratch(o) == spare[CHOOSE q \in DOMAIN slot : slot[q] = o]
      src   == [o \in DOMAIN nd.ins |-> IF o \in loaded THEN <<"reg", Scratch(o)>> ELSE Ref(nd.ins[o])]
      loads == [q \in DOMAIN slot |-> Step("Load", "", <<Ref(nd.ins[slot[q]])>>, spare[q])]
      kind  == IF nd.op \in {"Add", "Mul"} THEN nd.op ELSE "Unary"
      prev  == e.steps[Len(e.steps)]
      swish == /\ ~strict /\ nd.op = "Mul" /\ nd.act = "None" /\ loads = <<>> /\ e.steps /= <<>>
               /\ prev.code = "Sigmoid" /\ prev.dst = 0 /\ e.acc /= 0 /\ Consumers(g, e.acc) = 1
               /\ src \in {<<prev.src[1], <<"acc">>>>, <<<<"acc">>, prev.src[1]>>}
      own   == Step(kind, nd.op, src, IF nd.act = "None" THEN regs[m] ELSE 0)
      act   == Step("Unary", nd.act, <<<<"acc">>>>, regs[m])
      steps == IF swish THEN Append(SubSeq(e.steps, 1, Len(e.steps) - 1), Step("Unary", "SiLU", prev.src, regs[m]))
               ELSE e.steps \o loads \o <<own>> \o (IF nd.act = "None" THEN <<>> ELSE <<act>>)
  IN  IF ~e.ok \/ lost \/ Len(slot) > Len(spare)
         \/ Len(e.steps) >= MaxSteps \/ Len(steps) > MaxSteps \/ \E o \in extern : nd.ins[o] \in g.pinned
      THEN [e EXCEPT !.ok = FALSE]
      ELSE [ok |-> TRUE, steps |-> steps, operands |-> ops, acc |-> val,
            stepOf |-> [e.stepOf EXCEPT ![m] = Len(steps)],
            class2 |-> e.class2 \/ \E o \in extern : BcastClass(g, nd.ins[o], run) = 2]

\* PwPlanner::plan.
Code(g, members, entry, run, regs, strict) ==
  FoldLeftDomain(LAMBDA e, k : EmitMember(g, members, entry, run, regs.of, strict, e, k),
                 [ok |-> regs.ok, steps |-> <<>>, operands |-> <<>>, acc |-> 0,
                  stepOf |-> [m \in Range(members) |-> 0], class2 |-> FALSE], members)

\* Members before the last whose value is also read outside the unit.
ReadOutside(g, members) ==
  SelectSeq(SubSeq(members, 1, Len(members) - 1),
            LAMBDA m : Consumers(g, g.nodes[m].outs[1]) > Cardinality(ReadsInUnit(g, members, m)))

UnitOf(g, members, entry, code, exported) ==
  IF ~code.ok \/ Len(code.operands) > MaxOperands \/ Len(exported) > MaxOuts THEN NoUnit
  ELSE [ok |-> TRUE, steps |-> code.steps, operands |-> code.operands, entry |-> entry,
        exports |-> [x \in DOMAIN exported |-> g.nodes[exported[x]].outs[1]],
        outSteps |-> [x \in DOMAIN exported |-> code.stepOf[exported[x]]],
        mainOut |-> g.nodes[members[Len(members)]].outs[1], nc4Ok |-> ~code.class2]

Plan(g, members, entry, run, strict) ==
  UnitOf(g, members, entry, Code(g, members, entry, run, Registers(g, members, entry, run), strict),
         ReadOutside(g, members))

-----------------------------------------------------------------------------
(* Which members, and where the unit runs.                                 *)

\* The undirected component of the seed: eligible nodes of one shape joined by a
\* tensor that is not pinned.  Readers are those of the graph the pass began with.
RECURSIVE Component(_, _, _, _)
Component(w, readers, run, comp) ==
  LET Joins(j) == j \notin w.visited \union w.removed \union comp /\ j \in w.eligible
                    /\ w.g.shape[w.g.nodes[j].outs[1]] = run
      up   == {Producer(w.g, t) : t \in UNION {Range(w.g.nodes[m].ins) : m \in comp} \ w.g.pinned} \ {0}
      down == UNION {readers[w.g.nodes[m].outs[1]] : m \in comp}
      new  == {j \in up \union down : Joins(j)}
  IN  IF new = {} THEN comp ELSE Component(w, readers, run, comp \union new)

\* MUTANT of Convex: every member stays.
WholeComponent(w, comp) == Ascending(comp)

\* Convexity, looked at inside the component's interval of the node list: what
\* depends on the region from outside taints, and a tainted member leaves.
Convex(w, comp) ==
  LET lo == CHOOSE m \in comp : \A x \in comp : m <= x
      hi == CHOOSE m \in comp : \A x \in comp : x <= m
      Visit(s, j) ==
        LET nd   == w.g.nodes[j]
            hit  == Range(nd.ins) \intersect s.tainted /= {}
            dep  == \E t \in Range(nd.ins) \ {0} : Producer(w.g, t) \in s.kept
        IN  IF j \in w.removed THEN s
            ELSE IF j \in s.kept
            THEN IF hit THEN [kept |-> s.kept \ {j}, tainted |-> s.tainted \union {nd.outs[1]}] ELSE s
            ELSE IF hit \/ dep THEN [s EXCEPT !.tainted = @ \union Range(nd.outs)] ELSE s
      end  == FoldLeft(LAMBDA s, j : Visit(s, j), [kept |-> comp, tainted |-> {}],
                       [k \in 1..(hi - lo + 1) |-> lo + k - 1])
  IN  Ascending(end.kept)

\* An entry that is read outside the unit, or is a graph output, is exported.
EntryExported(g, u, members) ==
  Consumers(g, u.entry) > Cardinality({r \in InputReads(g, u.entry) : r[1] \in Range(members)})

\* canHostUnit.
CanHost(w, u, members) ==
  LET p == Producer(w.g, u.entry)
      P == w.g.nodes[p]
  IN  /\ p /= 0 /\ p \notin w.removed
      /\ P.op \in PwEpilogue /\ P.steps = <<>> /\ P.outs = <<u.entry>>
      /\ ~PartsCanAlias(w.g, P)
      /\ P.op /= "TiledMatMul"
      /\ \A o \in Range(u.operands) : IsConst(w.g, o) \/ Producer(w.g, o) < p
      /\ P.op \in FlatNode \/ u.nc4Ok
      /\ EntryExported(w.g, u, members) => Len(u.exports) < MaxOuts

\* The largest prefix some entry can be planned for; of its plans the first that
\* can be hosted, else the first.
Plans(g, members, run, strict, entries) ==
  SelectSeq([k \in DOMAIN entries |-> Plan(g, members, entries[k], run, strict)], LAMBDA u : u.ok)

Choice(w, members, plans) ==
  LET Prefix(c) == SubSeq(members, 1, c)
      cuts   == {c \in DOMAIN members : plans[c] /= <<>>}
      cut    == CHOOSE c \in cuts : \A d \in cuts : d <= c
      hosted == SelectSeq(plans[cut], LAMBDA u : CanHost(w, u, Prefix(cut)))
  IN  IF cuts = {} THEN [unit |-> NoUnit, members |-> <<>>, host |-> 0]
      ELSE IF hosted /= <<>>
      THEN [unit |-> hosted[1], members |-> Prefix(cut), host |-> Producer(w.g, hosted[1].entry)]
      ELSE [unit |-> plans[cut][1], members |-> Prefix(cut), host |-> 0]

-----------------------------------------------------------------------------
(* Emission.                                                               *)

Fused(w, g, members) == [w EXCEPT !.g = g, !.removed = @ \union Range(members)]

\* A lone vector added to a matrix product becomes its bias, in the fast mode only.
BiasFits(w, c, strict) ==
  LET p == Producer(w.g, c.unit.entry)
  IN  /\ ~strict
      /\ Len(c.members) = 1 /\ c.unit.exports = <<>>
      /\ Len(c.unit.operands) = 1 /\ Len(c.unit.steps) = 1
      /\ c.unit.steps[1].code = "Add"
      /\ {<<"entry">>, <<"op", 1>>} = Range(c.unit.steps[1].src)
      /\ p /= 0 /\ p \notin w.removed
      /\ IsConst(w.g, c.unit.operands[1]) /\ w.g.shape[c.unit.operands[1]] = "vector"
      /\ w.g.nodes[p].op \in {"MatMul", "TiledMatMul"} /\ w.g.nodes[p].bias = 0
      /\ w.g.nodes[p].steps = <<>> /\ w.g.nodes[p].outs = <<c.unit.entry>>
      /\ Consumers(w.g, c.unit.entry) = 1

FoldBias(w, c) ==
  LET p == Producer(w.g, c.unit.entry)
  IN  Fused(w, [w.g EXCEPT !.nodes[p] =
                  [@ EXCEPT !.bias = c.unit.operands[1], !.ins = Append(@, c.unit.operands[1]),
                            !.outs = <<c.unit.mainOut>>]], c.members)

\* A lone activation after a convolution uses the kernel's own epilogue.
InlineFits(w, c) ==
  /\ Len(c.members) = 1 /\ c.unit.operands = <<>> /\ c.unit.exports = <<>>
  /\ ~EntryExported(w.g, c.unit, c.members)
  /\ w.g.nodes[c.host].op \in DOMAIN ConvOps /\ w.g.nodes[c.host].act = "None"
  /\ w.g.nodes[c.members[1]].op \in {"Relu", "Relu6", "Clip"}

InlineAct(w, c) ==
  Fused(w, [w.g EXCEPT !.nodes[c.host] =
              [@ EXCEPT !.act = w.g.nodes[c.members[1]].op, !.outs = <<c.unit.mainOut>>]], c.members)

\* References to operands count from the node's own inputs.
Relocate(steps, base) ==
  [s \in DOMAIN steps |-> [steps[s] EXCEPT !.src =
     [k \in DOMAIN @ |-> IF @[k][1] = "op" THEN <<"op", base + @[k][2]>> ELSE @[k]]]]

\* The host stores the unit's result in place of its own.
Attach(w, c) ==
  LET P    == w.g.nodes[c.host]
      base == Len(P.ins)
      self == EntryExported(w.g, c.unit, c.members)
  IN  Fused(w, [w.g EXCEPT !.nodes[c.host] =
        [P EXCEPT !.ins = @ \o c.unit.operands, !.opbase = base, !.steps = Relocate(c.unit.steps, base),
                  !.outs = <<c.unit.mainOut>> \o c.unit.exports \o (IF self THEN <<c.unit.entry>> ELSE <<>>),
                  !.pwOuts = c.unit.outSteps \o (IF self THEN <<0>> ELSE <<>>)]], c.members)

\* A node of its own, in the slot of the last member.
Standalone(w, c) ==
  LET anchor == c.members[Len(c.members)]
      fn == [MkNode("FusedPointwise", <<c.unit.entry>> \o c.unit.operands, <<c.unit.mainOut>> \o c.unit.exports)
               EXCEPT !.opbase = 1, !.steps = Relocate(c.unit.steps, 1), !.pwOuts = c.unit.outSteps]
  IN  [Fused(w, [w.g EXCEPT !.nodes[anchor] = fn], SubSeq(c.members, 1, Len(c.members) - 1))
         EXCEPT !.visited = @ \union {anchor}]

Emit(w, seed, c, strict) ==
  IF ~c.unit.ok THEN [w EXCEPT !.visited = @ \union {seed}]
  ELSE IF BiasFits(w, c, strict) THEN FoldBias(w, c)
  ELSE IF c.host /= 0 /\ InlineFits(w, c) THEN InlineAct(w, c)
  ELSE IF c.host /= 0 THEN Attach(w, c)
  ELSE IF Len(c.members) < 2 THEN [w EXCEPT !.visited = @ \union {c.members[1]}]
  ELSE Standalone(w, c)

Region(w, seed, members, run, strict) ==
  IF members = <<>> THEN w
  ELSE LET plans == [c \in DOMAIN members |->
                       Plans(w.g, SubSeq(members, 1, c), run, strict,
                             EntryCandidates(w.g, SubSeq(members, 1, c), run))]
       IN  Emit(w, seed, Choice(w, members, plans), strict)

Seed(w, readers, strict, seed) ==
  LET run == w.g.shape[w.g.nodes[seed].outs[1]]
  IN  IF seed \in w.visited \union w.removed \/ seed \notin w.eligible THEN w
      ELSE Region(w, seed, Convex(w, Component(w, readers, run, {seed})), run, strict)

fusePointwiseChains(g, strict) ==
  LET integer == IntegerTensors(g)
      readers == [t \in TensorIds(g) |-> {r[1] : r \in InputReads(g, t)}]
      end == FoldLeftDomain(LAMBDA w, i : Seed(w, readers, strict, i),
               [g |-> g, removed |-> {}, visited |-> {},
                eligible |-> {i \in DOMAIN g.nodes : Eligible(g, integer, i)}], g.nodes)
  IN  DropNodes(end.g, end.removed)
==============================================================================
