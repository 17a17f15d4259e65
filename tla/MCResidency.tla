----------------------------- MODULE MCResidency -----------------------------
(***************************************************************************)
(* Residency for TLC: planned graphs, and sessions over them.              *)
(***************************************************************************)
EXTENDS Residency, TLC

CONSTANTS x, cache, present, h, g, y, wx, wcache, wy, v0, v1, v2

Node(dev, ins, outs) == [of |-> 1, dev |-> dev, ins |-> ins, residual |-> {}, outs |-> outs]
Second(nodes) == [n \in DOMAIN nodes |-> [nodes[n] EXCEPT !.of = 2]]

\* A decoder whose middle falls back to the CPU; x is read by both GPU segments.
Island == << Node("gpu", {x}, {present}), Node("gpu", {x, cache}, {h}),
             Node("cpu", {h}, {g}), Node("gpu", {g, x}, {y}) >>
\* A decoder whose tail falls back to the CPU.
CpuTail == << Node("gpu", {x}, {present}), Node("gpu", {x, cache}, {h}), Node("cpu", {h}, {y}) >>
\* The same decoder on the CPU backend.
AllCpu == << Node("cpu", {x}, {present}), Node("cpu", {x, cache}, {y}) >>
\* A decoder of one segment, with a window of tokens and with one.
Windows == << Node("gpu", {wx, wcache}, {wy}) >>
Steps   == << Node("gpu", {x, cache}, {y}) >>
\* A residual read two segments after the one that produces it.
Residual == << Node("gpu", {x}, {h}), Node("gpu", {h}, {g}), Node("cpu", {g}, {present}),
               [Node("gpu", {present}, {y}) EXCEPT !.residual = {h}] >>
\* A graph output that a CPU node also reads.
Shared == << Node("gpu", {x}, {y}), Node("cpu", {y}, {present}) >>

In(of, name, shape) == [of |-> of, name |-> name, shape |-> shape]
Both == (x :> In(1, "x", "one")) @@ (cache :> In(1, "cache", "all"))
Wide == (wx :> In(2, "x", "window")) @@ (wcache :> In(2, "cache", "all"))
Out(of, name) == [of |-> of, name |-> name]
Outs == (present :> Out(1, "present")) @@ (y :> Out(1, "y"))

\* A session on the GPU that links, reduces and shares nothing.
Plain(nodes) ==
  [nodes |-> nodes, inputs |-> Both, outputs |-> Outs, ready |-> <<1>>,
   onGpu |-> \E n \in DOMAIN nodes : nodes[n].dev = "gpu", links |-> {}, slots |-> {1},
   flat |-> DOMAIN Outs, fp16 |-> {}, other |-> {}, argMaxable |-> {}, fds |-> {}, rows |-> {}, lateLinks |-> TRUE,
   throws |-> 0]

Linked(nodes) == [Plain(nodes) EXCEPT !.links = {<<present, cache>>}]
Bucketed == [Plain(Steps \o Second(Windows)) EXCEPT !.inputs = Both @@ Wide,
               !.outputs = (y :> Out(1, "y")) @@ (wy :> Out(2, "y")), !.flat = {y, wy},
               !.lateLinks = FALSE]

\* The caller shares x or y, reduces y, and tries a link the plan cannot keep on the device.
IslandPlan == [Plain(Island) EXCEPT !.links = {<<y, x>>}, !.fp16 = {y}, !.argMaxable = {y}, !.fds = {x},
               !.throws = 1]
SharesOutPlan == [IslandPlan EXCEPT !.fds = {y}, !.lateLinks = FALSE]
\* The linked cache is shared, or a run throws.
LinkPlan == [Linked(CpuTail) EXCEPT !.fds = {cache}]
ThrowPlan == [Linked(CpuTail) EXCEPT !.lateLinks = FALSE, !.throws = 1]
\* The copies move between two ranges, or a run throws.
CpuPlan == [Linked(AllCpu) EXCEPT !.slots = {1, 2}, !.argMaxable = {y}, !.lateLinks = FALSE]
CpuThrowPlan == [CpuPlan EXCEPT !.slots = {1}, !.throws = 1]
\* A decode step and a prefill window in one session: the step reduces its logits, the window
\* reads one row of them.
BucketPlan == [Bucketed EXCEPT !.argMaxable = {y}, !.rows = {wy}]
\* A decoder whose cache keeps what the step makes, and another network with an input of the same name.
FoldPlan == [Bucketed EXCEPT
  !.nodes = << Node("gpu", {x}, {present}), Node("gpu", {x, cache}, {y}) >> \o Second(<< Node("gpu", {wx}, {wy}) >>),
  !.inputs = Both @@ (wx :> In(2, "x", "window")),
  !.outputs = Outs @@ (wy :> Out(2, "y")), !.flat = {}, !.links = {<<present, cache>>}]

SessionPlans == <<IslandPlan, SharesOutPlan, LinkPlan, ThrowPlan, CpuPlan, CpuThrowPlan, BucketPlan, FoldPlan>>

ASSUME SessionPlansSupported == \A p \in Range(SessionPlans) : Supported(p)

\* One plan for each contract the code does not keep (README, section 6).
SharedPlan   == <<[Plain(Shared) EXCEPT !.flat = {y}, !.argMaxable = {y}]>>
ResidualPlan == <<[Plain(Residual) EXCEPT !.flat = {y}, !.inputs = (x :> In(1, "x", "one")), !.outputs = (y :> Out(1, "y"))]>>
CpuFdPlan    == <<[Plain(AllCpu) EXCEPT !.fds = {x, y}]>>
FailedPlan   == <<[Linked(Island) EXCEPT !.lateLinks = FALSE, !.throws = 1]>>
HostPlan     == <<[Plain(Island) EXCEPT !.other = {y}, !.fds = {x, y}]>>
LateLinkPlan == <<Linked(AllCpu)>>
RefusedPlan  == <<[Linked(AllCpu) EXCEPT !.fds = {cache}, !.lateLinks = FALSE]>>
TwoNamesPlan == <<[Bucketed EXCEPT !.argMaxable = {y, wy}, !.outputs = (y :> Out(1, "y")) @@ (wy :> Out(2, "y"))]>>
RowFdPlan    == <<[Bucketed EXCEPT !.rows = {y}, !.fds = {y}]>>
LinkedMaxPlan == <<[Linked(CpuTail) EXCEPT !.flat = {y}, !.argMaxable = {present}]>>

InputValues  == [i \in {x, wx, cache, wcache} |-> IF i = x THEN {v1, v2} ELSE IF i = wx THEN {v1} ELSE {v0}]

Symmetry == Permutations({v1, v2})
=============================================================================
