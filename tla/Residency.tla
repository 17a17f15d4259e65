------------------------------ MODULE Residency ------------------------------
(***************************************************************************)
(* Where a session's tensors live while its segments run: the host and     *)
(* device copies of RtTensor with their validity flags, the buffers each   *)
(* Vulkan segment owns, resident links, device argmaxes, row selections    *)
(* and zero-copy bindings (core/session.cpp, the boundary parts of         *)
(* vk_segment.cpp, the CPU segment).                                       *)
(*                                                                         *)
(* A session has a plan bucket for each set of input shapes it was         *)
(* prepared for, with tensors of its own; the shapes a run binds select    *)
(* the bucket.  Callers know tensors by name, and the names recur.         *)
(*                                                                         *)
(* A tensor's value is a term: what a caller bound, or the node output     *)
(* computed from the values the node read.  A linked input is an array of  *)
(* slots, and a link's ranges are the one slot the source is copied into.  *)
(*                                                                         *)
(* History variables: want and made, what the inputs hold and what the     *)
(* last completed run produced by the contract of session_class.h; sure,   *)
(* the buckets but those with a failed run, until all their linked state   *)
(* is bound again; completed, whether the last run was; ran, the argmaxes  *)
(* it reduced; thrown, how many runs threw.                                *)
(***************************************************************************)
EXTENDS Integers, FiniteSets, SequencesExt

CONSTANTS
  Plans,         \* the planned sessions to try, a sequence of records of the fields below
  Values,        \* what a caller may bind to each input
  None           \* nothing, and the zero of a buffer

VARIABLES
  plan,          \* which of them the session has, fixed when it is created
  segs           \* its segments

Nodes      == Plans[plan].nodes   \* the planned nodes, bucket by bucket: [of, dev, ins, residual, outs], a bucket,
                           \* a backend, and sets of tensors
InputDesc  == Plans[plan].inputs  \* each graph input's [of, name, shape]
OutputDesc == Plans[plan].outputs \* each graph output's [of, name]
Ready      == Plans[plan].ready   \* the buckets the session is created with
OnGpu      == Plans[plan].onGpu   \* Config::backend is not the CPU
Links      == Plans[plan].links   \* <<output, input>> pairs the caller may link
Slots      == Plans[plan].slots   \* the slots of a linked input
Flat       == Plans[plan].flat    \* outputs that are flat on the device
Fp16       == Plans[plan].fp16    \* outputs declared fp16
Other      == Plans[plan].other   \* outputs declared neither fp16 nor the internal storage
ArgMaxable == Plans[plan].argMaxable \* outputs the caller may register for an argmax
FdTensors  == Plans[plan].fds     \* inputs and outputs the caller may bind to a dma-buf
MaxThrows  == Plans[plan].throws  \* how many runs may throw
RowSets    == Plans[plan].rows    \* outputs the caller may read one row of
LateLinks  == Plans[plan].lateLinks  \* the caller may link an output that a run has already produced

ASSUME ResidencyAssumption ==
  \A p \in Range(Plans) :
    LET ReadBy(n)   == p.nodes[n].ins \cup p.nodes[n].residual
        Bucket(b)   == {i \in DOMAIN p.inputs : p.inputs[i].of = b}
        Name(i)     == p.inputs[i].name
        Named(b)    == {Name(i) : i \in Bucket(b)}
        Buckets     == {p.inputs[i].of : i \in DOMAIN p.inputs}
    IN  /\ DOMAIN p.inputs \cap DOMAIN p.outputs = {}
        /\ p.ready \in Seq(Buckets) /\ p.ready # <<>> /\ IsInjective(p.ready)
        /\ Len(p.nodes) \in Nat /\ DOMAIN p.nodes = 1 .. Len(p.nodes) /\ p.throws \in Nat
        \* The plan goes through the buckets in order, each node behind those it reads from.
        /\ \A n \in DOMAIN p.nodes :
             /\ p.nodes[n].dev \in {"cpu", "gpu"} /\ (p.nodes[n].dev = "gpu" => p.onGpu)
             /\ p.nodes[n].of \in Int
             /\ \A m \in 1 .. n : p.nodes[m].of <= p.nodes[n].of
             /\ p.nodes[n].outs \cap DOMAIN p.inputs = {}
             /\ \A m \in 1 .. n - 1 : p.nodes[m].outs \cap p.nodes[n].outs = {}
             /\ ReadBy(n) \subseteq Bucket(p.nodes[n].of)
                  \cup UNION {p.nodes[m].outs : m \in {k \in 1 .. n - 1 : p.nodes[k].of = p.nodes[n].of}}
        /\ \A o \in DOMAIN p.outputs :
             \E n \in DOMAIN p.nodes : o \in p.nodes[n].outs /\ p.nodes[n].of = p.outputs[o].of
        /\ \A b \in Buckets : \E n \in DOMAIN p.nodes : p.nodes[n].of = b
        \* An input has a name of its own in its bucket, and no two buckets have one shape key.
        /\ \A i, j \in DOMAIN p.inputs : p.inputs[i].of = p.inputs[j].of /\ Name(i) = Name(j) => i = j
        /\ \A b, c \in Buckets :
             b # c /\ Named(b) = Named(c)
               => \E i \in Bucket(b), j \in Bucket(c) : Name(i) = Name(j) /\ p.inputs[i].shape # p.inputs[j].shape
        /\ \A l \in p.links :
             l[1] \in DOMAIN p.outputs /\ l[2] \in DOMAIN p.inputs /\ p.outputs[l[1]].of = p.inputs[l[2]].of
        /\ p.flat \cup p.fp16 \cup p.other \cup p.argMaxable \cup p.rows \subseteq DOMAIN p.outputs

-----------------------------------------------------------------------------
\* The partition: one segment per run of nodes on one backend, and its boundary sets.

GraphInputs  == DOMAIN InputDesc
GraphOutputs == DOMAIN OutputDesc
InputsOf(b)  == {i \in GraphInputs : InputDesc[i].of = b}
OutputsOf(b) == {o \in GraphOutputs : OutputDesc[o].of = b}
OfLink(l)    == InputDesc[l[2]].of
AllBuckets   == {InputDesc[i].of : i \in GraphInputs}

Reads(n) == Nodes[n].ins \cup Nodes[n].residual
Tensors  == GraphInputs \cup UNION {Nodes[n].outs : n \in DOMAIN Nodes}

\* The segments of a plan, in order.
Partition(p) ==
  LET nodes  == p.nodes
      Cut(k) == k = 1 \/ nodes[k].dev # nodes[k - 1].dev \/ nodes[k].of # nodes[k - 1].of
      Of(s)  == {n \in DOMAIN nodes : Cardinality({k \in 1 .. n : Cut(k)}) = s}
      Written(N) == UNION {nodes[n].outs : n \in N}
  IN  [s \in 1 .. Cardinality({k \in DOMAIN nodes : Cut(k)}) |->
         [nodes |-> Of(s),
          of    |-> nodes[Min(Of(s))].of,
          dev   |-> nodes[Min(Of(s))].dev,
          ins   |-> (UNION {nodes[n].ins \cup nodes[n].residual : n \in Of(s)}) \ Written(Of(s)),
          outs  |-> {o \in Written(Of(s)) :
                       o \in DOMAIN p.outputs \/ \E n \in DOMAIN nodes \ Of(s) : o \in nodes[n].ins}]]

Segs        == DOMAIN segs
SegsOf(b)   == {s \in Segs : segs[s].of = b}
Nobody      == 0          \* a tensor with no device copy
TheFd       == -1         \* its device copy is the caller's dma-buf
NodesOf(s)  == segs[s].nodes
Dev(s)      == segs[s].dev

BoundaryIns(s)  == segs[s].ins
BoundaryOuts(s) == segs[s].outs

\* The values after nodes first .. last have run on env.
Eval(first, last, env) ==
  LET after[k \in first - 1 .. last] ==
        IF k = first - 1 THEN env
        ELSE [t \in Tensors |-> IF t \in Nodes[k].outs
                                THEN <<t, [i \in Reads(k) |-> after[k - 1][i]]>>
                                ELSE after[k - 1][t]]
  IN  after[last]
FirstOf(s) == Min(NodesOf(s))
LastOf(s)  == Max(NodesOf(s))

\* MUTANT of LinkOwners: a reader outside the owning segment is let through.
LinkOwnersLax(l) ==
  {s \in Segs : Dev(s) = "gpu" /\ l[1] \in BoundaryOuts(s) /\ l[2] \in BoundaryIns(s)}

\* The Vulkan segment that can keep a link on the device, if any.
LinkOwners(l) ==
  {s \in Segs : /\ Dev(s) = "gpu" /\ l[1] \in BoundaryOuts(s) /\ l[2] \in BoundaryIns(s)
                /\ \A n \in DOMAIN Nodes \ NodesOf(s) : Reads(n) \cap {l[1], l[2]} = {}}

LinkInputs == {l[2] : l \in Links}
Zero(t)    == IF t \in LinkInputs THEN [k \in Slots |-> None] ELSE None
Given(t, v) == IF t \in LinkInputs THEN [k \in Slots |-> <<t, v>>] ELSE <<t, v>>
\* What a CPU operator makes of bytes that are not the fp32 or int64 it reads them as.
Garbage == <<"garbage">>

VARIABLES
  rt,              \* RtTensor: host, form, hostValid, owner, deviceValid, fd
  buf,             \* the pooled boundary buffers of each segment
  fdMem,           \* the dma-buf the caller binds to each tensor
  buckets,         \* buckets_
  linked, slot,    \* links_, and each link's range
  argMax, argRes,  \* argMaxOutputs_, and the device result buffers
  rows,            \* rowSelectOutputs_
  phase, at, seg,  \* where the run is: its bucket and segment
  result,          \* what the last completed run returned
  want, made, sure, completed, ran, thrown

sessionVs == <<buckets, linked, slot, argMax, rows>>
history   == <<want, made, sure, completed, ran, thrown>>
planVs == <<plan, segs>>
vars == <<planVs, rt, buf, fdMem, sessionVs, argRes, phase, at, seg, result, history>>

FreshRt == [host |-> None, form |-> "f32", hostValid |-> FALSE, owner |-> Nobody,
            deviceValid |-> FALSE, fd |-> FALSE]

Init ==
  /\ plan \in DOMAIN Plans /\ segs = Partition(Plans[plan])
  /\ rt = [t \in Tensors |-> FreshRt]
  /\ buf = [s \in Segs |-> [t \in Tensors |-> Zero(t)]]
  /\ fdMem = [t \in Tensors |-> None]
  /\ buckets = Ready
  /\ linked = {} /\ slot = [l \in Links |-> None]
  /\ argMax = <<>> /\ argRes = [o \in ArgMaxable |-> None]
  /\ rows = {}
  /\ phase = "idle" /\ at = buckets[1] /\ seg = 1
  /\ result = [o \in GraphOutputs |-> None]
  /\ want = [i \in GraphInputs |-> None] /\ made = [o \in GraphOutputs |-> None]
  /\ sure = AllBuckets /\ completed = FALSE /\ ran = {} /\ thrown = 0

LinkedIns  == {l[2] : l \in linked}
LinkedOuts == {l[1] : l \in linked}
Reduced    == Range(argMax)

-----------------------------------------------------------------------------
\* The setters, between runs.

\* linkOutputToInput of a new pair; the input holds zeros if nothing was ever bound to it (what a
\* refused run or a dma-buf left there the contract does not say).
Link(l, k) ==
  /\ phase = "idle" /\ l \notin linked /\ OfLink(l) \in Range(buckets)
  /\ \A m \in linked : m[2] # l[2]
  /\ OnGpu => LinkOwners(l) # {}
  /\ LateLinks \/ made[l[1]] = None
  /\ linked' = linked \cup {l}
  /\ slot' = [slot EXCEPT ![l] = k]
  /\ want' = [want EXCEPT ![l[2]] = IF @ = None THEN Zero(l[2]) ELSE @]
  /\ sure' = IF want[l[2]] # None \/ rt[l[2]] = FreshRt THEN sure ELSE sure \ {OfLink(l)}
  /\ UNCHANGED <<planVs, rt, buf, fdMem, buckets, argMax, rows, argRes, phase, at, seg, result, made, completed, ran, thrown>>

\* linkOutputToInput of a linked pair replaces its ranges.
SetRanges(l, k) ==
  /\ phase = "idle" /\ l \in linked /\ k # slot[l]
  /\ slot' = [slot EXCEPT ![l] = k]
  /\ UNCHANGED <<planVs, rt, buf, fdMem, buckets, linked, argMax, rows, argRes, phase, at, seg, result, history>>

\* The inputs keep their values; one whose value is in doubt, or may be none yet, is bound again.
ClearLinks ==
  /\ phase = "idle" /\ linked # {}
  /\ linked' = {}
  /\ want' = [i \in GraphInputs |-> IF want[i] = Zero(i) \/ (i \in LinkedIns /\ InputDesc[i].of \notin sure)
                                    THEN None ELSE want[i]]
  /\ UNCHANGED <<planVs, rt, buf, fdMem, buckets, slot, argMax, rows, argRes, phase, at, seg, result, made, sure,
                 completed, ran, thrown>>

\* setOutputArgMax: on the device when the output is flat there, else on the host copy.
FlatBoundary(o) == OnGpu /\ o \in Flat /\ \E s \in Segs : o \in BoundaryOuts(s) /\ Dev(s) = "gpu"
DeviceArgMax(o) == FlatBoundary(o)
SetOutputArgMax(o) ==
  /\ phase = "idle" /\ o \notin Reduced /\ OutputDesc[o].of \in Range(buckets)
  /\ argMax' = Append(argMax, o)
  /\ UNCHANGED <<planVs, rt, buf, fdMem, buckets, linked, slot, rows, argRes, phase, at, seg, result, history>>

\* setOutputRow: only an output that is flat on the device has a row to read; a negative row clears.
SetOutputRow(o) ==
  /\ phase = "idle" /\ OutputDesc[o].of \in Range(buckets) /\ FlatBoundary(o)
  /\ rows' = IF o \in rows THEN rows \ {o} ELSE rows \cup {o}
  /\ UNCHANGED <<planVs, rt, buf, fdMem, buckets, linked, slot, argMax, argRes, phase, at, seg, result, history>>

\* prepareShapes: one more bucket; a key that is there already changes nothing.
PrepareShapes(b) ==
  /\ phase = "idle" /\ b \notin Range(buckets)
  /\ buckets' = Append(buckets, b)
  /\ UNCHANGED <<planVs, rt, buf, fdMem, linked, slot, argMax, rows, argRes, phase, at, seg, result, history>>

-----------------------------------------------------------------------------
\* run(): bind the inputs and outputs, apply the links.

NamesOf(b)  == {InputDesc[i].name : i \in InputsOf(b)}
Input(b, n) == CHOOSE i \in InputsOf(b) : InputDesc[i].name = n
ShapeOf(b, n) == InputDesc[Input(b, n)].shape

\* shapeKey, and the key of a run that binds the names in bound with the shapes they have in bucket c:
\* an unbound input adopts the shape it has in bucket b.
shapeKey(b) == [n \in NamesOf(b) |-> ShapeOf(b, n)]
runShapeKey(b, c, bound) == [n \in NamesOf(b) |-> ShapeOf(IF n \in bound THEN c ELSE b, n)]
bucketsShareInputNames == \A b \in Range(buckets) : NamesOf(b) = NamesOf(buckets[1])

\* MUTANT of Matches: the shapes of what is bound are not compared.
MatchesByName(c, bound) == {k \in DOMAIN buckets : bound \subseteq NamesOf(buckets[k])}

\* The buckets a run may go to.
Matches(c, bound) ==
  IF bucketsShareInputNames
  THEN {k \in DOMAIN buckets : shapeKey(buckets[k]) = runShapeKey(buckets[1], c, bound)}
  ELSE {k \in DOMAIN buckets : bound \subseteq NamesOf(buckets[k]) /\ bound # {}
                                /\ shapeKey(buckets[k]) = runShapeKey(buckets[k], c, bound)}

\* The bucket run() selects, 0 when it refuses.
Selected(c, bound) ==
  IF Len(buckets) = 1 THEN buckets[1]
  ELSE IF Matches(c, bound) = {} THEN 0 ELSE buckets[Min(Matches(c, bound))]

\* A run means bucket c when what it leaves unbound tells c from no other bucket.
NamesIn(bound) == {InputDesc[i].name : i \in bound}
Differs(c, d, names) == \E n \in names : n \in NamesOf(d) => ShapeOf(c, n) # ShapeOf(d, n)
Means(c, names) ==
  IF Len(buckets) = 1 THEN TRUE
  ELSE IF bucketsShareInputNames
  THEN \A n \in NamesOf(c) \ names : ShapeOf(c, n) = ShapeOf(buckets[1], n)
  ELSE \A d \in Range(buckets) \ {c} : Differs(c, d, names)

\* Bytes or a dma-buf for each bound input.
Entries(bound) ==
  {b \in [bound -> {"host", "fd"} \X UNION {Values[i] : i \in bound}] :
     \A i \in bound : b[i][2] \in Values[i] /\ (b[i][1] = "host" \/ i \in FdTensors)}

\* The same entries for the inputs of bucket d.
For(d, b) == [i \in {j \in InputsOf(d) : InputDesc[j].name \in NamesIn(DOMAIN b)} |->
                b[CHOOSE j \in DOMAIN b : InputDesc[j].name = InputDesc[i].name]]

HostBound(b) == {i \in DOMAIN b : b[i][1] = "host"}
FdBound(b)   == {i \in DOMAIN b : b[i][1] = "fd"}

BindHost(r, i, v) ==
  [r EXCEPT !.host = Given(i, v), !.form = "f32", !.hostValid = TRUE, !.deviceValid = FALSE]

\* rt after the inputs of bucket d are bound as b says; every input's earlier descriptor is dropped.
Bound(d, b) ==
  [t \in Tensors |->
     LET r == IF t \in InputsOf(d) THEN [rt[t] EXCEPT !.fd = FALSE] ELSE rt[t]
     IN  IF t \in HostBound(b) THEN BindHost(r, t, b[t][2])
         ELSE IF t \in FdBound(b)
         THEN [r EXCEPT !.hostValid = FALSE, !.deviceValid = FALSE, !.fd = TRUE]
         ELSE r]

BoundAll(d, b, outFds) ==
  [t \in Tensors |-> IF t \in OutputsOf(d) THEN [rt[t] EXCEPT !.fd = t \in outFds]
                     ELSE Bound(d, b)[t]]

\* ensureResidentHostStorage
HostStorage(r, t) == IF r.hostValid THEN r ELSE [r EXCEPT !.host = Zero(t), !.form = "f32", !.hostValid = TRUE]

\* applyResidentLinks on the host, for the links in L.
HostLinked(r, L) ==
  LET base == [t \in Tensors |-> IF \E l \in L : t \in {l[1], l[2]} THEN HostStorage(r[t], t) ELSE r[t]]
  IN  [t \in Tensors |->
         IF \E l \in L : l[2] = t /\ slot[l] # None
         THEN LET l == CHOOSE m \in L : m[2] = t
              IN  [base[t] EXCEPT !.host[slot[l]] = base[l[1]].host]
         ELSE base[t]]

\* The contract's inputs of this run: what is bound, then the previous run's outputs copied in.
Contract(c, b) ==
  [i \in GraphInputs |->
     IF i \notin InputsOf(c) THEN want[i]
     ELSE LET base == IF i \in DOMAIN b THEN Given(i, b[i][2]) ELSE want[i]
          IN  IF \E l \in linked : l[2] = i /\ slot[l] # None
              THEN LET l == CHOOSE m \in linked : m[2] = i IN [base EXCEPT ![slot[l]] = made[l[1]]]
              ELSE base]

\* The links of bucket d.
LinksOf(d) == {l \in linked : OfLink(l) = d}

\* A run that means bucket c and goes to bucket d, with dma-bufs for some outputs.
BeginRun(c, d, b, outFds) ==
  LET e == For(d, b)
  IN  /\ phase = "idle"
      /\ (FdBound(e) \cup outFds) \cap (LinkedIns \cup LinkedOuts) = {}
      /\ rt' = IF OnGpu THEN BoundAll(d, e, outFds) ELSE HostLinked(BoundAll(d, e, outFds), LinksOf(d))
      /\ fdMem' = [t \in Tensors |-> IF t \in FdBound(e) THEN Given(t, e[t][2])
                                     ELSE None]
      /\ phase' = "run" /\ at' = d /\ seg' = Min(SegsOf(d))
      /\ want' = Contract(c, b)
      /\ sure' = IF \A l \in LinksOf(c) : l[2] \in HostBound(b) /\ slot[l] = None THEN sure \cup {c} ELSE sure
      /\ UNCHANGED <<planVs, buf, sessionVs, argRes, result, made, completed, ran, thrown>>

\* An entry of the inputs is refused (its name, its shape, an index out of range): those before it,
\* in b, stay bound.
RejectInput(c, b) ==
  /\ phase = "idle"
  /\ rt' = Bound(c, b)
  /\ want' = [i \in GraphInputs |-> IF i \in DOMAIN b \ LinkedIns THEN None ELSE want[i]]
  /\ sure' = IF HostBound(b) \cap LinkedIns = {} THEN sure ELSE sure \ {c}
  /\ UNCHANGED <<planVs, buf, fdMem, sessionVs, argRes, phase, at, seg, result, made, completed, ran, thrown>>

\* A linked tensor is bound to a dma-buf: the run is refused after its inputs and outputs are bound
\* and the links in L, earlier in the list, are applied.
RejectLinkedFd(c, b, outFds, L) ==
  /\ phase = "idle"
  /\ \E l \in linked : {l[1], l[2]} \cap (FdBound(b) \cup outFds) # {}
  /\ \A l \in L : {l[1], l[2]} \cap (FdBound(b) \cup outFds) = {}
  /\ rt' = IF OnGpu THEN BoundAll(c, b, outFds) ELSE HostLinked(BoundAll(c, b, outFds), L)
  /\ want' = [i \in GraphInputs |-> IF i \in DOMAIN b \ LinkedIns THEN None ELSE want[i]]
  /\ sure' = IF HostBound(b) \cap LinkedIns = {} /\ L = {} THEN sure ELSE sure \ {c}
  /\ UNCHANGED <<planVs, buf, fdMem, sessionVs, argRes, phase, at, seg, result, made, completed, ran, thrown>>

-----------------------------------------------------------------------------
\* The segments, in order.

\* MUTANT of AlreadyHere: any segment's device copy will do.
AlreadyOnDevice(s, t) == rt[t].deviceValid /\ rt[t].owner # Nobody

\* This segment's own buffer holds the current value.
AlreadyHere(s, t) == rt[t].deviceValid /\ rt[t].owner = s

\* The upload of a Vulkan segment's boundary inputs.
Upload ==
  /\ phase = "run" /\ seg \in SegsOf(at) /\ Dev(seg) = "gpu"
  /\ LET packed == {t \in BoundaryIns(seg) : ~rt[t].fd /\ rt[t].hostValid /\ ~AlreadyHere(seg, t)}
         here   == {t \in BoundaryIns(seg) : rt[t].fd \/ t \in packed \/ t \in LinkedIns}
     IN  /\ buf' = [buf EXCEPT ![seg] = [t \in Tensors |-> IF t \in packed THEN rt[t].host ELSE @[t]]]
         /\ rt' = [t \in Tensors |->
                     IF t \notin BoundaryIns(seg) THEN rt[t]
                     ELSE [rt[t] EXCEPT !.owner = IF rt[t].fd THEN TheFd ELSE seg,
                                        !.deviceValid = @ \/ t \in here]]
  /\ phase' = "uploaded"
  /\ UNCHANGED <<planVs, fdMem, sessionVs, argRes, at, seg, result, history>>

\* The link copies at the head of the stream read what the previous run left in the sources.
LinkCopied(s) ==
  [t \in Tensors |->
     IF \E l \in linked : l[2] = t /\ slot[l] # None /\ s \in LinkOwners(l)
     THEN LET l == CHOOSE m \in linked : m[2] = t
          IN  [buf[s][t] EXCEPT ![slot[l]] = buf[s][l[1]]]
     ELSE IF rt[t].fd THEN fdMem[t] ELSE buf[s][t]]

\* The submitted stream writes the boundary outputs in W, and reduces the registered ones.
Execute(W) ==
  LET env == Eval(FirstOf(seg), LastOf(seg), LinkCopied(seg))
  IN  /\ buf' = [buf EXCEPT ![seg] =
                   [t \in Tensors |-> IF rt[t].fd THEN @[t]
                                      ELSE IF t \in W THEN env[t] ELSE
                                      IF t \in LinkedIns THEN LinkCopied(seg)[t] ELSE @[t]]]
      /\ fdMem' = [t \in Tensors |-> IF t \in W /\ rt[t].fd THEN env[t] ELSE fdMem[t]]
      /\ argRes' = [o \in ArgMaxable |-> IF o \in W \cap Reduced /\ DeviceArgMax(o) THEN env[o]
                                         ELSE argRes[o]]

Submit ==
  /\ phase = "uploaded"
  /\ Execute(BoundaryOuts(seg))
  /\ phase' = "submitted"
  /\ UNCHANGED <<planVs, rt, sessionVs, at, seg, result, history>>

\* A chunk of the stream fails: none has run, or the outputs in W were written.
SubmitThrows(W) ==
  /\ thrown < MaxThrows
  /\ phase = "uploaded"
  /\ Execute(W) \/ UNCHANGED <<buf, fdMem, argRes>>
  /\ phase' = "threw"
  /\ UNCHANGED <<planVs, rt, sessionVs, at, seg, result, history>>

\* A linked output and a device argmax output are not downloaded.
StaysOnDevice(o) == o \in LinkedOuts \/ (o \in Reduced /\ DeviceArgMax(o))

\* Of a row-selected output one row comes down.
Row(v) == <<"row", v>>
Shown(o, v) == IF o \in rows THEN Row(v) ELSE v

Download ==
  /\ phase = "submitted"
  /\ rt' = [t \in Tensors |->
              IF t \notin BoundaryOuts(seg) THEN rt[t]
              ELSE LET r == [rt[t] EXCEPT !.owner = IF rt[t].fd THEN TheFd ELSE seg, !.deviceValid = TRUE]
                   IN  IF StaysOnDevice(t) THEN [r EXCEPT !.hostValid = FALSE]
                       ELSE IF rt[t].fd THEN r
                       ELSE [r EXCEPT !.host = Shown(t, buf[seg][t]), !.hostValid = TRUE,
                                      !.form = IF t \in Flat \cap Fp16 THEN "fp16" ELSE "f32"]]
  /\ phase' = "run" /\ seg' = seg + 1
  /\ UNCHANGED <<planVs, buf, fdMem, sessionVs, argRes, at, result, history>>

\* cpu::allocOut and what the operator writes
CpuOut(r, v) == [r EXCEPT !.host = v, !.form = "f32", !.hostValid = TRUE, !.deviceValid = FALSE]

\* A CPU operator reads the host bytes of its operands, valid or not.
HostRead == [t \in Tensors |-> IF rt[t].form = "f32" THEN rt[t].host ELSE Garbage]

\* The CPU segment's nodes up to last.
CpuNodes(last) ==
  LET env == Eval(FirstOf(seg), last, HostRead)
  IN  rt' = [t \in Tensors |-> IF \E n \in FirstOf(seg) .. last : t \in Nodes[n].outs
                               THEN CpuOut(rt[t], env[t]) ELSE rt[t]]

RunCpu ==
  /\ phase = "run" /\ seg \in SegsOf(at) /\ Dev(seg) = "cpu"
  /\ CpuNodes(LastOf(seg))
  /\ phase' = "run" /\ seg' = seg + 1
  /\ UNCHANGED <<planVs, buf, fdMem, sessionVs, argRes, at, result, history>>

\* An operator throws; it may have written its outputs.
CpuThrows(last) ==
  /\ thrown < MaxThrows
  /\ phase = "run" /\ seg \in SegsOf(at) /\ Dev(seg) = "cpu" /\ last \in NodesOf(seg)
  /\ CpuNodes(last)
  /\ phase' = "threw"
  /\ UNCHANGED <<planVs, buf, fdMem, sessionVs, argRes, at, seg, result, history>>

\* run() returns RuntimeError; a binding to a dma-buf is the caller's to make again.
FailRun ==
  /\ phase = "threw"
  /\ phase' = "idle"
  /\ want' = [i \in GraphInputs |-> IF i \in InputsOf(at) /\ rt[i].fd THEN None ELSE want[i]]
  /\ sure' = sure \ {at} /\ completed' = FALSE /\ thrown' = thrown + 1
  /\ UNCHANGED <<planVs, rt, buf, fdMem, sessionVs, argRes, at, seg, result, made, ran>>

-----------------------------------------------------------------------------
\* Collecting the outputs.

\* MUTANT of Donated: a linked output's host bytes move to the caller like any other's.
DonatedAlways(o) == ~rt[o].fd /\ ~(o \in Other \/ (o \in Fp16 /\ rt[o].form = "f32"))

\* Output bytes already in the declared dtype move to the caller.
Donated(o) == /\ o \notin LinkedOuts \cup Reduced /\ ~rt[o].fd
              /\ ~(o \in Other \/ (o \in Fp16 /\ rt[o].form = "f32"))

\* Every tensor's value in this run, by the contract.
Current == Eval(1, Len(Nodes), [t \in Tensors |-> IF t \in GraphInputs THEN want[t] ELSE None])

EndRun ==
  /\ phase = "run" /\ seg \notin SegsOf(at)
  /\ result' = [o \in GraphOutputs |-> IF o \notin OutputsOf(at) \/ o \in LinkedOuts \cup Reduced THEN None
                                       ELSE IF rt[o].fd THEN fdMem[o] ELSE rt[o].host]
  /\ rt' = [t \in Tensors |-> IF t \in OutputsOf(at)
                              THEN [rt[t] EXCEPT !.hostValid = @ /\ ~Donated(t), !.fd = FALSE] ELSE rt[t]]
  /\ phase' = "done"
  /\ made' = [o \in GraphOutputs |-> IF o \in OutputsOf(at) THEN Current[o] ELSE made[o]]
  /\ completed' = TRUE /\ ran' = Reduced \cap OutputsOf(at)
  /\ UNCHANGED <<planVs, buf, fdMem, sessionVs, argRes, at, seg, want, sure, thrown>>

\* The caller takes the results, and its dma-bufs back.
TakeResults ==
  /\ phase = "done"
  /\ phase' = "idle"
  /\ want' = [i \in GraphInputs |-> IF i \in InputsOf(at) /\ rt[i].fd THEN None ELSE want[i]]
  /\ result' = [o \in GraphOutputs |-> None]
  /\ UNCHANGED <<planVs, rt, buf, fdMem, sessionVs, argRes, at, seg, made, sure, completed, ran, thrown>>

\* readResident: the value, from the owning segment's buffer or the host copy, and the host copy
\* the read leaves behind.
Resident(l, t) ==
  IF OnGpu THEN buf[CHOOSE s \in LinkOwners(l) : TRUE][t] ELSE HostStorage(rt[t], t).host

NameOf(t) == IF t \in GraphInputs THEN InputDesc[t].name ELSE OutputDesc[t].name

\* A name that is linked twice is refused.
ReadResident(l, t) ==
  /\ phase = "idle" /\ l \in linked /\ t \in {l[1], l[2]}
  /\ \A m \in linked \ {l} : NameOf(t) \notin {NameOf(m[1]), NameOf(m[2])}
  /\ rt' = IF OnGpu THEN [rt EXCEPT ![t].host = Resident(l, t), ![t].form = "f32", ![t].hostValid = TRUE]
           ELSE [rt EXCEPT ![t] = HostStorage(@, t)]
  /\ UNCHANGED <<planVs, buf, fdMem, sessionVs, argRes, phase, at, seg, result, history>>

\* readOutputArgMax of a name: the device's result of its first registration, else a scan of the host copy.
ReadArgMax(n) ==
  LET o == SelectInSeq(argMax, LAMBDA p : OutputDesc[p].name = n)
  IN  IF DeviceArgMax(argMax[o]) THEN argRes[argMax[o]]
      ELSE IF rt[argMax[o]].hostValid THEN rt[argMax[o]].host ELSE None

-----------------------------------------------------------------------------
\* run(): the caller binds what holds nothing, and leaves an input unbound only where the run still
\* means the bucket it wants.
Call ==
  /\ phase = "idle"
  /\ \E c \in Range(buckets) : \E bound \in SUBSET InputsOf(c) :
       LET d == Selected(c, NamesIn(bound))
       IN  \/ /\ \A i \in InputsOf(c) \ bound : want[i] # None
              /\ Means(c, NamesIn(bound))
              /\ d # 0
              /\ \E b \in Entries(bound), outFds \in SUBSET (FdTensors \cap OutputsOf(c)) :
                   \/ BeginRun(c, d, b, outFds)
                   \/ d = c /\ \E L \in SUBSET LinksOf(c) : RejectLinkedFd(c, b, outFds, L)
           \/ d = c /\ \E b \in Entries(bound) : RejectInput(c, b)

Next ==
  \/ \E l \in Links, k \in Slots \cup {None} : Link(l, k) \/ SetRanges(l, k)
  \/ ClearLinks
  \/ \E o \in ArgMaxable : SetOutputArgMax(o)
  \/ \E o \in RowSets : SetOutputRow(o)
  \/ \E b \in AllBuckets : PrepareShapes(b)
  \/ Call
  \/ Upload \/ Submit \/ Download \/ RunCpu
  \/ seg \in Segs /\ \E W \in SUBSET BoundaryOuts(seg) : SubmitThrows(W)
  \/ \E n \in DOMAIN Nodes : CpuThrows(n)
  \/ FailRun \/ EndRun \/ TakeResults
  \/ \E l \in Links, t \in Tensors : ReadResident(l, t)

Spec == Init /\ [][Next]_vars

-----------------------------------------------------------------------------
\* Properties

\* The sessions whose contract the code keeps: what the callers of p may link, share, reduce and
\* read a row of stays clear of the cases README section 6 shows.
Supported(p) ==
  LET parts    == Partition(p)
      Crossing == UNION {parts[s].outs : s \in DOMAIN parts}
      Read     == UNION {parts[s].ins : s \in DOMAIN parts}
      OnCpu    == {s \in DOMAIN parts : parts[s].dev = "cpu"}
      Sources  == {l[1] : l \in p.links}
  IN  \* a tensor that crosses segments is read as an operand
      /\ Read \subseteq DOMAIN p.inputs \cup Crossing
      \* a dma-buf belongs to a GPU session, and no CPU segment reads or writes it
      /\ p.fds # {} => p.onGpu
      /\ \A s \in OnCpu : p.fds \cap (parts[s].ins \cup parts[s].outs) = {}
      \* what is reduced on the device, or comes down as one row, is no operand of another segment
      /\ (p.rows \cup (p.argMaxable \cap p.flat)) \cap Read = {}
      /\ \A s \in OnCpu : p.flat \cap p.fp16 \cap parts[s].ins = {}
      \* nor is one row of a dma-buf
      /\ p.rows \cap p.fds = {}
      \* an output that is linked after a run is on the GPU and no dma-buf
      /\ p.lateLinks /\ p.links # {} => p.onGpu /\ Sources \cap p.fds = {}
      \* a linked or shared output is reduced on the device
      /\ p.onGpu => p.argMaxable \cap (Sources \cup p.fds) \subseteq p.flat
      \* the outputs that may be reduced have names of their own
      /\ \A o, t \in p.argMaxable : p.outputs[o].name = p.outputs[t].name => o = t

TypeOK ==
  /\ \A t \in Tensors :
       /\ rt[t].form \in {"f32", "fp16"} /\ rt[t].owner \in Segs \cup {Nobody, TheFd}
       /\ rt[t].hostValid \in BOOLEAN /\ rt[t].deviceValid \in BOOLEAN
       /\ rt[t].fd \in BOOLEAN /\ (rt[t].fd => t \in FdTensors)
       /\ rt[t].deviceValid => rt[t].owner # Nobody
  /\ linked \subseteq Links /\ slot \in [Links -> Slots \cup {None}]
  /\ Reduced \subseteq ArgMaxable /\ ran \subseteq Reduced /\ rows \subseteq RowSets
  /\ IsInjective(buckets) /\ Range(buckets) \subseteq AllBuckets /\ at \in Range(buckets)
  /\ phase \in {"idle", "run", "uploaded", "submitted", "threw", "done"}
  /\ seg \in 1 .. Cardinality(Segs) + 1
  /\ sure \subseteq AllBuckets /\ completed \in BOOLEAN /\ thrown \in 0 .. MaxThrows

\* Every segment computes from the current value of each of its boundary inputs, whichever backend
\* produced it, in whichever segment's buffer it is, and whatever earlier runs left behind.
InputsAreCurrent ==
  at \in sure =>
    /\ phase = "run" /\ seg \in SegsOf(at) /\ Dev(seg) = "cpu" =>
         \A t \in BoundaryIns(seg) : HostRead[t] = Current[t]
    /\ phase = "uploaded" =>
         \A t \in BoundaryIns(seg) : LinkCopied(seg)[t] = Current[t]

\* A completed run returns what the graph computes from the inputs, in the caller's bytes or in the
\* dma-buf it bound.
ResultsAreCurrent ==
  phase = "done" /\ at \in sure =>
    \A o \in OutputsOf(at) \ (LinkedOuts \cup Reduced) : result[o] = Shown(o, made[o])

\* Between runs a linked input holds what the contract says: what was bound, then the copies of
\* every run so far; and a linked output holds the last run's result.
ResidentIsCurrent ==
  phase \in {"idle", "done"} =>
    \A l \in {m \in linked : OfLink(m) \in sure} :
                      /\ Resident(l, l[2]) = want[l[2]]
                      /\ made[l[1]] # None => Resident(l, l[1]) = made[l[1]]

\* The argmax of an output is that of the last completed run.
ArgMaxIsCurrent ==
  phase \in {"idle", "done"} /\ at \in sure /\ completed => \A o \in ran : ReadArgMax(NameOf(o)) = made[o]

\* The comment on RtTensor::hostValid: true when host holds the current values.
HostValidIsCurrent ==
  phase = "done" /\ at \in sure => \A o \in OutputsOf(at) : rt[o].hostValid => rt[o].host = made[o]

\* readResident's contract: the state as of the last completed run, a failed one after it or not.
ResidentIsOfLastRun ==
  phase = "idle" => \A l \in linked : made[l[1]] # None => Resident(l, l[1]) = made[l[1]]

\* A linked input keeps its values across runs: a run refused for a dma-buf on a linked tensor
\* leaves them alone.
RefusedRunKeepsState ==
  [][\A c \in Range(buckets), bound \in SUBSET GraphInputs : \A b \in Entries(bound), outFds \in SUBSET FdTensors, l \in linked :
       RejectLinkedFd(c, b, outFds, {}) /\ l[2] \notin HostBound(b)
         => Resident(l, l[2])' = Resident(l, l[2])]_vars
=============================================================================
