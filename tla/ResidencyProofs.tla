--------------------------- MODULE ResidencyProofs ---------------------------
(***************************************************************************)
(* Proofs about Residency, for any supported plan: any buckets, nodes,     *)
(* segments, links, slots, values and failed runs.                         *)
(*                                                                         *)
(* The partition comes first: the segments are the runs of nodes on one    *)
(* backend, in order, and a tensor is written by one of them, before those *)
(* that read it.  So a segment whose operands are current computes what    *)
(* the graph computes (SegmentComputes).                                   *)
(*                                                                         *)
(* Where the current value of a tensor is depends on who touches it.  An   *)
(* unlinked input is solid, current in every copy anybody reads, or kept   *)
(* by the one segment that reads it (InputInv).  A linked input's owner    *)
(* has this run's value once it has run, and before that the value that    *)
(* the pending link copy makes of what it holds (LoneInv; CpuLinkInv for a *)
(* session without a GPU).  The source of that copy is the last completed  *)
(* run's output until the bucket runs again (OutInv).  Behind the segment  *)
(* under way every boundary output is current where the next reader looks  *)
(* (MadeInv), and after the run what was reduced is (ArgInv).              *)
(*                                                                         *)
(* Buckets with a failed run behind them are out of it until their linked  *)
(* inputs are bound again (sure, Sound, Settled).  One lemma per action    *)
(* shows that IInv is inductive; the theorems are at the end.              *)
(***************************************************************************)
EXTENDS Residency, TLAPS, FiniteSetTheorems, WellFoundedInduction

-----------------------------------------------------------------------------
\* The inductive invariant.

\* Segment s keeps input i, or output o, of a link the caller may make; no other segment touches it.
Lone(s, i)    == \E l \in Links : l[2] = i /\ s \in LinkOwners(l)
LoneOut(s, o) == \E l \in Links : l[1] = o /\ s \in LinkOwners(l)

\* Nothing of bucket b is in doubt.
Sound(b) == b \in sure /\ ~(phase = "threw" /\ at = b)

\* Segment s has run, or is not part of the run under way.
Passed(s) == \/ phase \in {"idle", "done"} \/ segs[s].of # at \/ s < seg
             \/ s = seg /\ phase = "submitted"

\* What segment s reads of t once it is uploaded, and what a link into i makes of v.
View(s, t)   == IF rt[t].hostValid /\ ~AlreadyHere(s, t) THEN rt[t].host ELSE buf[s][t]
LinkOf(s, i, v) ==
  IF \E l \in linked : l[2] = i /\ slot[l] # None
  THEN LET l == CHOOSE m \in linked : m[2] = i IN [v EXCEPT ![slot[l]] = buf[s][l[1]]]
  ELSE v

\* Every copy of i that anybody reads is v.
Solid(i, v) == rt[i].hostValid /\ rt[i].host = v /\ \A s \in Segs : AlreadyHere(s, i) => buf[s][i] = v

InRun(i) == phase # "idle" /\ i \in InputsOf(at)
FdNow(i) == InRun(i) /\ rt[i].fd
Held(i)  == want[i] # None \/ InRun(i)

StaticInv == plan \in DOMAIN Plans /\ segs = Partition(Plans[plan])
IsRt(r)   == r = [host |-> r.host, form |-> r.form, hostValid |-> r.hostValid, owner |-> r.owner,
                  deviceValid |-> r.deviceValid, fd |-> r.fd]
ShapeInv ==
  /\ rt = [t \in Tensors |-> rt[t]] /\ \A t \in Tensors : IsRt(rt[t])
  /\ buf = [s \in Segs |-> [t \in Tensors |-> buf[s][t]]]
  /\ fdMem = [t \in Tensors |-> fdMem[t]]
  /\ want = [i \in GraphInputs |-> want[i]] /\ made = [o \in GraphOutputs |-> made[o]]
  /\ argRes = [o \in ArgMaxable |-> argRes[o]]
  /\ buckets \in Seq(AllBuckets) /\ argMax \in Seq(ArgMaxable)
PhaseInv ==
  /\ phase \in {"uploaded", "submitted"} => seg \in SegsOf(at) /\ Dev(seg) = "gpu"
  /\ phase = "run" => seg \in SegsOf(at) \/ seg - 1 \in SegsOf(at)
  /\ phase = "threw" => thrown < MaxThrows
LinksInv ==
  /\ \A l, m \in linked : l[2] = m[2] => l = m
  /\ OnGpu => \A l \in linked : LinkOwners(l) # {}
FdInv   == phase # "idle" => \A t \in LinkedIns \cup LinkedOuts : t \in InputsOf(at) \cup OutputsOf(at) => ~rt[t].fd
RowsInv == \A o \in rows : FlatBoundary(o)
FormInv == \A t \in Tensors : rt[t].form = "fp16" => t \in Flat \cap Fp16
CpuInv  == ~OnGpu => \A t \in Tensors : rt[t].owner = Nobody
FreshInv == \A i \in GraphInputs : rt[i].owner = Nobody => \A s \in Segs : buf[s][i] = Zero(i)
UpInv ==
  phase \in {"uploaded", "submitted"} =>
    \A t \in BoundaryIns(seg) :
      /\ rt[t].owner # Nobody
      /\ rt[t].fd \/ ~rt[t].hostValid \/ AlreadyHere(seg, t)

InputInv ==
  \A i \in GraphInputs \ LinkedIns :
    Held(i) =>
      IF FdNow(i) THEN fdMem[i] = want[i]
      ELSE IF \E s \in Segs : Lone(s, i) THEN \A s \in Segs : Lone(s, i) => View(s, i) = want[i]
      ELSE Solid(i, want[i])
LoneInv ==
  \A i \in GraphInputs, s \in Segs :
    Lone(s, i) /\ Sound(InputDesc[i].of) /\ (i \in LinkedIns \/ Held(i)) /\ ~FdNow(i) =>
      IF Passed(s) THEN buf[s][i] = want[i] /\ View(s, i) = want[i]
      ELSE i \in LinkedIns => LinkOf(s, i, View(s, i)) = want[i]
CpuLinkInv ==
  ~OnGpu =>
    \A l \in linked :
      Sound(OfLink(l)) => /\ HostStorage(rt[l[2]], l[2]).host = want[l[2]]
                          /\ InRun(l[2]) => rt[l[2]].hostValid

\* A run of bucket b has not changed what its outputs were.
Settled(b) == b \in sure /\ (phase \in {"idle", "done"} \/ b # at)
OutInv ==
  \A l \in Links :
    Settled(OfLink(l)) =>
      IF OnGpu
      THEN \A s \in LinkOwners(l) :
             l[1] \in LinkedOuts \/ l[1] \notin FdTensors \/ made[l[1]] = None => buf[s][l[1]] = made[l[1]]
      ELSE l[1] \in LinkedOuts \/ made[l[1]] = None => HostStorage(rt[l[1]], l[1]).host = made[l[1]]

MadeInv ==
  phase \in {"run", "uploaded", "submitted"} /\ at \in sure =>
    \A s \in SegsOf(at) : \A t \in BoundaryOuts(s) :
      /\ Passed(s) /\ Dev(s) = "gpu" =>
           /\ IF rt[t].fd THEN fdMem[t] = Current[t] ELSE buf[s][t] = Current[t]
           /\ t \in Reduced /\ DeviceArgMax(t) => argRes[t] = Current[t]
      /\ s < seg /\ ~rt[t].fd /\ ~(Dev(s) = "gpu" /\ StaysOnDevice(t)) =>
           /\ rt[t].hostValid /\ rt[t].host = Shown(t, Current[t])
           /\ \A r \in Segs \ {s} : AlreadyHere(r, t) => buf[r][t] = Current[t]
ArgInv ==
  phase \in {"idle", "done"} /\ at \in sure /\ completed =>
    \A o \in ran : IF DeviceArgMax(o) THEN argRes[o] = made[o] ELSE rt[o].hostValid /\ rt[o].host = made[o]

IInv ==
  /\ StaticInv /\ TypeOK /\ ShapeInv /\ PhaseInv /\ LinksInv /\ FdInv /\ RowsInv /\ FormInv /\ CpuInv /\ FreshInv
  /\ UpInv /\ InputInv /\ LoneInv /\ CpuLinkInv /\ OutInv /\ MadeInv /\ ResultsAreCurrent /\ ArgInv

AllSupported == \A p \in Range(Plans) : Supported(p)

-----------------------------------------------------------------------------
\* Numbers.

\* A set of naturals has a least element: the induction the proofs below use.
LEMMA LeastNat ==
  ASSUME NEW T, T \subseteq Nat, T # {}
  PROVE  \E x \in T : \A y \in T : x <= y
<1> DEFINE R == OpToRel(<, Nat)
<1>1. \E x \in T : \A y \in T : ~ (<<y, x>> \in R)
  <2>1. IsWellFoundedOn(R, Nat)
    BY NatLessThanWellFounded
  <2> HIDE DEF R
  <2> QED
    BY <2>1, WFMin
<1>2. \A x, y \in Nat : <<y, x>> \in R <=> y < x
  BY DEF OpToRel
<1> HIDE DEF R
<1>3. PICK x \in T : \A y \in T : ~ (<<y, x>> \in R)
  BY <1>1
<1>4. \A y \in T : ~ (y < x)
  BY <1>2, <1>3
<1>5. \A y \in T : x <= y
  BY <1>4
<1> QED
  BY <1>5

\* Min is the least element.
LEMMA MinIs ==
  ASSUME NEW T, T \subseteq Nat, T # {}
  PROVE  Min(T) \in T /\ \A y \in T : Min(T) <= y
<1>1. \E x \in T : \A y \in T : x <= y
  BY LeastNat
<1> QED
  BY <1>1, Zenon DEF Min

\* Max is the greatest element.
LEMMA MaxIs ==
  ASSUME NEW n \in Nat, NEW T, T \subseteq 0 .. n, T # {}
  PROVE  Max(T) \in T /\ \A y \in T : Max(T) >= y
<1> DEFINE U == {n - y : y \in T}
<1>0. \A y \in T : n - y \in Nat
  OBVIOUS
<1>1. U \subseteq Nat /\ U # {}
  BY <1>0
<1>2. PICK u \in U : \A y \in U : u <= y
  BY <1>1, LeastNat
<1>3. PICK x \in T : u = n - x
  BY <1>2
<1>4. \A y \in T : x >= y
  <2> SUFFICES ASSUME NEW y \in T PROVE x >= y
    OBVIOUS
  <2>1. n - x <= n - y
    BY <1>2, <1>3
  <2> QED
    BY <2>1
<1>5. \E z \in T : \A y \in T : z >= y
  BY <1>4
<1> QED
  BY <1>5, Zenon DEF Max


-----------------------------------------------------------------------------
\* The planned nodes.

\* What is assumed of the plans, for the plan the session has.
LEMMA GraphIs ==
  ASSUME StaticInv
  PROVE  /\ GraphInputs \cap GraphOutputs = {}
         /\ Ready \in Seq(AllBuckets) /\ Ready # <<>> /\ IsInjective(Ready)
         /\ Len(Nodes) \in Nat /\ DOMAIN Nodes = 1 .. Len(Nodes) /\ MaxThrows \in Nat
         /\ \A n \in DOMAIN Nodes :
              /\ Nodes[n].dev \in {"cpu", "gpu"} /\ (Nodes[n].dev = "gpu" => OnGpu)
              /\ Nodes[n].of \in Int
              /\ \A m \in 1 .. n : Nodes[m].of <= Nodes[n].of
              /\ Nodes[n].outs \cap GraphInputs = {}
              /\ \A m \in 1 .. n - 1 : Nodes[m].outs \cap Nodes[n].outs = {}
              /\ Reads(n) \subseteq InputsOf(Nodes[n].of)
                   \cup UNION {Nodes[m].outs : m \in {k \in 1 .. n - 1 : Nodes[k].of = Nodes[n].of}}
         /\ \A o \in GraphOutputs : \E n \in DOMAIN Nodes : o \in Nodes[n].outs /\ Nodes[n].of = OutputDesc[o].of
         /\ \A b \in AllBuckets : \E n \in DOMAIN Nodes : Nodes[n].of = b
         /\ \A i, j \in GraphInputs :
              InputDesc[i].of = InputDesc[j].of /\ InputDesc[i].name = InputDesc[j].name => i = j
         /\ \A b, c \in AllBuckets :
              b # c /\ NamesOf(b) = NamesOf(c)
                => \E i \in InputsOf(b), j \in InputsOf(c) :
                     InputDesc[i].name = InputDesc[j].name /\ InputDesc[i].shape # InputDesc[j].shape
         /\ \A l \in Links : l[1] \in GraphOutputs /\ l[2] \in GraphInputs /\ OutputDesc[l[1]].of = OfLink(l)
         /\ Flat \cup Fp16 \cup Other \cup ArgMaxable \cup RowSets \subseteq GraphOutputs
<1>1. Plans[plan] \in Range(Plans)
  BY DEF StaticInv, Range
<1> QED
  BY <1>1, ResidencyAssumption
  DEF GraphInputs, GraphOutputs, Nodes, InputDesc, OutputDesc, Ready, AllBuckets, OnGpu, Reads, InputsOf, NamesOf,
      Links, OfLink, Flat, Fp16, Other, ArgMaxable, RowSets, MaxThrows

-----------------------------------------------------------------------------
\* The partition.

\* A segment begins at node k; the segments begun up to node n.
Cut(k)  == k = 1 \/ Nodes[k].dev # Nodes[k - 1].dev \/ Nodes[k].of # Nodes[k - 1].of
Cuts(n) == {k \in 1 .. n : Cut(k)}
Rank(n) == Cardinality(Cuts(n))

\* Partition, in these terms.
LEMMA PartitionIs ==
  ASSUME StaticInv
  PROVE  /\ Segs = 1 .. Rank(Len(Nodes))
         /\ \A s \in Segs :
              /\ NodesOf(s) = {n \in DOMAIN Nodes : Rank(n) = s}
              /\ segs[s].of = Nodes[FirstOf(s)].of /\ Dev(s) = Nodes[FirstOf(s)].dev
              /\ BoundaryIns(s) = (UNION {Reads(n) : n \in NodesOf(s)}) \ UNION {Nodes[n].outs : n \in NodesOf(s)}
              /\ BoundaryOuts(s) = {o \in UNION {Nodes[n].outs : n \in NodesOf(s)} :
                                      o \in GraphOutputs \/ \E n \in DOMAIN Nodes \ NodesOf(s) : o \in Nodes[n].ins}
<1> DEFINE p == Plans[plan]
<1>1. segs = Partition(p) /\ DOMAIN Nodes = 1 .. Len(Nodes)
  BY GraphIs DEF StaticInv
<1>2. Segs = 1 .. Rank(Len(Nodes))
  BY <1>1 DEF Segs, Partition, Rank, Cuts, Cut, Nodes
<1> DEFINE Of(s)  == {n \in DOMAIN Nodes : Rank(n) = s}
           Ins(s) == (UNION {Reads(n) : n \in Of(s)}) \ UNION {Nodes[n].outs : n \in Of(s)}
           Out(s) == {o \in UNION {Nodes[n].outs : n \in Of(s)} :
                        o \in GraphOutputs \/ \E n \in DOMAIN Nodes \ Of(s) : o \in Nodes[n].ins}
           first(s) == Nodes[Min(Of(s))]
<1>3. \A s \in Segs : segs[s] = [nodes |-> Of(s), of |-> first(s).of, dev |-> first(s).dev, ins |-> Ins(s), outs |-> Out(s)]
  BY <1>1, <1>2 DEF Partition, Rank, Cuts, Cut, Nodes, Reads, GraphOutputs, OutputDesc
<1> HIDE DEF Of, Ins, Out, first
<1>4. ASSUME NEW s \in Segs
      PROVE  /\ NodesOf(s) = Of(s) /\ segs[s].of = first(s).of /\ Dev(s) = first(s).dev
             /\ BoundaryIns(s) = Ins(s) /\ BoundaryOuts(s) = Out(s)
  <2>1. segs[s] = [nodes |-> Of(s), of |-> first(s).of, dev |-> first(s).dev, ins |-> Ins(s), outs |-> Out(s)]
    BY <1>3
  <2> QED
    BY <2>1 DEF NodesOf, Dev, BoundaryIns, BoundaryOuts
<1>5. \A s \in Segs : first(s) = Nodes[FirstOf(s)]
  BY <1>4 DEF first, FirstOf
<1>6. ASSUME NEW s \in Segs
      PROVE  /\ BoundaryIns(s) = (UNION {Reads(n) : n \in NodesOf(s)}) \ UNION {Nodes[n].outs : n \in NodesOf(s)}
             /\ BoundaryOuts(s) = {o \in UNION {Nodes[n].outs : n \in NodesOf(s)} :
                                      o \in GraphOutputs \/ \E n \in DOMAIN Nodes \ NodesOf(s) : o \in Nodes[n].ins}
  <2>1. NodesOf(s) = Of(s) /\ BoundaryIns(s) = Ins(s) /\ BoundaryOuts(s) = Out(s)
    BY <1>4
  <2> QED
    BY <2>1 DEF Ins, Out
<1> QED
  BY <1>2, <1>4, <1>5, <1>6 DEF Of

\* Rank grows by one at each cut.
LEMMA RankIs ==
  ASSUME StaticInv
  PROVE  /\ \A n \in Nat : Rank(n) \in Nat
         /\ Rank(0) = 0 /\ (Len(Nodes) > 0 => Rank(1) = 1)
         /\ \A n \in Nat : Rank(n + 1) = IF Cut(n + 1) THEN Rank(n) + 1 ELSE Rank(n)
<1>1. ASSUME NEW n \in Nat PROVE IsFiniteSet(Cuts(n)) /\ Rank(n) \in Nat
  <2>1. IsFiniteSet(1 .. n)
    BY FS_Interval
  <2>2. Cuts(n) \subseteq 1 .. n
    BY DEF Cuts
  <2> QED
    BY <2>1, <2>2, FS_Subset, FS_CardinalityType DEF Rank
<1>2. Rank(0) = 0
  <2>1. Cuts(0) = {}
    BY DEF Cuts
  <2> QED
    BY <2>1, FS_EmptySet DEF Rank
<1>3. ASSUME NEW n \in Nat PROVE Rank(n + 1) = IF Cut(n + 1) THEN Rank(n) + 1 ELSE Rank(n)
  <2>0. n + 1 \notin Cuts(n) /\ IsFiniteSet(Cuts(n))
    BY <1>1 DEF Cuts
  <2>1. CASE Cut(n + 1)
    <3>1. Cuts(n + 1) = Cuts(n) \cup {n + 1}
      BY <2>1 DEF Cuts
    <3>2. Cardinality(Cuts(n) \cup {n + 1}) = Cardinality(Cuts(n)) + 1
      BY <2>0, FS_AddElement
    <3> QED
      BY <2>1, <3>1, <3>2 DEF Rank
  <2>2. CASE ~Cut(n + 1)
    <3>1. Cuts(n + 1) = Cuts(n)
      BY <2>2 DEF Cuts
    <3> QED
      BY <2>2, <3>1 DEF Rank
  <2> QED
    BY <2>1, <2>2
<1>4. Rank(1) = 1
  <2>1. Cut(0 + 1)
    BY DEF Cut
  <2> QED
    BY <1>2, <1>3, <2>1
<1> QED
  BY <1>1, <1>2, <1>3, <1>4

\* Rank is monotone, and a node of the same rank as an earlier one has its bucket and backend.
LEMMA RankMonotone ==
  ASSUME StaticInv, NEW m \in Nat, NEW n \in Nat, 1 <= m, m <= n
  PROVE  /\ Rank(m) <= Rank(n)
         /\ Rank(m) = Rank(n) => Nodes[m].of = Nodes[n].of /\ Nodes[m].dev = Nodes[n].dev
<1> DEFINE Good(k) == /\ Rank(m) <= Rank(k)
                      /\ Rank(m) = Rank(k) => Nodes[m].of = Nodes[k].of /\ Nodes[m].dev = Nodes[k].dev
           T == {k \in Nat : m <= k /\ ~Good(k)}
<1>1. ASSUME NEW k \in T, \A j \in T : k <= j
      PROVE  FALSE
  <2>1. k # m
    BY <1>1, RankIs
  <2>2. k - 1 \in Nat /\ m <= k - 1 /\ k - 1 \notin T
    BY <1>1, <2>1
  <2>3. Good(k - 1)
    BY <2>2
  <2>4. Rank(k - 1) \in Nat /\ Rank(m) \in Nat /\ (Rank(k) = IF Cut(k) THEN Rank(k - 1) + 1 ELSE Rank(k - 1))
    <3>1. (k - 1) + 1 = k
      BY <2>2
    <3> QED
      BY <2>2, <3>1, RankIs
  <2>5. Good(k)
    BY <2>1, <2>2, <2>3, <2>4 DEF Cut
  <2> QED
    BY <1>1, <2>5
<1>2. T = {}
  <2>1. T \subseteq Nat
    OBVIOUS
  <2> HIDE DEF T
  <2> QED
    BY <1>1, <2>1, LeastNat
<1> QED
  BY <1>2

\* Every rank up to a node's is that of a node before it.
LEMMA RankOnto ==
  ASSUME StaticInv, NEW n \in Nat, NEW s \in 1 .. Rank(n)
  PROVE  \E m \in 1 .. n : Rank(m) = s
<1> DEFINE T == {k \in Nat : s <= Rank(k)}
<1>0. s \in Nat \ {0}
  BY RankIs
<1>1. T \subseteq Nat /\ n \in T
  BY RankIs
<1>2. PICK m \in T : \A k \in T : m <= k
  BY <1>1, LeastNat
<1>3. m # 0
  BY <1>0, RankIs
<1>4. m - 1 \in Nat /\ m - 1 \notin T
  BY <1>2, <1>3
<1>5. Rank(m - 1) < s /\ Rank(m - 1) \in Nat
  BY <1>0, <1>4, RankIs
<1>6. Rank(m) = Rank(m - 1) + 1 \/ Rank(m) = Rank(m - 1)
  <2>1. (m - 1) + 1 = m
    BY <1>4
  <2> QED
    BY <1>4, <2>1, RankIs
<1>7. Rank(m) = s /\ m \in 1 .. n
  BY <1>0, <1>1, <1>2, <1>3, <1>5, <1>6
<1> QED
  BY <1>7

\* A segment is a run of nodes of one bucket on one backend.
LEMMA SegmentIs ==
  ASSUME StaticInv, NEW s \in Segs
  PROVE  /\ s \in Nat \ {0}
         /\ FirstOf(s) \in DOMAIN Nodes /\ LastOf(s) \in DOMAIN Nodes /\ FirstOf(s) <= LastOf(s)
         /\ NodesOf(s) = FirstOf(s) .. LastOf(s) /\ NodesOf(s) \subseteq DOMAIN Nodes
         /\ \A n \in NodesOf(s) : Rank(n) = s /\ Nodes[n].of = segs[s].of /\ Nodes[n].dev = Dev(s)
         /\ segs[s].of \in Int /\ Dev(s) \in {"cpu", "gpu"} /\ (Dev(s) = "gpu" => OnGpu)
<1> DEFINE N == Len(Nodes)
<1>1. /\ N \in Nat /\ DOMAIN Nodes = 1 .. N /\ Rank(N) \in Nat /\ s \in 1 .. Rank(N)
      /\ NodesOf(s) = {n \in DOMAIN Nodes : Rank(n) = s}
      /\ segs[s].of = Nodes[FirstOf(s)].of /\ Dev(s) = Nodes[FirstOf(s)].dev
  BY GraphIs, PartitionIs, RankIs
<1>2. \E n \in 1 .. N : Rank(n) = s
  BY <1>1, RankOnto
<1>3. NodesOf(s) # {} /\ NodesOf(s) \subseteq Nat /\ NodesOf(s) \subseteq 0 .. N
  BY <1>1, <1>2
<1>4. FirstOf(s) \in NodesOf(s) /\ \A n \in NodesOf(s) : FirstOf(s) <= n
  BY <1>3, MinIs DEF FirstOf
<1>5. LastOf(s) \in NodesOf(s) /\ \A n \in NodesOf(s) : LastOf(s) >= n
  BY <1>1, <1>3, MaxIs DEF LastOf
<1>6. FirstOf(s) \in 1 .. N /\ LastOf(s) \in 1 .. N /\ FirstOf(s) <= LastOf(s)
  BY <1>1, <1>4, <1>5
<1>7. ASSUME NEW n \in FirstOf(s) .. LastOf(s) PROVE n \in NodesOf(s)
  <2>1. n \in 1 .. N /\ FirstOf(s) <= n /\ n <= LastOf(s)
    BY <1>1, <1>6
  <2>2. Rank(FirstOf(s)) <= Rank(n) /\ Rank(n) <= Rank(LastOf(s))
    BY <1>6, <2>1, RankMonotone
  <2>3. Rank(FirstOf(s)) = s /\ Rank(LastOf(s)) = s /\ Rank(n) \in Nat
    BY <1>1, <1>4, <1>5, <2>1, RankIs
  <2> QED
    BY <1>1, <2>1, <2>2, <2>3
<1>8. NodesOf(s) = FirstOf(s) .. LastOf(s)
  BY <1>1, <1>3, <1>4, <1>5, <1>6, <1>7
<1>9. ASSUME NEW n \in NodesOf(s) PROVE Rank(n) = s /\ Nodes[n].of = segs[s].of /\ Nodes[n].dev = Dev(s)
  <2>1. n \in Nat /\ FirstOf(s) <= n /\ 1 <= FirstOf(s) /\ FirstOf(s) \in Nat
    BY <1>1, <1>4, <1>6
  <2>2. Rank(FirstOf(s)) = s /\ Rank(n) = s
    BY <1>1, <1>4
  <2>3. Nodes[FirstOf(s)].of = Nodes[n].of /\ Nodes[FirstOf(s)].dev = Nodes[n].dev
    BY <2>1, <2>2, RankMonotone
  <2> QED
    BY <1>1, <2>2, <2>3
<1>10. segs[s].of \in Int /\ Dev(s) \in {"cpu", "gpu"} /\ (Dev(s) = "gpu" => OnGpu)
  BY <1>1, <1>6, GraphIs
<1> QED
  BY <1>1, <1>6, <1>8, <1>9, <1>10

\* Every node is in one segment, and the segments are in the order of their nodes and buckets.
LEMMA SegmentsInOrder ==
  ASSUME StaticInv
  PROVE  /\ \A n \in DOMAIN Nodes : Rank(n) \in Segs /\ n \in NodesOf(Rank(n))
         /\ \A s, r \in Segs : s # r => NodesOf(s) \cap NodesOf(r) = {}
         /\ \A s, r \in Segs, m \in DOMAIN Nodes, n \in DOMAIN Nodes :
              m \in NodesOf(s) /\ n \in NodesOf(r) /\ m <= n => s <= r
         /\ \A s, r \in Segs : s <= r => segs[s].of <= segs[r].of
<1> DEFINE N == Len(Nodes)
<1>1. N \in Nat /\ DOMAIN Nodes = 1 .. N /\ Segs = 1 .. Rank(N) /\ Rank(N) \in Nat
  BY GraphIs, PartitionIs, RankIs
<1>2. ASSUME NEW n \in DOMAIN Nodes PROVE Rank(n) \in Segs /\ n \in NodesOf(Rank(n))
  <2>1. 1 \in Nat /\ n \in Nat /\ 1 <= n /\ n <= N
    BY <1>1
  <2>2. Rank(1) <= Rank(n) /\ Rank(n) <= Rank(N) /\ Rank(n) \in Nat /\ Rank(1) = 1
    <3>1. Rank(1) <= Rank(n)
      BY <2>1, RankMonotone
    <3>2. Rank(n) <= Rank(N)
      BY <1>1, <2>1, RankMonotone
    <3>3. Rank(n) \in Nat /\ Rank(1) = 1
      BY <1>1, <2>1, RankIs
    <3> QED
      BY <3>1, <3>2, <3>3
  <2>3. Rank(n) \in Segs
    BY <1>1, <2>2
  <2> QED
    BY <2>3, PartitionIs
<1>3. \A s \in Segs : NodesOf(s) = {n \in DOMAIN Nodes : Rank(n) = s}
  BY PartitionIs
<1>4. ASSUME NEW s \in Segs, NEW r \in Segs, NEW m \in DOMAIN Nodes, NEW n \in DOMAIN Nodes,
             m \in NodesOf(s), n \in NodesOf(r), m <= n
      PROVE  s <= r
  <2>1. m \in Nat /\ n \in Nat /\ 1 <= m
    BY <1>1
  <2>2. Rank(m) <= Rank(n)
    BY <1>4, <2>1, RankMonotone
  <2> QED
    BY <1>3, <1>4, <2>2
<1>5. ASSUME NEW s \in Segs, NEW r \in Segs, s <= r PROVE segs[s].of <= segs[r].of
  <2>1. /\ FirstOf(s) \in DOMAIN Nodes /\ FirstOf(s) \in NodesOf(s) /\ Nodes[FirstOf(s)].of = segs[s].of
        /\ FirstOf(r) \in DOMAIN Nodes /\ FirstOf(r) \in NodesOf(r) /\ Nodes[FirstOf(r)].of = segs[r].of
        /\ s \in Nat /\ r \in Nat /\ segs[s].of \in Int /\ segs[r].of \in Int
    <3>1. \A q \in Segs : FirstOf(q) \in DOMAIN Nodes /\ FirstOf(q) \in NodesOf(q)
      <4> SUFFICES ASSUME NEW q \in Segs PROVE FirstOf(q) \in DOMAIN Nodes /\ FirstOf(q) \in NodesOf(q)
        OBVIOUS
      <4>1. /\ FirstOf(q) \in DOMAIN Nodes /\ LastOf(q) \in DOMAIN Nodes /\ FirstOf(q) <= LastOf(q)
            /\ NodesOf(q) = FirstOf(q) .. LastOf(q)
        BY SegmentIs
      <4> QED
        BY <1>1, <4>1
    <3> QED
      BY <3>1, SegmentIs
  <2>2. CASE s = r
    BY <2>1, <2>2
  <2>3. CASE s # r
    <3>1. ~(FirstOf(r) <= FirstOf(s))
      BY <1>4, <1>5, <2>1, <2>3
    <3>2. FirstOf(s) \in 1 .. FirstOf(r)
      BY <1>1, <2>1, <3>1
    <3> QED
      BY <2>1, <3>2, GraphIs
  <2> QED
    BY <2>2, <2>3
<1> QED
  BY <1>2, <1>3, <1>4, <1>5

\* The segments of a bucket lie side by side.
LEMMA BucketInterval ==
  ASSUME StaticInv, NEW b, NEW s \in SegsOf(b), NEW r \in SegsOf(b), NEW q \in Nat, s <= q, q <= r
  PROVE  q \in SegsOf(b)
<1>1. s \in Segs /\ r \in Segs /\ segs[s].of = b /\ segs[r].of = b
  BY DEF SegsOf
<1>2. q \in Segs
  <2>1. Segs = 1 .. Rank(Len(Nodes)) /\ Len(Nodes) \in Nat
    BY PartitionIs, GraphIs
  <2>2. Rank(Len(Nodes)) \in Nat
    BY <2>1, RankIs
  <2> QED
    BY <1>1, <2>1, <2>2
<1>3. segs[s].of <= segs[q].of /\ segs[q].of <= segs[r].of
  BY <1>1, <1>2, SegmentsInOrder
<1>4. segs[q].of = b
  BY <1>1, <1>2, <1>3, SegmentIs
<1> QED
  BY <1>2, <1>4 DEF SegsOf

-----------------------------------------------------------------------------
\* What the segments read and write.

\* Supported, for the plan the session has.
LEMMA SupportedIs ==
  ASSUME StaticInv, AllSupported
  PROVE  /\ \A s \in Segs : BoundaryIns(s) \subseteq GraphInputs \cup UNION {BoundaryOuts(r) : r \in Segs}
         /\ FdTensors # {} => OnGpu
         /\ \A s \in Segs : Dev(s) = "cpu" => FdTensors \cap (BoundaryIns(s) \cup BoundaryOuts(s)) = {}
         /\ \A s \in Segs : (RowSets \cup (ArgMaxable \cap Flat)) \cap BoundaryIns(s) = {}
         /\ \A s \in Segs : Dev(s) = "cpu" => Flat \cap Fp16 \cap BoundaryIns(s) = {}
         /\ RowSets \cap FdTensors = {}
         /\ \A l \in Links : LateLinks => OnGpu /\ l[1] \notin FdTensors
         /\ OnGpu => ArgMaxable \cap ({l[1] : l \in Links} \cup FdTensors) \subseteq Flat
         /\ \A o, t \in ArgMaxable : OutputDesc[o].name = OutputDesc[t].name => o = t
<1>1. Supported(Plans[plan]) /\ segs = Partition(Plans[plan])
  BY DEF StaticInv, AllSupported, Range
<1> QED
  BY <1>1
  DEF Supported, Segs, BoundaryIns, BoundaryOuts, Dev, GraphInputs, InputDesc, OutputDesc, FdTensors, OnGpu, RowSets,
      ArgMaxable, Flat, Fp16, LateLinks, Links

\* A tensor is written by one node.
LEMMA OneWriter ==
  ASSUME StaticInv, NEW m \in DOMAIN Nodes, NEW n \in DOMAIN Nodes, NEW t, t \in Nodes[m].outs, t \in Nodes[n].outs
  PROVE  m = n
<1>1. DOMAIN Nodes = 1 .. Len(Nodes) /\ Len(Nodes) \in Nat
  BY GraphIs
<1>2. ~(m < n)
  <2> SUFFICES ASSUME m < n PROVE FALSE
    OBVIOUS
  <2>1. m \in 1 .. n - 1
    BY <1>1
  <2>2. Nodes[m].outs \cap Nodes[n].outs = {}
    BY <2>1, GraphIs
  <2> QED
    BY <2>2
<1>3. ~(n < m)
  <2> SUFFICES ASSUME n < m PROVE FALSE
    OBVIOUS
  <2>1. n \in 1 .. m - 1
    BY <1>1
  <2>2. Nodes[n].outs \cap Nodes[m].outs = {}
    BY <2>1, GraphIs
  <2> QED
    BY <2>2
<1> QED
  BY <1>1, <1>2, <1>3

\* The tensors a segment leaves for others: its own, of its bucket.
LEMMA OutsAre ==
  ASSUME StaticInv, NEW s \in Segs, NEW t \in BoundaryOuts(s)
  PROVE  /\ t \in Tensors /\ t \notin GraphInputs /\ t \notin BoundaryIns(s)
         /\ \E n \in NodesOf(s) : t \in Nodes[n].outs
         /\ \A r \in Segs : t \in BoundaryOuts(r) => r = s
         /\ \A n \in DOMAIN Nodes : t \in Nodes[n].outs => n \in NodesOf(s)
         /\ t \in GraphOutputs => OutputDesc[t].of = segs[s].of
<1>1. PICK n \in NodesOf(s) : t \in Nodes[n].outs
  BY PartitionIs
<1>2. n \in DOMAIN Nodes /\ Nodes[n].of = segs[s].of
  BY SegmentIs
<1>3. t \in Tensors /\ t \notin GraphInputs
  BY <1>1, <1>2, GraphIs DEF Tensors
<1>4. t \notin BoundaryIns(s)
  BY <1>1, PartitionIs
<1>5. ASSUME NEW m \in DOMAIN Nodes, t \in Nodes[m].outs PROVE m = n
  BY <1>1, <1>2, <1>5, OneWriter
<1>6. ASSUME NEW r \in Segs, t \in BoundaryOuts(r) PROVE r = s
  <2>1. PICK m \in NodesOf(r) : t \in Nodes[m].outs
    BY <1>6, PartitionIs
  <2>2. m \in DOMAIN Nodes
    BY SegmentIs
  <2>3. m = n
    BY <1>5, <2>1, <2>2
  <2> QED
    BY <1>1, <2>1, <2>3, SegmentsInOrder
<1>7. ASSUME t \in GraphOutputs PROVE OutputDesc[t].of = segs[s].of
  <2>1. PICK m \in DOMAIN Nodes : t \in Nodes[m].outs /\ Nodes[m].of = OutputDesc[t].of
    BY <1>7, GraphIs
  <2>2. m = n
    BY <1>5, <2>1
  <2> QED
    BY <1>2, <2>1, <2>2
<1> QED
  BY <1>1, <1>3, <1>4, <1>5, <1>6, <1>7

\* Some segment of its bucket writes each graph output.
LEMMA OutputWritten ==
  ASSUME StaticInv, NEW o \in GraphOutputs
  PROVE  \E s \in SegsOf(OutputDesc[o].of) : o \in BoundaryOuts(s)
<1>1. PICK n \in DOMAIN Nodes : o \in Nodes[n].outs /\ Nodes[n].of = OutputDesc[o].of
  BY GraphIs
<1> DEFINE s == Rank(n)
<1>2. s \in Segs /\ n \in NodesOf(s)
  BY SegmentsInOrder
<1> HIDE DEF s
<1>3. o \in BoundaryOuts(s)
  BY <1>1, <1>2, PartitionIs
<1>4. segs[s].of = OutputDesc[o].of
  BY <1>1, <1>2, SegmentIs
<1> QED
  BY <1>2, <1>3, <1>4 DEF SegsOf

\* What a segment reads is an input of its bucket, or was left by an earlier segment of it.
LEMMA InsAre ==
  ASSUME StaticInv, AllSupported, NEW s \in Segs, NEW t \in BoundaryIns(s)
  PROVE  /\ t \in Tensors
         /\ t \in GraphInputs => InputDesc[t].of = segs[s].of
         /\ t \notin GraphInputs => \E r \in SegsOf(segs[s].of) : r < s /\ t \in BoundaryOuts(r)
<1>1. PICK n \in NodesOf(s) : t \in Reads(n)
  BY PartitionIs
<1>2. \A m \in NodesOf(s) : t \notin Nodes[m].outs
  BY PartitionIs
<1>3. n \in DOMAIN Nodes /\ Nodes[n].of = segs[s].of /\ DOMAIN Nodes = 1 .. Len(Nodes) /\ Len(Nodes) \in Nat
  BY SegmentIs, GraphIs
<1>4. CASE t \in InputsOf(Nodes[n].of)
  BY <1>3, <1>4 DEF InputsOf, Tensors
<1>5. CASE t \notin InputsOf(Nodes[n].of)
  <2>1. t \in UNION {Nodes[m].outs : m \in {k \in 1 .. n - 1 : Nodes[k].of = Nodes[n].of}}
    <3>1. Reads(n) \subseteq InputsOf(Nodes[n].of)
            \cup UNION {Nodes[m].outs : m \in {k \in 1 .. n - 1 : Nodes[k].of = Nodes[n].of}}
      BY <1>3, GraphIs
    <3> QED
      BY <1>1, <1>5, <3>1
  <2>2. PICK m \in 1 .. n - 1 : t \in Nodes[m].outs /\ Nodes[m].of = Nodes[n].of
    BY <2>1
  <2>3. m \in DOMAIN Nodes /\ m <= n
    BY <1>3
  <2> DEFINE r == Rank(m)
  <2>4. r \in Segs /\ m \in NodesOf(r)
    BY <2>3, SegmentsInOrder
  <2> HIDE DEF r
  <2>5. r <= s /\ r # s
    BY <1>2, <1>3, <2>2, <2>3, <2>4, SegmentsInOrder
  <2>6. r < s
    BY <2>4, <2>5, SegmentIs
  <2>7. r \in SegsOf(segs[s].of)
    BY <1>3, <2>2, <2>4, SegmentIs DEF SegsOf
  <2>8. t \in Tensors /\ t \notin GraphInputs
    BY <2>2, <2>3, GraphIs DEF Tensors
  <2>9. PICK q \in Segs : t \in BoundaryOuts(q)
    BY <2>8, SupportedIs
  <2>10. m \in NodesOf(q)
    BY <2>2, <2>3, <2>9, OutsAre
  <2>11. q = r
    BY <2>4, <2>10, SegmentsInOrder
  <2> QED
    BY <2>6, <2>7, <2>8, <2>9, <2>11
<1> QED
  BY <1>4, <1>5

\* A link's owner is one Vulkan segment of its bucket, and no other touches either end.
LEMMA OwnersAre ==
  ASSUME StaticInv, AllSupported, NEW l \in Links, NEW s \in LinkOwners(l)
  PROVE  /\ s \in Segs /\ Dev(s) = "gpu" /\ OnGpu /\ segs[s].of = OfLink(l)
         /\ l[1] \in BoundaryOuts(s) /\ l[2] \in BoundaryIns(s)
         /\ \A r \in Segs : l[1] \notin BoundaryIns(r) /\ (l[2] \in BoundaryIns(r) => r = s)
<1>1. /\ s \in Segs /\ Dev(s) = "gpu" /\ l[1] \in BoundaryOuts(s) /\ l[2] \in BoundaryIns(s)
      /\ \A n \in DOMAIN Nodes \ NodesOf(s) : l[1] \notin Reads(n) /\ l[2] \notin Reads(n)
  BY DEF LinkOwners
<1>2. OnGpu
  BY <1>1, SegmentIs
<1>3. l[2] \in GraphInputs
  BY GraphIs
<1>4. segs[s].of = OfLink(l)
  BY <1>1, <1>3, InsAre DEF OfLink
<1>5. ASSUME NEW r \in Segs PROVE l[1] \notin BoundaryIns(r) /\ (l[2] \in BoundaryIns(r) => r = s)
  <2>1. CASE r = s
    BY <1>1, <2>1, OutsAre
  <2>2. CASE r # s
    <3> SUFFICES ASSUME NEW t \in {l[1], l[2]}, t \in BoundaryIns(r) PROVE FALSE
      OBVIOUS
    <3>1. PICK n \in NodesOf(r) : t \in Reads(n)
      BY PartitionIs
    <3>2. n \in DOMAIN Nodes /\ n \notin NodesOf(s)
      BY <1>1, <2>2, SegmentIs, SegmentsInOrder
    <3> QED
      BY <1>1, <3>1, <3>2
  <2> QED
    BY <2>1, <2>2
<1> QED
  BY <1>1, <1>2, <1>4, <1>5

-----------------------------------------------------------------------------
\* Evaluation.

\* Node k on env, and the definition of Eval's function.
Apply(k, env) == [t \in Tensors |-> IF t \in Nodes[k].outs THEN <<t, [i \in Reads(k) |-> env[i]]>> ELSE env[t]]
EvalBody(after, first, env, k) == IF k = first - 1 THEN env ELSE Apply(k, after[k - 1])
IsEval(after, first, last, env) == after = [k \in first - 1 .. last |-> EvalBody(after, first, env, k)]

\* The function that Eval chooses exists.
LEMMA EvalExists ==
  ASSUME NEW first \in Nat \ {0}, NEW last \in Nat, first - 1 <= last, NEW env
  PROVE  \E after : IsEval(after, first, last, env)
<1> DEFINE Exists(m) == \E after : after = [k \in first - 1 .. m |-> EvalBody(after, first, env, k)]
           T == {m \in Nat : first - 1 <= m /\ ~Exists(m)}
<1>0. first - 1 \in Nat
  OBVIOUS
<1>1. ASSUME NEW m \in T, \A y \in T : m <= y
      PROVE  FALSE
  <2>0. m \in Nat /\ first - 1 <= m /\ ~Exists(m)
    OBVIOUS
  <2>1. CASE m = first - 1
    <3> DEFINE after == [k \in first - 1 .. m |-> env]
    <3>1. \A k \in first - 1 .. m : env = EvalBody(after, first, env, k)
      <4> SUFFICES ASSUME NEW k \in first - 1 .. m PROVE env = EvalBody(after, first, env, k)
        OBVIOUS
      <4>1. k = first - 1
        BY <1>0, <2>1
      <4> QED
        BY <4>1, Zenon DEF EvalBody
    <3>2. [k \in first - 1 .. m |-> env] = [k \in first - 1 .. m |-> EvalBody(after, first, env, k)]
      <4> HIDE DEF after
      <4> QED
        BY <3>1
    <3>3. after = [k \in first - 1 .. m |-> EvalBody(after, first, env, k)]
      BY <3>2, Zenon
    <3> QED
      BY <2>0, <3>3, Zenon
  <2>2. CASE m # first - 1
    <3>1. m - 1 \in Nat /\ first - 1 <= m - 1 /\ m - 1 \notin T
      BY <1>0, <1>1, <2>0, <2>2
    <3>2. Exists(m - 1)
      BY <3>1
    <3>3. PICK before : before = [k \in first - 1 .. m - 1 |-> EvalBody(before, first, env, k)]
      BY <3>2
    <3> DEFINE body(k) == EvalBody(before, first, env, k)
               after == [k \in first - 1 .. m |-> IF k < m THEN before[k] ELSE body(m)]
    <3>4. before = [k \in first - 1 .. m - 1 |-> body(k)]
      BY <3>3
    <3>5. \A k \in first - 1 .. m - 1 : before[k] = body(k)
      <4> HIDE DEF body
      <4> QED
        BY <3>4
    <3>6. ASSUME NEW k \in first - 1 .. m
          PROVE  (IF k < m THEN before[k] ELSE body(m)) = EvalBody(after, first, env, k)
      <4>1. k \in Int /\ first - 1 <= k /\ k <= m
        BY <1>0, <2>0
      <4>2. (IF k < m THEN before[k] ELSE body(m)) = body(k)
        <5>1. CASE k < m
          <6>1. k \in first - 1 .. m - 1
            BY <1>0, <2>0, <4>1, <5>1
          <6> HIDE DEF body
          <6> QED
            BY <3>5, <5>1, <6>1
        <5>2. CASE ~(k < m)
          <6>1. k = m
            BY <2>0, <4>1, <5>2
          <6> HIDE DEF body
          <6> QED
            BY <5>2, <6>1
        <5> QED
          BY <5>1, <5>2
      <4>3. CASE k = first - 1
        <5>1. body(k) = env /\ EvalBody(after, first, env, k) = env
          <6> HIDE DEF after
          <6> QED
            BY <4>3 DEF EvalBody
        <5> QED
          BY <4>2, <5>1, Zenon
      <4>4. CASE k # first - 1
        <5>1. k - 1 \in first - 1 .. m /\ k - 1 < m
          BY <1>0, <2>0, <4>1, <4>4
        <5>2. after[k - 1] = before[k - 1]
          <6> HIDE DEF body
          <6> QED
            BY <5>1
        <5>3. body(k) = EvalBody(after, first, env, k)
          <6> HIDE DEF after
          <6> QED
            BY <5>2 DEF EvalBody
        <5> QED
          BY <4>2, <5>3, Zenon
      <4> QED
        BY <4>3, <4>4
    <3>7. [k \in first - 1 .. m |-> IF k < m THEN before[k] ELSE body(m)]
            = [k \in first - 1 .. m |-> EvalBody(after, first, env, k)]
      <4> HIDE DEF after, body
      <4> QED
        BY <3>6
    <3>8. after = [k \in first - 1 .. m |-> EvalBody(after, first, env, k)]
      BY <3>7, Zenon
    <3> QED
      BY <2>0, <3>8, Zenon
  <2> QED
    BY <2>1, <2>2
<1>2. T = {}
  <2>1. T \subseteq Nat
    OBVIOUS
  <2> HIDE DEF T
  <2> QED
    BY <1>1, <2>1, LeastNat
<1>3. \E after : after = [k \in first - 1 .. last |-> EvalBody(after, first, env, k)]
  BY <1>2
<1> QED
  BY <1>3, Zenon DEF IsEval

\* Eval applies its nodes one after the other.
LEMMA EvalIs ==
  ASSUME NEW first \in Nat \ {0}, NEW last \in Nat, first - 1 <= last, NEW env
  PROVE  \E after : /\ after[first - 1] = env /\ \A k \in first .. last : after[k] = Apply(k, after[k - 1])
                    /\ Eval(first, last, env) = after[last]
<1> DEFINE after == CHOOSE f : IsEval(f, first, last, env)
<1>1. after = [k \in first - 1 .. last |-> EvalBody(after, first, env, k)]
  <2>1. \E f : IsEval(f, first, last, env)
    BY EvalExists
  <2>2. IsEval(after, first, last, env)
    BY <2>1, Zenon
  <2> HIDE DEF after
  <2> QED
    BY <2>2 DEF IsEval
<1>2. Eval(first, last, env) = after[last]
  BY DEF Eval, EvalBody, Apply, IsEval
<1> DEFINE body(k) == EvalBody(after, first, env, k)
<1>3. after = [k \in first - 1 .. last |-> body(k)]
  BY <1>1, Zenon
<1>4. \A k \in first - 1 .. last : after[k] = body(k)
  <2> HIDE DEF after, body
  <2> QED
    BY <1>3
<1> HIDE DEF after
<1>5. first - 1 \in first - 1 .. last /\ \A k \in first .. last : k \in first - 1 .. last /\ k # first - 1
  OBVIOUS
<1>6. after[first - 1] = env
  <2>1. after[first - 1] = body(first - 1)
    BY <1>4, <1>5, Zenon
  <2> QED
    BY <2>1, Zenon DEF EvalBody
<1>7. ASSUME NEW k \in first .. last PROVE after[k] = Apply(k, after[k - 1])
  <2>1. after[k] = body(k) /\ k # first - 1
    BY <1>4, <1>5, Zenon
  <2> QED
    BY <2>1, Zenon DEF EvalBody
<1> QED
  BY <1>2, <1>6, <1>7, Zenon

Evaluates(after, first, last, env) ==
  after[first - 1] = env /\ \A k \in first .. last : after[k] = Apply(k, after[k - 1])

\* A tensor keeps its value over the nodes that do not write it.
LEMMA Unwritten ==
  ASSUME NEW first \in Nat \ {0}, NEW last \in Nat, NEW env, NEW after, Evaluates(after, first, last, env),
         NEW j \in first - 1 .. last, NEW t \in Tensors
  PROVE  \A m \in j .. last : (\A k \in j + 1 .. m : t \notin Nodes[k].outs) => after[m][t] = after[j][t]
<1> DEFINE Bad(m) == m \in j .. last /\ (\A k \in j + 1 .. m : t \notin Nodes[k].outs) /\ after[m][t] # after[j][t]
           T == {m \in Nat : Bad(m)}
<1>0. j \in Nat
  OBVIOUS
<1>1. ASSUME NEW m \in T, \A y \in T : m <= y
      PROVE  FALSE
  <2>1. m \in Nat /\ j <= m /\ m <= last /\ after[m][t] # after[j][t] /\ \A k \in j + 1 .. m : t \notin Nodes[k].outs
    BY <1>0
  <2>2. m # j
    BY <2>1
  <2>3. m - 1 \in Nat /\ m - 1 \in j .. last /\ m \in first .. last /\ m \in j + 1 .. m /\ m - 1 \notin T
    BY <1>0, <1>1, <2>1, <2>2
  <2>4. \A k \in j + 1 .. m - 1 : k \in j + 1 .. m
    BY <1>0, <2>1
  <2>5. after[m - 1][t] = after[j][t]
    BY <2>1, <2>3, <2>4
  <2>6. after[m] = Apply(m, after[m - 1])
    BY <2>3 DEF Evaluates
  <2>7. after[m][t] = after[m - 1][t]
    BY <2>1, <2>3, <2>6 DEF Apply
  <2> QED
    BY <2>1, <2>5, <2>7
<1>2. T = {}
  <2>1. T \subseteq Nat
    OBVIOUS
  <2> HIDE DEF T
  <2> QED
    BY <1>1, <2>1, LeastNat
<1>3. ASSUME NEW m \in j .. last, \A k \in j + 1 .. m : t \notin Nodes[k].outs PROVE after[m][t] = after[j][t]
  <2>1. m \in Nat /\ m \notin T
    BY <1>0, <1>2
  <2> QED
    BY <1>3, <2>1
<1> QED
  BY <1>3

\* What a node reads, no later node writes.
LEMMA ReadsAre ==
  ASSUME StaticInv, NEW n \in DOMAIN Nodes, NEW i \in Reads(n)
  PROVE  i \in Tensors /\ \A k \in DOMAIN Nodes : i \in Nodes[k].outs => k < n
<1>1. DOMAIN Nodes = 1 .. Len(Nodes) /\ Len(Nodes) \in Nat
  BY GraphIs
<1>2. i \in InputsOf(Nodes[n].of) \/ \E m \in 1 .. n - 1 : i \in Nodes[m].outs
  <2>1. Reads(n) \subseteq InputsOf(Nodes[n].of)
          \cup UNION {Nodes[m].outs : m \in {k \in 1 .. n - 1 : Nodes[k].of = Nodes[n].of}}
    BY GraphIs
  <2> QED
    BY <2>1
<1>3. CASE i \in InputsOf(Nodes[n].of)
  <2>1. i \in GraphInputs
    BY <1>3 DEF InputsOf
  <2> QED
    BY <2>1, GraphIs DEF Tensors
<1>4. ASSUME NEW m \in 1 .. n - 1, i \in Nodes[m].outs
      PROVE  i \in Tensors /\ \A k \in DOMAIN Nodes : i \in Nodes[k].outs => k < n
  <2>1. m \in DOMAIN Nodes /\ m < n
    BY <1>1
  <2>2. \A k \in DOMAIN Nodes : i \in Nodes[k].outs => k = m
    BY <1>4, <2>1, OneWriter
  <2> QED
    BY <1>4, <2>1, <2>2 DEF Tensors
<1> QED
  BY <1>2, <1>3, <1>4

\* An input's current value is what it holds; a node's output is its term.
LEMMA CurrentIs ==
  ASSUME StaticInv
  PROVE  /\ \A i \in GraphInputs : Current[i] = want[i]
         /\ \A n \in DOMAIN Nodes : \A t \in Nodes[n].outs : Current[t] = <<t, [i \in Reads(n) |-> Current[i]]>>
<1> DEFINE N == Len(Nodes)
           env == [t \in Tensors |-> IF t \in GraphInputs THEN want[t] ELSE None]
<1>1. N \in Nat /\ DOMAIN Nodes = 1 .. N
  BY GraphIs
<1>2. PICK after : /\ after[1 - 1] = env /\ \A k \in 1 .. N : after[k] = Apply(k, after[k - 1])
                   /\ Eval(1, N, env) = after[N]
  <2>1. 1 \in Nat \ {0} /\ 1 - 1 <= N
    BY <1>1
  <2> HIDE DEF env, N
  <2> QED
    BY <1>1, <2>1, EvalIs
<1>3. Evaluates(after, 1, N, env)
  BY <1>2, Zenon DEF Evaluates
<1>4. Current = after[N]
  BY <1>2 DEF Current
<1> HIDE DEF env, N
<1>5. ASSUME NEW j \in 0 .. N, NEW t \in Tensors, \A k \in j + 1 .. N : t \notin Nodes[k].outs
      PROVE  Current[t] = after[j][t]
  <2>1. 1 \in Nat \ {0} /\ j \in 1 - 1 .. N /\ N \in j .. N
    BY <1>1
  <2>2. \A m \in j .. N : (\A k \in j + 1 .. m : t \notin Nodes[k].outs) => after[m][t] = after[j][t]
    BY <1>1, <1>3, <2>1, Unwritten
  <2>3. after[N][t] = after[j][t]
    BY <1>5, <2>1, <2>2
  <2> QED
    BY <1>4, <2>3
<1>6. ASSUME NEW i \in GraphInputs PROVE Current[i] = want[i]
  <2>1. i \in Tensors /\ 0 \in 0 .. N /\ 1 - 1 = 0
    BY <1>1 DEF Tensors
  <2>2. \A k \in 0 + 1 .. N : i \notin Nodes[k].outs
    <3>1. \A k \in DOMAIN Nodes : Nodes[k].outs \cap GraphInputs = {}
      BY GraphIs
    <3> QED
      BY <1>1, <3>1
  <2>3. Current[i] = after[0][i]
    BY <1>5, <2>1, <2>2
  <2>4. after[0] = env
    BY <1>2, <2>1
  <2>5. after[0][i] = want[i]
    BY <2>1, <2>4 DEF env
  <2> QED
    BY <2>3, <2>5
<1>7. ASSUME NEW n \in DOMAIN Nodes, NEW t \in Nodes[n].outs
      PROVE  Current[t] = <<t, [i \in Reads(n) |-> Current[i]]>>
  <2>1. n \in 1 .. N /\ n - 1 \in 0 .. N /\ n \in 0 .. N
    BY <1>1
  <2>2. t \in Tensors
    BY DEF Tensors
  <2>3. after[n] = Apply(n, after[n - 1])
    BY <1>2, <2>1
  <2>4. after[n][t] = <<t, [i \in Reads(n) |-> after[n - 1][i]]>>
    BY <2>2, <2>3 DEF Apply
  <2>5. ASSUME NEW i \in Reads(n) PROVE Current[i] = after[n - 1][i]
    <3>1. i \in Tensors /\ \A k \in DOMAIN Nodes : i \in Nodes[k].outs => k < n
      BY ReadsAre
    <3>2. \A k \in (n - 1) + 1 .. N : k \in DOMAIN Nodes /\ ~(k < n)
      BY <1>1, <2>1
    <3>3. \A k \in (n - 1) + 1 .. N : i \notin Nodes[k].outs
      BY <3>1, <3>2
    <3> QED
      BY <1>5, <2>1, <3>1, <3>3
  <2>6. \A k \in n + 1 .. N : t \notin Nodes[k].outs
    <3> SUFFICES ASSUME NEW k \in n + 1 .. N, t \in Nodes[k].outs PROVE FALSE
      OBVIOUS
    <3>1. k \in DOMAIN Nodes /\ k # n
      BY <1>1, <2>1
    <3> QED
      BY <3>1, OneWriter
  <2>7. Current[t] = after[n][t]
    BY <1>5, <2>1, <2>2, <2>6
  <2>8. [i \in Reads(n) |-> after[n - 1][i]] = [i \in Reads(n) |-> Current[i]]
    BY <2>5
  <2> QED
    BY <2>4, <2>7, <2>8
<1> QED
  BY <1>6, <1>7

\* A segment that reads current values computes current values.
LEMMA SegmentComputes ==
  ASSUME StaticInv, NEW s \in Segs, NEW env, \A t \in BoundaryIns(s) : env[t] = Current[t]
  PROVE  \A t \in BoundaryOuts(s) : Eval(FirstOf(s), LastOf(s), env)[t] = Current[t]
<1> DEFINE first == FirstOf(s)
           last == LastOf(s)
<1>1. /\ DOMAIN Nodes = 1 .. Len(Nodes) /\ Len(Nodes) \in Nat
      /\ first \in Nat \ {0} /\ last \in Nat /\ first - 1 <= last /\ first <= last /\ last <= Len(Nodes)
      /\ NodesOf(s) = first .. last
  <2>1. /\ DOMAIN Nodes = 1 .. Len(Nodes) /\ Len(Nodes) \in Nat /\ NodesOf(s) = first .. last
        /\ first \in DOMAIN Nodes /\ last \in DOMAIN Nodes /\ first <= last
    BY GraphIs, SegmentIs
  <2> HIDE DEF first, last
  <2> QED
    BY <2>1
<1> HIDE DEF first, last
<1>2. PICK after : /\ after[first - 1] = env /\ \A k \in first .. last : after[k] = Apply(k, after[k - 1])
                   /\ Eval(first, last, env) = after[last]
  <2>1. first \in Nat \ {0} /\ last \in Nat /\ first - 1 <= last
    BY <1>1
  <2> QED
    BY <2>1, EvalIs
<1>3. Evaluates(after, first, last, env)
  BY <1>2, Zenon DEF Evaluates
<1>4. \A t \in BoundaryIns(s) : \A k \in first .. last : t \notin Nodes[k].outs
  BY <1>1, PartitionIs
<1>5. \A t \in BoundaryIns(s) : \E n \in NodesOf(s) : t \in Reads(n)
  BY PartitionIs
<1>6. ASSUME NEW t \in BoundaryIns(s), NEW m \in first - 1 .. last PROVE after[m][t] = Current[t]
  <2>1. PICK n \in NodesOf(s) : t \in Reads(n)
    BY <1>5
  <2>2. t \in Tensors
    BY <2>1, ReadsAre, SegmentIs
  <2>3. first - 1 \in first - 1 .. last /\ \A k \in (first - 1) + 1 .. m : k \in first .. last
    BY <1>1
  <2>4. \A j \in first - 1 .. last :
          (\A k \in (first - 1) + 1 .. j : t \notin Nodes[k].outs) => after[j][t] = after[first - 1][t]
    BY <1>1, <1>3, <2>2, <2>3, Unwritten
  <2>5. after[m][t] = after[first - 1][t]
    BY <1>4, <2>3, <2>4
  <2> QED
    BY <1>2, <2>5
<1> DEFINE Good(n) == \A t \in Nodes[n].outs : \A m \in n .. last : after[m][t] = Current[t]
           T == {n \in Nat : n \in first .. last /\ ~Good(n)}
<1>7. ASSUME NEW n \in T, \A y \in T : n <= y
      PROVE  FALSE
  <2>1. n \in first .. last /\ n \in Nat /\ n \in DOMAIN Nodes /\ n - 1 \in first - 1 .. last
    BY <1>1
  <2>2. ASSUME NEW i \in Reads(n) PROVE after[n - 1][i] = Current[i]
    <3>1. i \in Tensors /\ \A k \in DOMAIN Nodes : i \in Nodes[k].outs => k < n
      BY <2>1, ReadsAre
    <3>2. CASE \E k \in first .. last : i \in Nodes[k].outs
      <4>1. PICK k \in first .. last : i \in Nodes[k].outs
        BY <3>2
      <4>2. k \in Nat /\ k \in DOMAIN Nodes /\ k < n
        BY <1>1, <3>1, <4>1
      <4>3. k \notin T /\ n - 1 \in k .. last
        BY <1>7, <2>1, <4>2
      <4> QED
        BY <4>1, <4>2, <4>3
    <3>3. CASE ~ \E k \in first .. last : i \in Nodes[k].outs
      <4>1. i \in BoundaryIns(s)
        BY <1>1, <2>1, <3>3, PartitionIs
      <4> QED
        BY <1>6, <2>1, <4>1
    <3> QED
      BY <3>2, <3>3
  <2>3. ASSUME NEW t \in Nodes[n].outs, NEW m \in n .. last PROVE after[m][t] = Current[t]
    <3>1. t \in Tensors
      BY <2>1 DEF Tensors
    <3>2. after[n] = Apply(n, after[n - 1])
      BY <1>2, <2>1
    <3>3. after[n][t] = <<t, [i \in Reads(n) |-> after[n - 1][i]]>>
      BY <3>1, <3>2 DEF Apply
    <3>4. [i \in Reads(n) |-> after[n - 1][i]] = [i \in Reads(n) |-> Current[i]]
      BY <2>2
    <3>5. after[n][t] = Current[t]
      BY <2>1, <3>3, <3>4, CurrentIs
    <3>6. \A k \in n + 1 .. m : t \notin Nodes[k].outs
      <4> SUFFICES ASSUME NEW k \in n + 1 .. m, t \in Nodes[k].outs PROVE FALSE
        OBVIOUS
      <4>1. k \in DOMAIN Nodes /\ k # n
        BY <1>1, <2>1
      <4> QED
        BY <2>1, <4>1, OneWriter
    <3>7. n \in first - 1 .. last
      BY <1>1, <2>1
    <3>8. \A j \in n .. last : (\A k \in n + 1 .. j : t \notin Nodes[k].outs) => after[j][t] = after[n][t]
      BY <1>1, <1>3, <3>1, <3>7, Unwritten
    <3> QED
      BY <3>5, <3>6, <3>8
  <2> QED
    BY <2>3
<1>8. T = {}
  <2>1. T \subseteq Nat
    OBVIOUS
  <2> HIDE DEF T
  <2> QED
    BY <1>7, <2>1, LeastNat
<1>9. ASSUME NEW t \in BoundaryOuts(s) PROVE after[last][t] = Current[t]
  <2>1. PICK n \in NodesOf(s) : t \in Nodes[n].outs
    BY OutsAre
  <2>2. n \in Nat /\ n \in first .. last /\ last \in n .. last /\ n \notin T
    BY <1>1, <1>8, <2>1
  <2>3. Good(n)
    BY <2>2
  <2> QED
    BY <2>1, <2>2, <2>3
<1> QED
  BY <1>2, <1>9 DEF first, last

\* A graph output's value is a node's.
LEMMA OutputIsMade ==
  ASSUME StaticInv, \A t, v : None # <<t, v>>, NEW o \in GraphOutputs
  PROVE  Current[o] # None
<1>1. PICK n \in DOMAIN Nodes : o \in Nodes[n].outs
  BY GraphIs
<1>2. Current[o] = <<o, [i \in Reads(n) |-> Current[i]]>>
  BY <1>1, CurrentIs
<1> QED
  BY <1>2

-----------------------------------------------------------------------------
\* The selection of a bucket.

\* An input is the one of its bucket with its name.
LEMMA InputIs ==
  ASSUME StaticInv, NEW b, NEW i \in InputsOf(b)
  PROVE  Input(b, InputDesc[i].name) = i /\ InputDesc[i].name \in NamesOf(b)
<1>1. \A j \in InputsOf(b) : InputDesc[j].name = InputDesc[i].name => j = i
  BY GraphIs DEF InputsOf
<1> QED
  BY <1>1, Zenon DEF Input, NamesOf

\* Two buckets of one shape key are one.
LEMMA KeyIs ==
  ASSUME StaticInv, NEW b \in AllBuckets, NEW c \in AllBuckets, NamesOf(b) = NamesOf(c),
         \A n \in NamesOf(c) : ShapeOf(b, n) = ShapeOf(c, n)
  PROVE  b = c
<1> SUFFICES ASSUME b # c PROVE FALSE
  OBVIOUS
<1>1. PICK i \in InputsOf(b), j \in InputsOf(c) :
        InputDesc[i].name = InputDesc[j].name /\ InputDesc[i].shape # InputDesc[j].shape
  BY GraphIs
<1>2. Input(b, InputDesc[i].name) = i /\ Input(c, InputDesc[j].name) = j /\ InputDesc[j].name \in NamesOf(c)
  BY InputIs
<1>3. ShapeOf(b, InputDesc[i].name) = InputDesc[i].shape /\ ShapeOf(c, InputDesc[j].name) = InputDesc[j].shape
  BY <1>2 DEF ShapeOf
<1> QED
  BY <1>1, <1>2, <1>3

\* A run goes to the bucket it means.
LEMMA SelectedIs ==
  ASSUME StaticInv, ShapeInv, NEW c \in Range(buckets), NEW names, Means(c, names), Selected(c, names) # 0
  PROVE  Selected(c, names) = c
<1>1. /\ Len(buckets) \in Nat /\ DOMAIN buckets = 1 .. Len(buckets)
      /\ c \in AllBuckets /\ \A k \in DOMAIN buckets : buckets[k] \in AllBuckets
  BY DEF ShapeInv, Range
<1>2. CASE Len(buckets) = 1
  <2>1. c = buckets[1]
    BY <1>1, <1>2 DEF Range
  <2> QED
    BY <1>2, <2>1 DEF Selected
<1>3. CASE Len(buckets) # 1
  <2>1. Matches(c, names) # {} /\ Selected(c, names) = buckets[Min(Matches(c, names))]
    BY <1>3 DEF Selected
  <2>2. Matches(c, names) \subseteq DOMAIN buckets
    BY DEF Matches
  <2>3. Matches(c, names) \subseteq Nat
    BY <1>1, <2>2
  <2>4. Min(Matches(c, names)) \in Matches(c, names)
    BY <2>1, <2>3, MinIs
  <2>5. ASSUME NEW k \in Matches(c, names) PROVE buckets[k] = c
    <3> DEFINE b == buckets[k]
    <3>0. b \in AllBuckets /\ k \in DOMAIN buckets /\ b \in Range(buckets)
      BY <1>1, <2>2 DEF Range
    <3>1. CASE bucketsShareInputNames
      <4>1. NamesOf(b) = NamesOf(buckets[1]) /\ NamesOf(c) = NamesOf(buckets[1])
        BY <3>0, <3>1 DEF bucketsShareInputNames
      <4>2. shapeKey(b) = runShapeKey(buckets[1], c, names)
        BY <3>1 DEF Matches
      <4>3. \A n \in NamesOf(c) : ShapeOf(b, n) = ShapeOf(IF n \in names THEN c ELSE buckets[1], n)
        BY <4>1, <4>2 DEF shapeKey, runShapeKey
      <4>4. \A n \in NamesOf(c) \ names : ShapeOf(c, n) = ShapeOf(buckets[1], n)
        BY <1>3, <3>1 DEF Means
      <4>5. \A n \in NamesOf(c) : ShapeOf(b, n) = ShapeOf(c, n)
        BY <4>3, <4>4
      <4> QED
        BY <1>1, <3>0, <4>1, <4>5, KeyIs
    <3>2. CASE ~bucketsShareInputNames
      <4>1. names \subseteq NamesOf(b) /\ shapeKey(b) = runShapeKey(b, c, names)
        BY <3>2 DEF Matches
      <4>2. \A n \in NamesOf(b) : ShapeOf(b, n) = ShapeOf(IF n \in names THEN c ELSE b, n)
        BY <4>1 DEF shapeKey, runShapeKey
      <4>3. \A n \in names : n \in NamesOf(b) /\ ShapeOf(b, n) = ShapeOf(c, n)
        BY <4>1, <4>2
      <4>4. b # c => Differs(c, b, names)
        BY <1>3, <3>0, <3>2 DEF Means
      <4> QED
        BY <4>3, <4>4 DEF Differs
    <3> QED
      BY <3>1, <3>2
  <2> QED
    BY <2>1, <2>4, <2>5
<1> QED
  BY <1>2, <1>3

\* Entries for inputs of a bucket, and that they are the bucket's own.
LEMMA EntriesAre ==
  ASSUME StaticInv, NEW c, NEW bound \in SUBSET InputsOf(c), NEW b \in Entries(bound)
  PROVE  /\ DOMAIN b = bound /\ For(c, b) = b
         /\ HostBound(b) \cup FdBound(b) = bound /\ HostBound(b) \cap FdBound(b) = {}
         /\ FdBound(b) \subseteq FdTensors /\ \A i \in bound : i \in GraphInputs /\ InputDesc[i].of = c
<1>1. b \in [bound -> {"host", "fd"} \X UNION {Values[i] : i \in bound}] /\ DOMAIN b = bound
      /\ \A i \in bound : b[i][1] = "host" \/ i \in FdTensors
  BY DEF Entries
<1>2. \A i \in bound : i \in GraphInputs /\ InputDesc[i].of = c
  BY DEF InputsOf
<1>3. {j \in InputsOf(c) : InputDesc[j].name \in NamesIn(DOMAIN b)} = bound
  <2>1. ASSUME NEW j \in InputsOf(c), InputDesc[j].name \in NamesIn(bound) PROVE j \in bound
    <3>1. PICK i \in bound : InputDesc[i].name = InputDesc[j].name
      BY <2>1 DEF NamesIn
    <3>2. j \in GraphInputs /\ InputDesc[j].of = c
      BY DEF InputsOf
    <3>3. i = j
      BY <1>2, <3>1, <3>2, GraphIs
    <3> QED
      BY <3>3
  <2>2. \A j \in bound : InputDesc[j].name \in NamesIn(bound)
    BY DEF NamesIn
  <2>3. {j \in InputsOf(c) : InputDesc[j].name \in NamesIn(bound)} = bound
    BY <2>1, <2>2, Zenon
  <2> QED
    BY <1>1, <2>3
<1>4. ASSUME NEW i \in bound PROVE (CHOOSE j \in DOMAIN b : InputDesc[j].name = InputDesc[i].name) = i
  <2>0. \A j, k \in GraphInputs :
          InputDesc[j].of = InputDesc[k].of /\ InputDesc[j].name = InputDesc[k].name => j = k
    BY GraphIs
  <2>1. \A j \in DOMAIN b : InputDesc[j].name = InputDesc[i].name => j = i
    BY <1>1, <1>2, <2>0
  <2> QED
    BY <1>1, <2>1
<1>5. For(c, b) = [i \in bound |-> b[CHOOSE j \in DOMAIN b : InputDesc[j].name = InputDesc[i].name]]
  BY <1>3 DEF For
<1>6. For(c, b) = [i \in bound |-> b[i]]
  BY <1>4, <1>5
<1>7. For(c, b) = b
  BY <1>1, <1>6
<1>8. \A i \in bound : b[i][1] \in {"host", "fd"}
  BY <1>1
<1>9. /\ HostBound(b) \cup FdBound(b) = bound /\ HostBound(b) \cap FdBound(b) = {}
      /\ FdBound(b) \subseteq FdTensors
  BY <1>1, <1>8 DEF HostBound, FdBound
<1> QED
  BY <1>1, <1>2, <1>7, <1>9

-----------------------------------------------------------------------------
\* Frames: what a step that leaves its variables alone keeps.

\* The plan is fixed, and all that is made of it.
LEMMA Stable ==
  ASSUME UNCHANGED planVs
  PROVE  /\ Nodes' = Nodes /\ InputDesc' = InputDesc /\ OutputDesc' = OutputDesc /\ OnGpu' = OnGpu
         /\ Links' = Links /\ Slots' = Slots /\ Flat' = Flat /\ Fp16' = Fp16 /\ Other' = Other
         /\ ArgMaxable' = ArgMaxable /\ FdTensors' = FdTensors /\ RowSets' = RowSets /\ MaxThrows' = MaxThrows
         /\ LateLinks' = LateLinks
         /\ GraphInputs' = GraphInputs /\ GraphOutputs' = GraphOutputs /\ Tensors' = Tensors
         /\ AllBuckets' = AllBuckets /\ Segs' = Segs /\ LinkInputs' = LinkInputs /\ segs' = segs
         /\ \A b : InputsOf(b)' = InputsOf(b) /\ OutputsOf(b)' = OutputsOf(b) /\ SegsOf(b)' = SegsOf(b)
         /\ \A s : /\ Dev(s)' = Dev(s) /\ BoundaryIns(s)' = BoundaryIns(s) /\ BoundaryOuts(s)' = BoundaryOuts(s)
                   /\ NodesOf(s)' = NodesOf(s)
         /\ \A l : LinkOwners(l)' = LinkOwners(l) /\ OfLink(l)' = OfLink(l)
         /\ \A t : Zero(t)' = Zero(t)
         /\ want' = want => Current' = Current
<1>1. plan' = plan /\ segs' = segs
  BY DEF planVs
<1>2. /\ Nodes' = Nodes /\ InputDesc' = InputDesc /\ OutputDesc' = OutputDesc /\ OnGpu' = OnGpu
      /\ Links' = Links /\ Slots' = Slots /\ Flat' = Flat /\ Fp16' = Fp16 /\ Other' = Other
      /\ ArgMaxable' = ArgMaxable /\ FdTensors' = FdTensors /\ RowSets' = RowSets /\ MaxThrows' = MaxThrows
      /\ LateLinks' = LateLinks
  BY <1>1 DEF Nodes, InputDesc, OutputDesc, OnGpu, Links, Slots, Flat, Fp16, Other, ArgMaxable, FdTensors, RowSets,
              MaxThrows, LateLinks
<1>3. /\ GraphInputs' = GraphInputs /\ GraphOutputs' = GraphOutputs /\ Tensors' = Tensors
      /\ AllBuckets' = AllBuckets /\ Segs' = Segs /\ LinkInputs' = LinkInputs
  BY <1>1, <1>2 DEF GraphInputs, GraphOutputs, Tensors, AllBuckets, Segs, LinkInputs
<1>4. \A b : InputsOf(b)' = InputsOf(b) /\ OutputsOf(b)' = OutputsOf(b) /\ SegsOf(b)' = SegsOf(b)
  BY <1>1, <1>2, <1>3 DEF InputsOf, OutputsOf, SegsOf
<1>5. \A s : /\ Dev(s)' = Dev(s) /\ BoundaryIns(s)' = BoundaryIns(s) /\ BoundaryOuts(s)' = BoundaryOuts(s)
             /\ NodesOf(s)' = NodesOf(s)
  BY <1>1 DEF Dev, BoundaryIns, BoundaryOuts, NodesOf
<1>6. \A l : LinkOwners(l)' = LinkOwners(l) /\ OfLink(l)' = OfLink(l)
  BY <1>1, <1>2, <1>3, <1>5 DEF LinkOwners, OfLink, Reads
<1>7. \A t : Zero(t)' = Zero(t)
  BY <1>2, <1>3 DEF Zero
<1>8. want' = want => Current' = Current
  BY <1>2, <1>3 DEF Current, Eval, Reads
<1> QED
  BY <1>1, <1>2, <1>3, <1>4, <1>5, <1>6, <1>7, <1>8

\* The copies of tensor t are what they were.
SameRt(t) == /\ rt'[t].host = rt[t].host /\ (rt'[t].hostValid <=> rt[t].hostValid)
             /\ rt'[t].owner = rt[t].owner /\ (rt'[t].deviceValid <=> rt[t].deviceValid)

\* What a segment reads of a tensor stays the same while the tensor's copies do.
LEMMA ViewFrame ==
  ASSUME UNCHANGED planVs, NEW s, NEW t, SameRt(t)
  PROVE  /\ AlreadyHere(s, t)' <=> AlreadyHere(s, t)
         /\ buf'[s][t] = buf[s][t] => View(s, t)' = View(s, t)
  BY DEF SameRt, AlreadyHere, View

\* A link is kept by the segments that keep it.
LEMMA LoneFrame ==
  ASSUME UNCHANGED planVs
  PROVE  \A s, t : (Lone(s, t)' <=> Lone(s, t)) /\ (LoneOut(s, t)' <=> LoneOut(s, t))
  BY Stable DEF Lone, LoneOut

\* A segment that keeps an input is the only one to read it.
LEMMA LoneIs ==
  ASSUME StaticInv, AllSupported, NEW s, NEW i, Lone(s, i)
  PROVE  /\ s \in Segs /\ i \in GraphInputs /\ Dev(s) = "gpu" /\ OnGpu /\ i \in BoundaryIns(s)
         /\ segs[s].of = InputDesc[i].of
         /\ \A r \in Segs : i \in BoundaryIns(r) => r = s
         /\ LinksInv /\ i \in LinkedIns => \A l \in linked : l \in Links /\ l[2] = i => s \in LinkOwners(l)
<1>1. PICK l \in Links : l[2] = i /\ s \in LinkOwners(l)
  BY DEF Lone
<1>2. /\ s \in Segs /\ i \in GraphInputs /\ Dev(s) = "gpu" /\ OnGpu /\ i \in BoundaryIns(s)
      /\ segs[s].of = InputDesc[i].of
      /\ \A r \in Segs : i \in BoundaryIns(r) => r = s
  BY <1>1, OwnersAre, GraphIs DEF OfLink
<1>3. ASSUME LinksInv, NEW m \in linked, m \in Links, m[2] = i PROVE s \in LinkOwners(m)
  <2>1. PICK r \in LinkOwners(m) : TRUE
    BY <1>2, <1>3 DEF LinksInv
  <2>2. r \in Segs /\ i \in BoundaryIns(r)
    BY <1>3, OwnersAre
  <2>3. r = s
    BY <1>2, <2>2
  <2> QED
    BY <2>3
<1> QED
  BY <1>2, <1>3

\* Between runs, what a setter leaves alone.
LEMMA SetterFrame ==
  ASSUME IInv, phase = "idle", UNCHANGED <<planVs, rt, buf, fdMem, argRes, phase, at, seg, made, completed, ran>>
  PROVE  /\ StaticInv' /\ PhaseInv' /\ FdInv' /\ FormInv' /\ CpuInv' /\ FreshInv' /\ UpInv' /\ MadeInv'
         /\ ResultsAreCurrent'
<1>1. StaticInv' /\ PhaseInv' /\ FdInv'
  BY Stable DEF IInv, StaticInv, planVs, PhaseInv, FdInv
<1>2. FormInv' /\ CpuInv' /\ FreshInv'
  BY Stable DEF IInv, FormInv, CpuInv, FreshInv
<1>3. UpInv' /\ MadeInv' /\ ResultsAreCurrent'
  BY DEF UpInv, MadeInv, ResultsAreCurrent
<1> QED
  BY <1>1, <1>2, <1>3

\* A new link.
LEMMA StepLink ==
  ASSUME AllSupported, IInv, NEW l \in Links, NEW k \in Slots \cup {None}, Link(l, k)
  PROVE  IInv'
<1> DEFINE i == l[2]
<1>0. /\ StaticInv /\ TypeOK /\ ShapeInv /\ LinksInv /\ RowsInv /\ CpuInv /\ FreshInv
      /\ InputInv /\ LoneInv /\ CpuLinkInv /\ OutInv /\ ArgInv
  BY DEF IInv
<1>1. /\ phase = "idle" /\ l \notin linked /\ \A m \in linked : m[2] # i
      /\ OnGpu => LinkOwners(l) # {}
      /\ LateLinks \/ made[l[1]] = None
      /\ linked' = linked \cup {l} /\ slot' = [slot EXCEPT ![l] = k]
      /\ want' = [want EXCEPT ![i] = IF @ = None THEN Zero(i) ELSE @]
      /\ sure' = IF want[i] # None \/ rt[i] = FreshRt THEN sure ELSE sure \ {OfLink(l)}
      /\ UNCHANGED <<planVs, rt, buf, fdMem, buckets, argMax, rows, argRes, phase, at, seg, result, made, completed,
                     ran, thrown>>
  BY DEF Link
<1>2. i \in GraphInputs /\ l[1] \in GraphOutputs /\ i \notin LinkedIns /\ InputDesc[i].of = OfLink(l)
  BY <1>0, <1>1, GraphIs DEF LinkedIns, OfLink
<1>3. /\ want'[i] = (IF want[i] = None THEN Zero(i) ELSE want[i])
      /\ \A j \in GraphInputs : j # i => want'[j] = want[j]
      /\ want' = [j \in GraphInputs |-> want'[j]]
  BY <1>0, <1>1, <1>2 DEF ShapeInv
<1>4. \A j : j \in LinkedIns' <=> j \in LinkedIns \/ j = i
  BY <1>1 DEF LinkedIns
<1>5. sure' \subseteq sure
  BY <1>1
<1>6. \A b : Sound(b)' => Sound(b)
  BY <1>1, <1>5 DEF Sound
<1> HIDE DEF i
<1>a. StaticInv' /\ PhaseInv' /\ FdInv' /\ FormInv' /\ CpuInv' /\ FreshInv' /\ UpInv' /\ MadeInv' /\ ResultsAreCurrent'
  BY <1>1, SetterFrame
<1>b. TypeOK'
  BY <1>0, <1>1, Stable DEF TypeOK, Reduced
<1>c. ShapeInv'
  BY <1>0, <1>1, <1>3, Stable DEF ShapeInv
<1>d. LinksInv' /\ RowsInv'
  BY <1>0, <1>1, Stable DEF LinksInv, RowsInv, FlatBoundary, i
<1>e. InputInv'
  <2> SUFFICES ASSUME NEW j \in GraphInputs, j \notin LinkedIns', Held(j)'
               PROVE  (IF FdNow(j) THEN fdMem[j] = want[j]
                       ELSE IF \E s \in Segs : Lone(s, j) THEN \A s \in Segs : Lone(s, j) => View(s, j) = want[j]
                       ELSE Solid(j, want[j]))'
    BY <1>1, Stable DEF InputInv
  <2>1. j # i /\ j \notin LinkedIns /\ want'[j] = want[j]
    BY <1>3, <1>4
  <2>2. Held(j) /\ ~FdNow(j) /\ ~FdNow(j)'
    BY <1>1, <2>1 DEF Held, FdNow, InRun
  <2>3. IF \E s \in Segs : Lone(s, j) THEN \A s \in Segs : Lone(s, j) => View(s, j) = want[j] ELSE Solid(j, want[j])
    BY <1>0, <2>1, <2>2 DEF InputInv
  <2> QED
    BY <1>1, <2>1, <2>2, <2>3, Stable, LoneFrame DEF View, Solid, AlreadyHere
<1>f. LoneInv'
  <2> SUFFICES ASSUME NEW j \in GraphInputs, NEW s \in Segs, Lone(s, j), Sound(InputDesc[j].of)',
                      (j \in LinkedIns \/ Held(j))'
               PROVE  buf[s][j] = want'[j] /\ View(s, j) = want'[j]
    BY <1>1, Stable, LoneFrame DEF LoneInv, Passed, View, AlreadyHere
  <2>1. Sound(InputDesc[j].of) /\ Passed(s) /\ ~FdNow(j)
    BY <1>1, <1>6, Stable DEF Passed, FdNow, InRun
  <2>2. j \in LinkedIns \/ Held(j) => buf[s][j] = want[j] /\ View(s, j) = want[j]
    BY <1>0, <2>1 DEF LoneInv
  <2>3. CASE j # i \/ want[j] # None
    <3>1. want'[j] = want[j] /\ (j \in LinkedIns \/ Held(j))
      BY <1>1, <1>3, <1>4, <2>3 DEF Held, InRun
    <3> QED
      BY <2>2, <3>1
  <2>4. CASE j = i /\ want[j] = None
    <3>1. rt[i] = FreshRt
      BY <1>1, <1>2, <2>4, Stable DEF Sound
    <3>2. rt[i].owner = Nobody /\ ~rt[i].hostValid
      BY <3>1 DEF FreshRt
    <3>3. buf[s][j] = Zero(i) /\ want'[j] = Zero(i)
      BY <1>0, <1>2, <1>3, <2>4, <3>2 DEF FreshInv
    <3> QED
      BY <2>4, <3>2, <3>3 DEF View
  <2> QED
    BY <2>3, <2>4
<1>g. CpuLinkInv'
  <2> SUFFICES ASSUME ~OnGpu, NEW m \in linked', Sound(OfLink(m))'
               PROVE  HostStorage(rt[m[2]], m[2]).host = want'[m[2]]
    BY <1>1, Stable DEF CpuLinkInv, InRun, HostStorage
  <2>1. Sound(OfLink(m))
    BY <1>1, <1>6, Stable
  <2>2. CASE m \in linked
    <3>1. m[2] # i /\ m[2] \in GraphInputs
      BY <1>0, <1>1, <2>2, GraphIs DEF TypeOK
    <3> QED
      BY <1>0, <1>3, <2>1, <2>2, <3>1 DEF CpuLinkInv
  <2>3. CASE m = l /\ want[i] # None
    <3>1. Held(i) /\ ~FdNow(i) /\ ~ \E s \in Segs : Lone(s, i)
      BY <1>0, <1>1, <2>3, LoneIs DEF Held, FdNow, InRun
    <3>2. Solid(i, want[i])
      BY <1>0, <1>2, <3>1 DEF InputInv
    <3> QED
      BY <1>3, <2>3, <3>2 DEF Solid, HostStorage, i
  <2>4. CASE m = l /\ want[i] = None
    <3>1. rt[i] = FreshRt
      BY <1>1, <1>2, <2>4, Stable DEF Sound
    <3>2. HostStorage(rt[i], i).host = Zero(i)
      BY <3>1 DEF HostStorage, FreshRt
    <3> QED
      BY <1>3, <2>4, <3>2 DEF i
  <2> QED
    BY <1>1, <2>2, <2>3, <2>4
<1>h. OutInv'
  <2> SUFFICES ASSUME NEW m \in Links, OfLink(m) \in sure'
               PROVE  IF OnGpu
                      THEN \A s \in LinkOwners(m) :
                             m[1] \in LinkedOuts' \/ m[1] \notin FdTensors \/ made[m[1]] = None => buf[s][m[1]] = made[m[1]]
                      ELSE m[1] \in LinkedOuts' \/ made[m[1]] = None => HostStorage(rt[m[1]], m[1]).host = made[m[1]]
    BY <1>1, Stable DEF OutInv, Settled, HostStorage
  <2>1. Settled(OfLink(m))
    BY <1>1, <1>5 DEF Settled
  <2>2. m[1] \in LinkedOuts' => m[1] \in LinkedOuts \/ m[1] = l[1]
    BY <1>1 DEF LinkedOuts
  <2>3. LateLinks => OnGpu /\ l[1] \notin FdTensors
    BY <1>0, SupportedIs
  <2> QED
    BY <1>0, <1>1, <2>1, <2>2, <2>3 DEF OutInv
<1>i. ArgInv'
  BY <1>0, <1>1, <1>5, Stable DEF ArgInv, DeviceArgMax, FlatBoundary
<1> QED
  BY <1>a, <1>b, <1>c, <1>d, <1>e, <1>f, <1>g, <1>h, <1>i DEF IInv

\* Between runs, what a setter that touches no link and no value leaves alone.
LEMMA ValueFrame ==
  ASSUME IInv, phase = "idle",
         UNCHANGED <<planVs, rt, buf, fdMem, argRes, phase, at, seg, linked, want, made, sure, completed, ran>>
  PROVE  LinksInv' /\ InputInv' /\ LoneInv' /\ CpuLinkInv' /\ OutInv' /\ ArgInv'
<1>0. LinksInv /\ InputInv /\ LoneInv /\ CpuLinkInv /\ OutInv /\ ArgInv
  BY DEF IInv
<1>1. \A i : /\ (Held(i)' <=> Held(i)) /\ (FdNow(i)' <=> FdNow(i)) /\ (InRun(i)' <=> InRun(i))
             /\ (i \in LinkedIns' <=> i \in LinkedIns) /\ (i \in LinkedOuts' <=> i \in LinkedOuts)
  BY Stable DEF Held, FdNow, InRun, LinkedIns, LinkedOuts
<1>2. \A s, i : View(s, i)' = View(s, i) /\ Passed(s)
  BY DEF View, AlreadyHere, Passed
<1>3. \A b : (Sound(b)' <=> Sound(b)) /\ (Settled(b)' <=> Settled(b))
  BY DEF Sound, Settled
<1>4. LinksInv' /\ ArgInv'
  BY <1>0, Stable DEF LinksInv, ArgInv, DeviceArgMax, FlatBoundary
<1>5. InputInv'
  BY <1>0, <1>1, <1>2, Stable, LoneFrame DEF InputInv, Solid, AlreadyHere
<1>6. \A s : Passed(s)'
  BY DEF Passed
<1>7. LoneInv'
  BY <1>0, <1>1, <1>2, <1>3, <1>6, Stable, LoneFrame DEF LoneInv
<1>8. CpuLinkInv'
  BY <1>0, <1>1, <1>3, Stable DEF CpuLinkInv, HostStorage
<1>9. OutInv'
  BY <1>0, <1>1, <1>3, Stable DEF OutInv, HostStorage
<1> QED
  BY <1>4, <1>5, <1>7, <1>8, <1>9

\* New ranges of a link.
LEMMA StepSetRanges ==
  ASSUME AllSupported, IInv, NEW l \in Links, NEW k \in Slots \cup {None}, SetRanges(l, k)
  PROVE  IInv'
<1>0. TypeOK /\ ShapeInv /\ RowsInv
  BY DEF IInv
<1>1. /\ phase = "idle" /\ slot' = [slot EXCEPT ![l] = k]
      /\ UNCHANGED <<planVs, rt, buf, fdMem, buckets, linked, argMax, rows, argRes, phase, at, seg, result, want, made,
                     sure, completed, ran, thrown>>
  BY DEF SetRanges, history
<1>2. TypeOK'
  BY <1>0, <1>1, Stable DEF TypeOK, Reduced
<1>3. ShapeInv' /\ RowsInv'
  BY <1>0, <1>1, Stable DEF ShapeInv, RowsInv, FlatBoundary
<1> QED
  BY <1>1, <1>2, <1>3, SetterFrame, ValueFrame DEF IInv

\* All links cleared.
LEMMA StepClearLinks ==
  ASSUME AllSupported, IInv, ClearLinks
  PROVE  IInv'
<1>0. /\ StaticInv /\ TypeOK /\ ShapeInv /\ LinksInv /\ RowsInv /\ CpuInv
      /\ InputInv /\ LoneInv /\ CpuLinkInv /\ OutInv /\ ArgInv
  BY DEF IInv
<1>1. /\ phase = "idle" /\ linked' = {}
      /\ want' = [i \in GraphInputs |-> IF want[i] = Zero(i) \/ (i \in LinkedIns /\ InputDesc[i].of \notin sure)
                                        THEN None ELSE want[i]]
      /\ UNCHANGED <<planVs, rt, buf, fdMem, buckets, slot, argMax, rows, argRes, phase, at, seg, result, made, sure,
                     completed, ran, thrown>>
  BY DEF ClearLinks
<1>2. \A i : i \notin LinkedIns' /\ i \notin LinkedOuts'
  BY <1>1 DEF LinkedIns, LinkedOuts
<1>3. ASSUME NEW i \in GraphInputs, Held(i)'
      PROVE  /\ want'[i] = want[i] /\ want[i] # None /\ want[i] # Zero(i) /\ Held(i) /\ ~FdNow(i) /\ ~FdNow(i)'
             /\ i \in LinkedIns => InputDesc[i].of \in sure
  BY <1>1, <1>3 DEF Held, FdNow, InRun
<1>4. \A s, i : View(s, i)' = View(s, i) /\ (AlreadyHere(s, i)' <=> AlreadyHere(s, i)) /\ Passed(s) /\ Passed(s)'
  BY <1>1 DEF View, AlreadyHere, Passed
<1>5. \A b : (Sound(b)' <=> Sound(b)) /\ (Settled(b)' <=> Settled(b)) /\ (b \in sure => Sound(b))
  BY <1>1 DEF Sound, Settled
<1>a. StaticInv' /\ PhaseInv' /\ FdInv' /\ FormInv' /\ CpuInv' /\ FreshInv' /\ UpInv' /\ MadeInv' /\ ResultsAreCurrent'
  BY <1>1, SetterFrame
<1>b. TypeOK'
  BY <1>0, <1>1, Stable DEF TypeOK, Reduced
<1>c. ShapeInv' /\ LinksInv' /\ RowsInv' /\ CpuLinkInv'
  BY <1>0, <1>1, Stable DEF ShapeInv, LinksInv, RowsInv, FlatBoundary, CpuLinkInv
<1>d. InputInv'
  <2> SUFFICES ASSUME NEW i \in GraphInputs, Held(i)'
               PROVE  IF \E s \in Segs : Lone(s, i) THEN \A s \in Segs : Lone(s, i) => View(s, i) = want[i]
                      ELSE Solid(i, want[i])
    BY <1>1, <1>3, <1>4, Stable, LoneFrame DEF InputInv, Solid
  <2>1. /\ want[i] # None /\ want[i] # Zero(i) /\ Held(i) /\ ~FdNow(i)
        /\ i \in LinkedIns => InputDesc[i].of \in sure
    BY <1>3
  <2>2. CASE i \notin LinkedIns
    BY <1>0, <2>1, <2>2 DEF InputInv
  <2>3. CASE i \in LinkedIns
    <3>1. \A s \in Segs : Lone(s, i) => View(s, i) = want[i]
      BY <1>0, <1>4, <1>5, <2>1, <2>3 DEF LoneInv
    <3>2. ASSUME ~ \E s \in Segs : Lone(s, i) PROVE Solid(i, want[i])
      <4>1. PICK m \in linked : m[2] = i
        BY <2>3 DEF LinkedIns
      <4>2. m \in Links /\ OfLink(m) = InputDesc[i].of
        BY <1>0, <4>1 DEF TypeOK, OfLink
      <4>3. ~OnGpu
        <5> SUFFICES ASSUME OnGpu PROVE FALSE
          OBVIOUS
        <5>1. PICK s \in LinkOwners(m) : TRUE
          BY <1>0, <4>1 DEF LinksInv
        <5> QED
          BY <1>0, <3>2, <4>1, <4>2, <5>1, OwnersAre DEF Lone
      <4>4. HostStorage(rt[i], i).host = want[i]
        BY <1>0, <1>5, <2>1, <2>3, <4>1, <4>2, <4>3 DEF CpuLinkInv
      <4>5. rt[i].hostValid /\ rt[i].host = want[i]
        <5>1. CASE ~rt[i].hostValid
          <6>1. i \in Tensors
            BY DEF Tensors
          <6>2. HostStorage(rt[i], i).host = Zero(i)
            BY <1>0, <5>1, <6>1 DEF HostStorage, ShapeInv, IsRt
          <6> QED
            BY <2>1, <4>4, <6>2
        <5>2. CASE rt[i].hostValid
          BY <4>4, <5>2 DEF HostStorage
        <5> QED
          BY <5>1, <5>2
      <4>6. \A s \in Segs : ~AlreadyHere(s, i)
        BY <1>0, <4>3, SegmentIs DEF CpuInv, AlreadyHere, Nobody, Tensors
      <4> QED
        BY <4>5, <4>6 DEF Solid
    <3> QED
      BY <3>1, <3>2
  <2> QED
    BY <2>2, <2>3
<1>e. LoneInv'
  BY <1>0, <1>1, <1>2, <1>3, <1>4, <1>5, Stable, LoneFrame DEF LoneInv
<1>f. OutInv'
  BY <1>0, <1>1, <1>2, <1>5, Stable DEF OutInv, HostStorage
<1>g. ArgInv'
  BY <1>0, <1>1, Stable DEF ArgInv, DeviceArgMax, FlatBoundary
<1> QED
  BY <1>a, <1>b, <1>c, <1>d, <1>e, <1>f, <1>g DEF IInv

\* An output registered for an argmax.
LEMMA StepSetOutputArgMax ==
  ASSUME AllSupported, IInv, NEW o \in ArgMaxable, SetOutputArgMax(o)
  PROVE  IInv'
<1>0. TypeOK /\ ShapeInv /\ RowsInv
  BY DEF IInv
<1>1. /\ phase = "idle" /\ argMax' = Append(argMax, o)
      /\ UNCHANGED <<planVs, rt, buf, fdMem, buckets, linked, slot, rows, argRes, phase, at, seg, result, want, made,
                     sure, completed, ran, thrown>>
  BY DEF SetOutputArgMax, history
<1>2. argMax \in Seq(ArgMaxable) /\ argMax' \in Seq(ArgMaxable)
  BY <1>0, <1>1 DEF ShapeInv
<1>3. Reduced' = Reduced \cup {o}
  <2>1. /\ DOMAIN argMax = 1 .. Len(argMax) /\ DOMAIN argMax' = 1 .. Len(argMax) + 1 /\ Len(argMax) \in Nat
        /\ argMax'[Len(argMax) + 1] = o /\ \A j \in 1 .. Len(argMax) : argMax'[j] = argMax[j]
    BY <1>1, <1>2
  <2> QED
    BY <2>1 DEF Reduced, Range
<1>4. TypeOK'
  BY <1>0, <1>1, <1>3, Stable DEF TypeOK
<1>5. ShapeInv' /\ RowsInv'
  BY <1>0, <1>1, <1>2, Stable DEF ShapeInv, RowsInv, FlatBoundary
<1> QED
  BY <1>1, <1>4, <1>5, SetterFrame, ValueFrame DEF IInv

\* A row selection, made or cleared.
LEMMA StepSetOutputRow ==
  ASSUME AllSupported, IInv, NEW o \in RowSets, SetOutputRow(o)
  PROVE  IInv'
<1>0. TypeOK /\ ShapeInv /\ RowsInv
  BY DEF IInv
<1>1. /\ phase = "idle" /\ FlatBoundary(o) /\ rows' = IF o \in rows THEN rows \ {o} ELSE rows \cup {o}
      /\ UNCHANGED <<planVs, rt, buf, fdMem, buckets, linked, slot, argMax, argRes, phase, at, seg, result, want, made,
                     sure, completed, ran, thrown>>
  BY DEF SetOutputRow, history
<1>2. TypeOK'
  BY <1>0, <1>1, Stable DEF TypeOK, Reduced
<1>3. ShapeInv' /\ RowsInv'
  BY <1>0, <1>1, Stable DEF ShapeInv, RowsInv, FlatBoundary
<1> QED
  BY <1>1, <1>2, <1>3, SetterFrame, ValueFrame DEF IInv

\* One more bucket.
LEMMA StepPrepareShapes ==
  ASSUME AllSupported, IInv, NEW b \in AllBuckets, PrepareShapes(b)
  PROVE  IInv'
<1>0. TypeOK /\ ShapeInv /\ RowsInv
  BY DEF IInv
<1>1. /\ phase = "idle" /\ b \notin Range(buckets) /\ buckets' = Append(buckets, b)
      /\ UNCHANGED <<planVs, rt, buf, fdMem, linked, slot, argMax, rows, argRes, phase, at, seg, result, want, made,
                     sure, completed, ran, thrown>>
  BY DEF PrepareShapes, history
<1>2. buckets \in Seq(AllBuckets) /\ buckets' \in Seq(AllBuckets)
  BY <1>0, <1>1 DEF ShapeInv
<1>3. Range(buckets') = Range(buckets) \cup {b} /\ IsInjective(buckets')
  <2>1. /\ DOMAIN buckets = 1 .. Len(buckets) /\ DOMAIN buckets' = 1 .. Len(buckets) + 1 /\ Len(buckets) \in Nat
        /\ buckets'[Len(buckets) + 1] = b /\ \A j \in 1 .. Len(buckets) : buckets'[j] = buckets[j]
    BY <1>1, <1>2
  <2>2. Range(buckets') = Range(buckets) \cup {b}
    BY <2>1 DEF Range
  <2>3. IsInjective(buckets)
    BY <1>0 DEF TypeOK
  <2>4. IsInjective(buckets')
    <3> SUFFICES ASSUME NEW j \in DOMAIN buckets', NEW k \in DOMAIN buckets', buckets'[j] = buckets'[k]
                 PROVE  j = k
      BY DEF IsInjective
    <3>1. \A m \in 1 .. Len(buckets) : buckets'[m] # b
      BY <1>1, <2>1 DEF Range
    <3>2. j \in 1 .. Len(buckets) \/ j = Len(buckets) + 1
      BY <2>1
    <3>3. k \in 1 .. Len(buckets) \/ k = Len(buckets) + 1
      BY <2>1
    <3>4. CASE j \in 1 .. Len(buckets) /\ k \in 1 .. Len(buckets)
      BY <2>1, <2>3, <3>4 DEF IsInjective
    <3>5. CASE ~(j \in 1 .. Len(buckets) /\ k \in 1 .. Len(buckets))
      BY <2>1, <3>1, <3>2, <3>3, <3>5
    <3> QED
      BY <3>4, <3>5
  <2> QED
    BY <2>2, <2>4
<1>4. TypeOK'
  BY <1>0, <1>1, <1>3, Stable DEF TypeOK, Reduced
<1>5. ShapeInv' /\ RowsInv'
  BY <1>0, <1>1, <1>2, Stable DEF ShapeInv, RowsInv, FlatBoundary
<1> QED
  BY <1>1, <1>4, <1>5, SetterFrame, ValueFrame DEF IInv

-----------------------------------------------------------------------------
\* The start of a run.

\* The fields of q, a tensor's record.
RtIs(q, h, f, v, o, d, x) ==
  /\ IsRt(q) /\ q.host = h /\ q.form = f /\ q.hostValid = v /\ q.owner = o /\ q.deviceValid = d /\ q.fd = x

\* A tensor's record, written out, has the fields it is written with.
LEMMA MadeRt ==
  ASSUME NEW q, NEW h, NEW f, NEW v, NEW o, NEW d, NEW x,
         q = [host |-> h, form |-> f, hostValid |-> v, owner |-> o, deviceValid |-> d, fd |-> x]
  PROVE  RtIs(q, h, f, v, o, d, x)
<1>1. q.host = h /\ q.form = f /\ q.hostValid = v /\ q.owner = o /\ q.deviceValid = d /\ q.fd = x
  OBVIOUS
<1> QED
  BY <1>1 DEF RtIs, IsRt

\* What the steps make of a tensor's record.
LEMMA Updates ==
  ASSUME NEW r, IsRt(r), NEW h, NEW f, NEW v, NEW o, NEW d, NEW x, NEW q
  PROVE  /\ q = [r EXCEPT !.hostValid = v, !.deviceValid = d, !.fd = x] => RtIs(q, r.host, r.form, v, r.owner, d, x)
         /\ q = [r EXCEPT !.host = h, !.form = f, !.hostValid = v, !.deviceValid = d] => RtIs(q, h, f, v, r.owner, d, r.fd)
         /\ q = [r EXCEPT !.host = h, !.form = f, !.hostValid = v] => RtIs(q, h, f, v, r.owner, r.deviceValid, r.fd)
         /\ q = [r EXCEPT !.host = h, !.hostValid = v, !.form = f] => RtIs(q, h, f, v, r.owner, r.deviceValid, r.fd)
         /\ q = [r EXCEPT !.host = h] => RtIs(q, h, r.form, r.hostValid, r.owner, r.deviceValid, r.fd)
         /\ q = [r EXCEPT !.fd = x] => RtIs(q, r.host, r.form, r.hostValid, r.owner, r.deviceValid, x)
         /\ q = [r EXCEPT !.hostValid = v] => RtIs(q, r.host, r.form, v, r.owner, r.deviceValid, r.fd)
         /\ q = [r EXCEPT !.hostValid = v, !.fd = x] => RtIs(q, r.host, r.form, v, r.owner, r.deviceValid, x)
         /\ q = [r EXCEPT !.owner = o, !.deviceValid = d] => RtIs(q, r.host, r.form, r.hostValid, o, d, r.fd)
<1>1. ASSUME q = [r EXCEPT !.hostValid = v, !.deviceValid = d, !.fd = x]
      PROVE  RtIs(q, r.host, r.form, v, r.owner, d, x)
  <2>1. q = [host |-> r.host, form |-> r.form, hostValid |-> v, owner |-> r.owner, deviceValid |-> d, fd |-> x]
    BY <1>1 DEF IsRt
  <2> QED
    BY <2>1, MadeRt
<1>2. ASSUME q = [r EXCEPT !.host = h, !.form = f, !.hostValid = v, !.deviceValid = d]
      PROVE  RtIs(q, h, f, v, r.owner, d, r.fd)
  <2>1. q = [host |-> h, form |-> f, hostValid |-> v, owner |-> r.owner, deviceValid |-> d, fd |-> r.fd]
    BY <1>2 DEF IsRt
  <2> QED
    BY <2>1, MadeRt
<1>3. ASSUME q = [r EXCEPT !.host = h, !.form = f, !.hostValid = v]
      PROVE  RtIs(q, h, f, v, r.owner, r.deviceValid, r.fd)
  <2>1. q = [host |-> h, form |-> f, hostValid |-> v, owner |-> r.owner, deviceValid |-> r.deviceValid, fd |-> r.fd]
    BY <1>3 DEF IsRt
  <2> QED
    BY <2>1, MadeRt
<1>4. ASSUME q = [r EXCEPT !.host = h, !.hostValid = v, !.form = f]
      PROVE  RtIs(q, h, f, v, r.owner, r.deviceValid, r.fd)
  <2>1. q = [host |-> h, form |-> f, hostValid |-> v, owner |-> r.owner, deviceValid |-> r.deviceValid, fd |-> r.fd]
    BY <1>4 DEF IsRt
  <2> QED
    BY <2>1, MadeRt
<1>5. ASSUME q = [r EXCEPT !.host = h]
      PROVE  RtIs(q, h, r.form, r.hostValid, r.owner, r.deviceValid, r.fd)
  <2>1. q = [host |-> h, form |-> r.form, hostValid |-> r.hostValid, owner |-> r.owner, deviceValid |-> r.deviceValid, fd |-> r.fd]
    BY <1>5 DEF IsRt
  <2> QED
    BY <2>1, MadeRt
<1>6. ASSUME q = [r EXCEPT !.fd = x]
      PROVE  RtIs(q, r.host, r.form, r.hostValid, r.owner, r.deviceValid, x)
  <2>1. q = [host |-> r.host, form |-> r.form, hostValid |-> r.hostValid, owner |-> r.owner, deviceValid |-> r.deviceValid, fd |-> x]
    BY <1>6 DEF IsRt
  <2> QED
    BY <2>1, MadeRt
<1>7. ASSUME q = [r EXCEPT !.hostValid = v]
      PROVE  RtIs(q, r.host, r.form, v, r.owner, r.deviceValid, r.fd)
  <2>1. q = [host |-> r.host, form |-> r.form, hostValid |-> v, owner |-> r.owner, deviceValid |-> r.deviceValid, fd |-> r.fd]
    BY <1>7 DEF IsRt
  <2> QED
    BY <2>1, MadeRt
<1>8. ASSUME q = [r EXCEPT !.hostValid = v, !.fd = x]
      PROVE  RtIs(q, r.host, r.form, v, r.owner, r.deviceValid, x)
  <2>1. q = [host |-> r.host, form |-> r.form, hostValid |-> v, owner |-> r.owner, deviceValid |-> r.deviceValid, fd |-> x]
    BY <1>8 DEF IsRt
  <2> QED
    BY <2>1, MadeRt
<1>9. ASSUME q = [r EXCEPT !.owner = o, !.deviceValid = d]
      PROVE  RtIs(q, r.host, r.form, r.hostValid, o, d, r.fd)
  <2>1. q = [host |-> r.host, form |-> r.form, hostValid |-> r.hostValid, owner |-> o, deviceValid |-> d, fd |-> r.fd]
    BY <1>9 DEF IsRt
  <2> QED
    BY <2>1, MadeRt
<1> QED
  BY <1>1, <1>2, <1>3, <1>4, <1>5, <1>6, <1>7, <1>8, <1>9


\* The record after a caller's bytes are bound, and after a CPU operator writes its output.
LEMMA BindHostIs ==
  ASSUME NEW r, IsRt(r), NEW i, NEW v
  PROVE  /\ RtIs(BindHost(r, i, v), Given(i, v), "f32", TRUE, r.owner, FALSE, r.fd)
         /\ RtIs(CpuOut(r, v), v, "f32", TRUE, r.owner, FALSE, r.fd)
  BY Updates, Zenon DEF BindHost, CpuOut

\* ensureResidentHostStorage keeps a valid host copy and makes zeros of an invalid one.
LEMMA HostStorageIs ==
  ASSUME NEW r, IsRt(r), NEW t
  PROVE  /\ r.hostValid => HostStorage(r, t) = r
         /\ ~r.hostValid => RtIs(HostStorage(r, t), Zero(t), "f32", TRUE, r.owner, r.deviceValid, r.fd)
         /\ IsRt(HostStorage(r, t)) /\ HostStorage(r, t).hostValid
         /\ HostStorage(r, t).host = IF r.hostValid THEN r.host ELSE Zero(t)
<1>1. CASE r.hostValid
  <2>1. HostStorage(r, t) = r
    BY <1>1, Zenon DEF HostStorage
  <2> QED
    BY <1>1, <2>1
<1>2. CASE ~r.hostValid
  <2>1. HostStorage(r, t) = [r EXCEPT !.host = Zero(t), !.form = "f32", !.hostValid = TRUE]
    BY <1>2, Zenon DEF HostStorage
  <2>2. RtIs(HostStorage(r, t), Zero(t), "f32", TRUE, r.owner, r.deviceValid, r.fd)
    BY <2>1, Updates, Zenon
  <2> QED
    BY <1>2, <2>2 DEF RtIs
<1> QED
  BY <1>1, <1>2

\* The bytes of a host copy, allocated or not.
LEMMA HostHeld ==
  \A r, t : IsRt(r) => HostStorage(r, t).host = IF r.hostValid THEN r.host ELSE Zero(t)
  BY HostStorageIs

\* Tensor t's record q after the inputs of bucket c are bound as b says.
BoundAs(q, t, c, b) ==
  /\ t \in HostBound(b) => RtIs(q, Given(t, b[t][2]), "f32", TRUE, rt[t].owner, FALSE, FALSE)
  /\ t \in FdBound(b) => RtIs(q, rt[t].host, rt[t].form, FALSE, rt[t].owner, FALSE, TRUE)
  /\ t \in InputsOf(c) \ DOMAIN b => RtIs(q, rt[t].host, rt[t].form, rt[t].hostValid, rt[t].owner, rt[t].deviceValid, FALSE)
  /\ t \notin InputsOf(c) => q = rt[t]

\* The tensors after the inputs of bucket c are bound.
LEMMA BoundIs ==
  ASSUME StaticInv, ShapeInv, NEW c, NEW bound \in SUBSET InputsOf(c), NEW b \in Entries(bound)
  PROVE  /\ Bound(c, b) = [t \in Tensors |-> Bound(c, b)[t]]
         /\ \A t \in Tensors : BoundAs(Bound(c, b)[t], t, c, b)
<1>1. DOMAIN b = bound /\ HostBound(b) \cup FdBound(b) = bound /\ HostBound(b) \cap FdBound(b) = {} /\ bound \subseteq InputsOf(c)
  BY EntriesAre
<1>2. Bound(c, b) = [t \in Tensors |-> Bound(c, b)[t]]
  BY DEF Bound
<1>3. ASSUME NEW t \in Tensors, t \notin InputsOf(c) PROVE Bound(c, b)[t] = rt[t]
  BY <1>1, <1>3 DEF Bound
<1>4. ASSUME NEW t \in Tensors, t \in InputsOf(c), NEW q, q = Bound(c, b)[t]
      PROVE  /\ t \in HostBound(b) => RtIs(q, Given(t, b[t][2]), "f32", TRUE, rt[t].owner, FALSE, FALSE)
             /\ t \in FdBound(b) => RtIs(q, rt[t].host, rt[t].form, FALSE, rt[t].owner, FALSE, TRUE)
             /\ t \notin bound => RtIs(q, rt[t].host, rt[t].form, rt[t].hostValid, rt[t].owner, rt[t].deviceValid, FALSE)
  <2> DEFINE r == [rt[t] EXCEPT !.fd = FALSE]
  <2>1. IsRt(rt[t])
    BY DEF ShapeInv
  <2>2. RtIs(r, rt[t].host, rt[t].form, rt[t].hostValid, rt[t].owner, rt[t].deviceValid, FALSE)
    BY <2>1, Updates, Zenon
  <2>3. /\ t \in HostBound(b) => q = BindHost(r, t, b[t][2])
        /\ t \in FdBound(b) => q = [r EXCEPT !.hostValid = FALSE, !.deviceValid = FALSE, !.fd = TRUE]
        /\ t \notin bound => q = r
    BY <1>1, <1>4 DEF Bound
  <2> HIDE DEF r
  <2>4. ASSUME t \in HostBound(b)
        PROVE  RtIs(q, Given(t, b[t][2]), "f32", TRUE, rt[t].owner, FALSE, FALSE)
    <3>1. IsRt(r) /\ r.owner = rt[t].owner /\ r.fd = FALSE
      BY <2>2, Zenon DEF RtIs
    <3>2. q = BindHost(r, t, b[t][2])
      BY <2>3, <2>4
    <3>3. RtIs(BindHost(r, t, b[t][2]), Given(t, b[t][2]), "f32", TRUE, r.owner, FALSE, r.fd)
      BY <3>1, BindHostIs
    <3>4. RtIs(q, Given(t, b[t][2]), "f32", TRUE, r.owner, FALSE, r.fd)
      BY <3>2, <3>3, Zenon
    <3> QED
      BY <3>1, <3>4, Zenon
  <2>5. ASSUME t \in FdBound(b)
        PROVE  RtIs(q, rt[t].host, rt[t].form, FALSE, rt[t].owner, FALSE, TRUE)
    <3>1. IsRt(r) /\ r.owner = rt[t].owner /\ r.host = rt[t].host /\ r.form = rt[t].form
      BY <2>2, Zenon DEF RtIs
    <3>2. RtIs(q, r.host, r.form, FALSE, r.owner, FALSE, TRUE)
      BY <2>3, <2>5, <3>1, Updates, Zenon
    <3> QED
      BY <3>1, <3>2, Zenon
  <2>6. ASSUME t \notin bound
        PROVE  RtIs(q, rt[t].host, rt[t].form, rt[t].hostValid, rt[t].owner, rt[t].deviceValid, FALSE)
    BY <2>2, <2>3, <2>6, Zenon
  <2> QED
    BY <2>4, <2>5, <2>6
<1>5. ASSUME NEW t \in Tensors PROVE BoundAs(Bound(c, b)[t], t, c, b)
  <2>1. CASE t \in InputsOf(c)
    BY <1>1, <1>4, <2>1, Zenon DEF BoundAs
  <2>2. CASE t \notin InputsOf(c)
    BY <1>1, <1>3, <2>2 DEF BoundAs
  <2> QED
    BY <2>1, <2>2
<1> QED
  BY <1>2, <1>5, Zenon

\* And after its outputs are, too.
BoundAllAs(q, t, c, b, F) ==
  /\ t \notin OutputsOf(c) => BoundAs(q, t, c, b)
  /\ t \in OutputsOf(c) =>
       RtIs(q, rt[t].host, rt[t].form, rt[t].hostValid, rt[t].owner, rt[t].deviceValid, t \in F)

\* The tensors after the inputs and outputs of bucket c are bound.
LEMMA BoundAllIs ==
  ASSUME StaticInv, ShapeInv, NEW c, NEW bound \in SUBSET InputsOf(c), NEW b \in Entries(bound), NEW F \in SUBSET OutputsOf(c)
  PROVE  /\ BoundAll(c, b, F) = [t \in Tensors |-> BoundAll(c, b, F)[t]]
         /\ \A t \in Tensors : BoundAllAs(BoundAll(c, b, F)[t], t, c, b, F)
<1>2. BoundAll(c, b, F) = [t \in Tensors |-> BoundAll(c, b, F)[t]]
  BY DEF BoundAll
<1>3. ASSUME NEW t \in Tensors, t \notin OutputsOf(c) PROVE BoundAll(c, b, F)[t] = Bound(c, b)[t]
  BY <1>3 DEF BoundAll
<1>4. ASSUME NEW t \in Tensors, t \in OutputsOf(c), NEW q, q = BoundAll(c, b, F)[t]
      PROVE  RtIs(q, rt[t].host, rt[t].form, rt[t].hostValid, rt[t].owner, rt[t].deviceValid, t \in F)
  <2>1. q = [rt[t] EXCEPT !.fd = t \in F]
    BY <1>4, Zenon DEF BoundAll
  <2>2. IsRt(rt[t])
    BY DEF ShapeInv
  <2> QED
    BY <2>1, <2>2, Updates, Zenon
<1>5. ASSUME NEW t \in Tensors PROVE BoundAllAs(BoundAll(c, b, F)[t], t, c, b, F)
  <2>1. CASE t \in OutputsOf(c)
    BY <1>4, <2>1, Zenon DEF BoundAllAs
  <2>2. CASE t \notin OutputsOf(c)
    <3>1. BoundAs(Bound(c, b)[t], t, c, b)
      BY BoundIs
    <3> QED
      BY <1>3, <2>2, <3>1 DEF BoundAllAs
  <2> QED
    BY <2>1, <2>2
<1> QED
  BY <1>2, <1>5, Zenon


\* A bucket has segments, and its first is the least of them.
LEMMA FirstSegment ==
  ASSUME StaticInv, NEW c \in AllBuckets
  PROVE  Min(SegsOf(c)) \in SegsOf(c) /\ \A s \in SegsOf(c) : Min(SegsOf(c)) <= s
<1>1. PICK n \in DOMAIN Nodes : Nodes[n].of = c
  BY GraphIs
<1>2. Rank(n) \in Segs /\ n \in NodesOf(Rank(n))
  BY SegmentsInOrder
<1>3. Rank(n) \in SegsOf(c)
  BY <1>1, <1>2, SegmentIs DEF SegsOf
<1>4. SegsOf(c) \subseteq Nat
  BY SegmentIs DEF SegsOf
<1> QED
  BY <1>3, <1>4, MinIs

\* What the links in L make of tensors R on the host: q, of t, and the input of link l.
LinkedAs(q, R, t, L) ==
  /\ IsRt(q) /\ q.owner = R[t].owner /\ q.deviceValid = R[t].deviceValid /\ q.fd = R[t].fd
  /\ q.form \in {"f32", R[t].form} /\ q.hostValid \in {TRUE, R[t].hostValid}
  /\ (\A l \in L : t \notin {l[1], l[2]}) => q = R[t]
CopiedAs(q, R, l) ==
  /\ q.hostValid
  /\ q.host = IF slot[l] = None THEN HostStorage(R[l[2]], l[2]).host
              ELSE [HostStorage(R[l[2]], l[2]).host EXCEPT ![slot[l]] = HostStorage(R[l[1]], l[1]).host]

\* The tensors after the links in L are applied on the host: the inputs of L hold what the links copy,
\* every other tensor at most gets storage.
LEMMA HostLinkedIs ==
  ASSUME StaticInv, NEW R, \A t \in Tensors : IsRt(R[t]), NEW L, L \subseteq Links,
         \A l, m \in L : l[2] = m[2] => l = m
  PROVE  /\ HostLinked(R, L) = [t \in Tensors |-> HostLinked(R, L)[t]]
         /\ \A t \in Tensors : LinkedAs(HostLinked(R, L)[t], R, t, L)
         /\ \A l \in L : CopiedAs(HostLinked(R, L)[l[2]], R, l)
<1> DEFINE Q == HostLinked(R, L)
           base == [t \in Tensors |-> IF \E l \in L : t \in {l[1], l[2]} THEN HostStorage(R[t], t) ELSE R[t]]
           the(t) == CHOOSE m \in L : m[2] = t
           copied(t) == \E l \in L : l[2] = t /\ slot[l] # None
<1>1. Q = [t \in Tensors |-> IF copied(t) THEN [base[t] EXCEPT !.host[slot[the(t)]] = base[the(t)[1]].host] ELSE base[t]]
  BY DEF HostLinked
<1>2. \A l \in L : l[1] \in Tensors /\ l[2] \in Tensors /\ the(l[2]) = l
  <2> SUFFICES ASSUME NEW l \in L PROVE l[1] \in Tensors /\ l[2] \in Tensors /\ the(l[2]) = l
    OBVIOUS
  <2>1. l \in Links
    OBVIOUS
  <2>2. l[1] \in GraphOutputs /\ l[2] \in GraphInputs
    BY <2>1, GraphIs
  <2>3. \E n \in DOMAIN Nodes : l[1] \in Nodes[n].outs
    BY <2>2, GraphIs
  <2> QED
    BY <2>2, <2>3 DEF Tensors
<1>3. ASSUME NEW t \in Tensors
      PROVE  /\ IsRt(base[t]) /\ base[t].owner = R[t].owner /\ base[t].deviceValid = R[t].deviceValid
             /\ base[t].fd = R[t].fd /\ base[t].form \in {"f32", R[t].form} /\ base[t].hostValid \in {TRUE, R[t].hostValid}
  <2>1. base[t] = HostStorage(R[t], t) \/ base[t] = R[t]
    OBVIOUS
  <2>2. IsRt(R[t])
    OBVIOUS
  <2>3. CASE R[t].hostValid
    <3>1. base[t] = R[t]
      BY <2>1, <2>2, <2>3, HostStorageIs
    <3> QED
      BY <2>2, <3>1, Zenon
  <2>4. CASE ~R[t].hostValid
    <3>1. RtIs(HostStorage(R[t], t), Zero(t), "f32", TRUE, R[t].owner, R[t].deviceValid, R[t].fd)
      BY <2>2, <2>4, HostStorageIs
    <3> QED
      BY <2>1, <2>2, <3>1, Zenon DEF RtIs
  <2> QED
    BY <2>3, <2>4
<1>4. \A l \in L : /\ base[l[2]] = HostStorage(R[l[2]], l[2]) /\ base[l[1]] = HostStorage(R[l[1]], l[1])
                   /\ base[l[2]].hostValid
  <2> SUFFICES ASSUME NEW l \in L
               PROVE  /\ base[l[2]] = HostStorage(R[l[2]], l[2]) /\ base[l[1]] = HostStorage(R[l[1]], l[1])
                      /\ base[l[2]].hostValid
    OBVIOUS
  <2>1. base[l[2]] = HostStorage(R[l[2]], l[2]) /\ base[l[1]] = HostStorage(R[l[1]], l[1]) /\ IsRt(R[l[2]])
    BY <1>2
  <2> HIDE DEF base
  <2>2. HostStorage(R[l[2]], l[2]).hostValid
    BY <2>1, HostStorageIs
  <2> QED
    BY <2>1, <2>2, Zenon
<1>5. \A t \in Tensors : (\A l \in L : t \notin {l[1], l[2]}) => base[t] = R[t] /\ ~copied(t)
  OBVIOUS
<1> HIDE DEF base, the
<1>6. ASSUME NEW t \in Tensors
      PROVE  IF copied(t)
             THEN RtIs(Q[t], [base[t].host EXCEPT ![slot[the(t)]] = base[the(t)[1]].host], base[t].form, base[t].hostValid,
                       base[t].owner, base[t].deviceValid, base[t].fd)
             ELSE Q[t] = base[t]
  <2>1. CASE copied(t)
    <3> DEFINE h == [base[t].host EXCEPT ![slot[the(t)]] = base[the(t)[1]].host]
    <3>1. Q[t] = [base[t] EXCEPT !.host = h]
      BY <1>1, <2>1
    <3> HIDE DEF h
    <3>2. RtIs(Q[t], h, base[t].form, base[t].hostValid, base[t].owner, base[t].deviceValid, base[t].fd)
      BY <1>3, <3>1, Updates, Zenon
    <3> QED
      BY <2>1, <3>2 DEF h
  <2>2. CASE ~copied(t)
    BY <1>1, <2>2
  <2> QED
    BY <2>1, <2>2
<1>7. Q = [t \in Tensors |-> Q[t]]
  BY <1>1
<1> HIDE DEF Q
<1>8. ASSUME NEW t \in Tensors
      PROVE  /\ IsRt(Q[t]) /\ Q[t].owner = R[t].owner
             /\ Q[t].deviceValid = R[t].deviceValid /\ Q[t].fd = R[t].fd
             /\ Q[t].form \in {"f32", R[t].form} /\ Q[t].hostValid \in {TRUE, R[t].hostValid}
  <2>1. /\ Q[t].owner = base[t].owner /\ Q[t].deviceValid = base[t].deviceValid /\ Q[t].fd = base[t].fd
        /\ Q[t].form = base[t].form /\ Q[t].hostValid = base[t].hostValid /\ IsRt(Q[t])
    BY <1>3, <1>6, Zenon DEF RtIs
  <2> QED
    BY <1>3, <2>1, Zenon
<1>9. ASSUME NEW l \in L
      PROVE  /\ Q[l[2]].hostValid
             /\ Q[l[2]].host
                  = IF slot[l] = None THEN HostStorage(R[l[2]], l[2]).host
                    ELSE [HostStorage(R[l[2]], l[2]).host EXCEPT ![slot[l]] = HostStorage(R[l[1]], l[1]).host]
  <2>1. copied(l[2]) <=> slot[l] # None
    OBVIOUS
  <2>2. the(l[2]) = l /\ l[2] \in Tensors
    BY <1>2
  <2>3. CASE slot[l] = None
    BY <1>4, <1>6, <2>1, <2>2, <2>3
  <2>4. CASE slot[l] # None
    <3>1. RtIs(Q[l[2]], [base[l[2]].host EXCEPT ![slot[l]] = base[l[1]].host], base[l[2]].form, base[l[2]].hostValid,
               base[l[2]].owner, base[l[2]].deviceValid, base[l[2]].fd)
      BY <1>6, <2>1, <2>2, <2>4
    <3>2. Q[l[2]].hostValid = base[l[2]].hostValid /\ Q[l[2]].host = [base[l[2]].host EXCEPT ![slot[l]] = base[l[1]].host]
      BY <3>1, Zenon DEF RtIs
    <3> QED
      BY <1>4, <2>4, <3>2
  <2> QED
    BY <2>3, <2>4
<1>10. ASSUME NEW t \in Tensors PROVE LinkedAs(Q[t], R, t, L)
  BY <1>5, <1>6, <1>8 DEF LinkedAs
<1>11. ASSUME NEW l \in L PROVE CopiedAs(Q[l[2]], R, l)
  BY <1>9, Zenon DEF CopiedAs
<1> QED
  BY <1>7, <1>10, <1>11 DEF Q


\* What a binding leaves of the tensors: R, before q.
Rebound(R, t, c, b, F) ==
  /\ IsRt(R[t]) /\ R[t].owner = rt[t].owner /\ R[t].form \in {"f32", rt[t].form}
  /\ R[t].hostValid \in BOOLEAN /\ R[t].deviceValid \in BOOLEAN /\ (R[t].deviceValid => rt[t].deviceValid)
  /\ R[t].fd \in BOOLEAN /\ (R[t].fd => t \in FdTensors)
  /\ t \notin DOMAIN b => /\ R[t].host = rt[t].host /\ (R[t].hostValid <=> rt[t].hostValid)
                          /\ (R[t].deviceValid <=> rt[t].deviceValid)
  /\ t \in HostBound(b) => R[t].host = Given(t, b[t][2]) /\ R[t].hostValid /\ ~R[t].deviceValid
  /\ t \in FdBound(b) => R[t].host = rt[t].host /\ ~R[t].hostValid /\ ~R[t].deviceValid /\ R[t].fd
  /\ t \in InputsOf(c) \ FdBound(b) => ~R[t].fd
  /\ t \notin InputsOf(c) \cup OutputsOf(c) => R[t] = rt[t]
  /\ t \in OutputsOf(c) => (R[t].fd <=> t \in F) \/ (F = {} /\ R[t] = rt[t])

\* The tensors of a refused or a beginning run, up to the links: each input of bucket c holds what is
\* bound to it, or what it held.
LEMMA ReboundIs ==
  ASSUME StaticInv, TypeOK, ShapeInv, NEW c, NEW bound \in SUBSET InputsOf(c), NEW b \in Entries(bound),
         NEW F \in SUBSET (FdTensors \cap OutputsOf(c)),
         NEW R, R = BoundAll(c, b, F) \/ (F = {} /\ R = Bound(c, b))
  PROVE  R = [t \in Tensors |-> R[t]] /\ \A t \in Tensors : Rebound(R, t, c, b, F)
<1>1. /\ DOMAIN b = bound /\ bound = HostBound(b) \cup FdBound(b) /\ HostBound(b) \cap FdBound(b) = {}
      /\ bound \subseteq InputsOf(c) /\ FdBound(b) \subseteq FdTensors
  BY EntriesAre
<1>2. InputsOf(c) \cap OutputsOf(c) = {}
  BY GraphIs DEF InputsOf, OutputsOf
<1>3. F \in SUBSET OutputsOf(c) /\ F \subseteq FdTensors
  OBVIOUS
<1>4. R = [t \in Tensors |-> R[t]]
  BY <1>3, BoundIs, BoundAllIs
<1>5. ASSUME NEW t \in Tensors PROVE Rebound(R, t, c, b, F)
  <2>1. /\ IsRt(rt[t]) /\ rt[t].form \in {"f32", "fp16"} /\ rt[t].hostValid \in BOOLEAN /\ rt[t].deviceValid \in BOOLEAN
        /\ rt[t].fd \in BOOLEAN /\ (rt[t].fd => t \in FdTensors)
    BY DEF ShapeInv, TypeOK
  <2>2. CASE t \in OutputsOf(c)
    <3>1. t \notin bound /\ t \notin HostBound(b) /\ t \notin FdBound(b) /\ t \notin InputsOf(c) /\ t \notin DOMAIN b
      BY <1>1, <1>2, <2>2
    <3>2. CASE R = BoundAll(c, b, F)
      <4>1. RtIs(R[t], rt[t].host, rt[t].form, rt[t].hostValid, rt[t].owner, rt[t].deviceValid, t \in F)
        BY <1>3, <2>2, <3>2, BoundAllIs DEF BoundAllAs
      <4>2. R[t].fd = (t \in F)
        BY <4>1, Zenon DEF RtIs
      <4>3. R[t].fd \in BOOLEAN /\ (R[t].fd <=> t \in F)
        <5>1. R[t].fd \in BOOLEAN
          BY <4>2
        <5>2. R[t].fd <=> t \in F
          BY <4>2, Zenon
        <5> QED
          BY <5>1, <5>2
      <4>4. IsRt(R[t]) /\ R[t].host = rt[t].host /\ R[t].form = rt[t].form /\ R[t].hostValid = rt[t].hostValid
            /\ R[t].owner = rt[t].owner /\ R[t].deviceValid = rt[t].deviceValid
        BY <4>1, Zenon DEF RtIs
      <4> QED
        BY <1>3, <2>1, <2>2, <3>1, <4>3, <4>4 DEF Rebound
    <3>3. CASE F = {} /\ R = Bound(c, b)
      <4>1. R[t] = rt[t]
        BY <3>1, <3>3, BoundIs DEF BoundAs
      <4> QED
        BY <2>1, <2>2, <3>1, <3>3, <4>1 DEF Rebound
    <3> QED
      BY <3>2, <3>3
  <2>3. CASE t \notin OutputsOf(c)
    <3>1. BoundAs(R[t], t, c, b)
      BY <1>3, <2>3, BoundIs, BoundAllIs DEF BoundAllAs
    <3>2. CASE t \in HostBound(b)
      <4>1. RtIs(R[t], Given(t, b[t][2]), "f32", TRUE, rt[t].owner, FALSE, FALSE)
        BY <3>1, <3>2 DEF BoundAs
      <4> DEFINE g == Given(t, b[t][2])
      <4>2. IsRt(R[t]) /\ R[t].host = g /\ R[t].form = "f32" /\ R[t].hostValid = TRUE
            /\ R[t].owner = rt[t].owner /\ R[t].deviceValid = FALSE /\ R[t].fd = FALSE
        BY <4>1, Zenon DEF RtIs
      <4> HIDE DEF g
      <4>3. t \notin FdBound(b) /\ t \in DOMAIN b /\ t \in InputsOf(c)
        BY <1>1, <3>2
      <4>4. R[t].host = g /\ R[t].hostValid /\ ~R[t].deviceValid /\ ~R[t].fd /\ R[t].hostValid \in BOOLEAN
            /\ R[t].deviceValid \in BOOLEAN /\ R[t].fd \in BOOLEAN /\ R[t].form \in {"f32", rt[t].form}
        BY <4>2
      <4> QED
        BY <2>3, <3>2, <4>2, <4>3, <4>4, Zenon DEF Rebound, g
    <3>3. CASE t \in FdBound(b)
      <4>1. RtIs(R[t], rt[t].host, rt[t].form, FALSE, rt[t].owner, FALSE, TRUE)
        BY <3>1, <3>3 DEF BoundAs
      <4>2. IsRt(R[t]) /\ R[t].host = rt[t].host /\ R[t].form = rt[t].form /\ R[t].hostValid = FALSE
            /\ R[t].owner = rt[t].owner /\ R[t].deviceValid = FALSE /\ R[t].fd = TRUE
        BY <4>1, Zenon DEF RtIs
      <4>3. t \notin HostBound(b) /\ t \in DOMAIN b /\ t \in InputsOf(c) /\ t \in FdTensors
        BY <1>1, <3>3
      <4>4. ~R[t].hostValid /\ ~R[t].deviceValid /\ R[t].fd /\ R[t].hostValid \in BOOLEAN
            /\ R[t].deviceValid \in BOOLEAN /\ R[t].fd \in BOOLEAN /\ R[t].form \in {"f32", rt[t].form}
        BY <4>2
      <4> QED
        BY <2>3, <3>3, <4>2, <4>3, <4>4, Zenon DEF Rebound
    <3>4. CASE t \in InputsOf(c) /\ t \notin bound
      <4>1. RtIs(R[t], rt[t].host, rt[t].form, rt[t].hostValid, rt[t].owner, rt[t].deviceValid, FALSE)
        BY <1>1, <3>1, <3>4 DEF BoundAs
      <4>2. IsRt(R[t]) /\ R[t].host = rt[t].host /\ R[t].form = rt[t].form /\ R[t].hostValid = rt[t].hostValid
            /\ R[t].owner = rt[t].owner /\ R[t].deviceValid = rt[t].deviceValid /\ R[t].fd = FALSE
        BY <4>1, Zenon DEF RtIs
      <4>3. t \notin HostBound(b) /\ t \notin DOMAIN b /\ t \notin FdBound(b)
        BY <1>1, <3>4
      <4>4. ~R[t].fd /\ R[t].fd \in BOOLEAN
        BY <4>2
      <4> QED
        BY <2>1, <2>3, <3>4, <4>2, <4>3, <4>4 DEF Rebound
    <3>5. CASE t \notin InputsOf(c)
      <4>1. R[t] = rt[t]
        BY <3>1, <3>5 DEF BoundAs
      <4>2. t \notin HostBound(b) /\ t \notin DOMAIN b /\ t \notin FdBound(b)
        BY <1>1, <3>5
      <4> QED
        BY <2>1, <2>3, <3>5, <4>1, <4>2 DEF Rebound
    <3> QED
      BY <1>1, <3>2, <3>3, <3>4, <3>5
  <2> QED
    BY <2>2, <2>3
<1> QED
  BY <1>4, <1>5


\* What the run's input i holds before the links.
BaseOf(b, i) == IF i \in DOMAIN b THEN Given(i, b[i][2]) ELSE want[i]

\* The contract's inputs.
LEMMA ContractIs ==
  ASSUME LinksInv, NEW c, NEW b, want' = Contract(c, b)
  PROVE  /\ want' = [i \in GraphInputs |-> want'[i]]
         /\ \A i \in GraphInputs :
              /\ i \notin InputsOf(c) => want'[i] = want[i]
              /\ i \in InputsOf(c) /\ (\A l \in linked : l[2] = i => slot[l] = None) => want'[i] = BaseOf(b, i)
         /\ \A l \in linked : l[2] \in InputsOf(c) /\ slot[l] # None
                                => want'[l[2]] = [BaseOf(b, l[2]) EXCEPT ![slot[l]] = made[l[1]]]
<1>1. want' = [i \in GraphInputs |-> want'[i]]
  BY DEF Contract
<1>2. ASSUME NEW i \in GraphInputs, i \notin InputsOf(c) PROVE want'[i] = want[i]
  BY <1>2 DEF Contract
<1>3. ASSUME NEW i \in GraphInputs, i \in InputsOf(c), \A l \in linked : l[2] = i => slot[l] = None
      PROVE  want'[i] = BaseOf(b, i)
  BY <1>3 DEF Contract, BaseOf
<1>4. ASSUME NEW l \in linked, l[2] \in InputsOf(c), slot[l] # None
      PROVE  want'[l[2]] = [BaseOf(b, l[2]) EXCEPT ![slot[l]] = made[l[1]]]
  <2>1. (CHOOSE m \in linked : m[2] = l[2]) = l
    BY DEF LinksInv
  <2>2. l[2] \in GraphInputs
    BY <1>4 DEF InputsOf
  <2>3. want'[l[2]] = [BaseOf(b, l[2]) EXCEPT ![slot[CHOOSE m \in linked : m[2] = l[2]]] = made[(CHOOSE m \in linked : m[2] = l[2])[1]]]
    BY <1>4, <2>2 DEF Contract, BaseOf
  <2> QED
    BY <2>1, <2>3
<1> QED
  BY <1>1, <1>2, <1>3, <1>4

\* What a run that begins has changed.
BeginsAs(c, b, F) ==
  /\ phase = "idle" /\ phase' = "run" /\ at' = c /\ c \in AllBuckets /\ c \in Range(buckets)
  /\ seg' \in SegsOf(c) /\ \A s \in SegsOf(c) : seg' <= s
  /\ UNCHANGED <<planVs, buf, buckets, linked, slot, argMax, rows, argRes, made, completed, ran, thrown>>
  /\ (FdBound(b) \cup F) \cap (LinkedIns \cup LinkedOuts) = {}
  /\ \A i \in InputsOf(c) \ DOMAIN b : want[i] # None
  /\ \A i \in FdBound(b) : fdMem'[i] = Given(i, b[i][2])
  /\ fdMem' = [t \in Tensors |-> fdMem'[t]]
  /\ sure' \subseteq sure \cup {c}
  /\ c \in sure' => c \in sure \/ \A l \in LinksOf(c) : l[2] \in HostBound(b) /\ slot[l] = None

BegunRt(t, c, b, F) ==
  /\ IsRt(rt'[t]) /\ rt'[t].owner = rt[t].owner /\ rt'[t].form \in {"f32", rt[t].form}
  /\ rt'[t].hostValid \in BOOLEAN /\ rt'[t].deviceValid \in BOOLEAN /\ (rt'[t].deviceValid => rt[t].deviceValid)
  /\ rt'[t].fd \in BOOLEAN /\ (rt'[t].fd => t \in FdTensors)
  /\ t \in InputsOf(c) \ FdBound(b) => ~rt'[t].fd
  /\ t \in OutputsOf(c) \ F => ~rt'[t].fd
  /\ t \notin InputsOf(c) \cup OutputsOf(c) => rt'[t] = rt[t]
  /\ OnGpu \/ t \notin LinkedIns \cup LinkedOuts => Rebound(rt', t, c, b, F)

\* The state in which a run of bucket c begins.
LEMMA BeginIs ==
  ASSUME AllSupported, IInv, NEW c \in Range(buckets), NEW bound \in SUBSET InputsOf(c), NEW b \in Entries(bound),
         NEW F \in SUBSET (FdTensors \cap OutputsOf(c)), BeginRun(c, c, b, F), \A i \in InputsOf(c) \ bound : want[i] # None
  PROVE  /\ BeginsAs(c, b, F) /\ rt' = [t \in Tensors |-> rt'[t]]
         /\ \A t \in Tensors : BegunRt(t, c, b, F)
         /\ want' = Contract(c, b)
         /\ ~OnGpu => FdBound(b) = {} /\ F = {} /\ rt' = HostLinked(BoundAll(c, b, F), LinksOf(c))
<1>0. StaticInv /\ TypeOK /\ ShapeInv /\ LinksInv
  BY DEF IInv
<1>1. /\ DOMAIN b = bound /\ For(c, b) = b /\ FdBound(b) \subseteq FdTensors
      /\ bound = HostBound(b) \cup FdBound(b) /\ HostBound(b) \cap FdBound(b) = {} /\ bound \subseteq InputsOf(c)
  BY <1>0, EntriesAre
<1>2. c \in AllBuckets
  BY <1>0 DEF TypeOK
<1>3. /\ phase = "idle" /\ (FdBound(b) \cup F) \cap (LinkedIns \cup LinkedOuts) = {}
      /\ rt' = IF OnGpu THEN BoundAll(c, b, F) ELSE HostLinked(BoundAll(c, b, F), LinksOf(c))
      /\ fdMem' = [t \in Tensors |-> IF t \in FdBound(b) THEN Given(t, b[t][2]) ELSE None]
      /\ phase' = "run" /\ at' = c /\ seg' = Min(SegsOf(c)) /\ want' = Contract(c, b)
      /\ sure' = IF \A l \in LinksOf(c) : l[2] \in HostBound(b) /\ slot[l] = None THEN sure \cup {c} ELSE sure
      /\ UNCHANGED <<planVs, buf, buckets, linked, slot, argMax, rows, argRes, made, completed, ran, thrown>>
  <2>1. For(c, b) = b
    BY <1>1
  <2> QED
    BY <2>1 DEF BeginRun, sessionVs
<1>4. seg' \in SegsOf(c) /\ \A s \in SegsOf(c) : seg' <= s
  BY <1>0, <1>2, <1>3, FirstSegment
<1>5. FdBound(b) \subseteq Tensors
  BY <1>1 DEF InputsOf, Tensors
<1>6. \A i \in FdBound(b) : fdMem'[i] = Given(i, b[i][2])
  BY <1>3, <1>5
<1>7. fdMem' = [t \in Tensors |-> fdMem'[t]]
  BY <1>3
<1>8. BeginsAs(c, b, F)
  BY <1>1, <1>2, <1>3, <1>4, <1>6, <1>7 DEF BeginsAs
<1> DEFINE R == BoundAll(c, b, F)
<1>9. R = [t \in Tensors |-> R[t]] /\ \A t \in Tensors : Rebound(R, t, c, b, F)
  BY <1>0, ReboundIs
<1>10. InputsOf(c) \cap OutputsOf(c) = {}
  BY <1>0, GraphIs DEF InputsOf, OutputsOf
<1> HIDE DEF R
<1>11. CASE OnGpu
  <2>1. rt' = R
    BY <1>3, <1>11 DEF R
  <2>2. ASSUME NEW t \in Tensors PROVE BegunRt(t, c, b, F)
    <3>1. Rebound(R, t, c, b, F)
      BY <1>9
    <3>2. Rebound(rt', t, c, b, F)
      BY <2>1, <3>1, Zenon
    <3>4. t \in OutputsOf(c) \ F => ~rt'[t].fd
      BY <1>3, <1>11, <3>2, BoundAllIs, <1>0, <2>1 DEF Rebound, BoundAllAs, RtIs, R
    <3> QED
      BY <3>2, <3>4 DEF BegunRt, Rebound
  <2> QED
    BY <1>3, <1>8, <1>9, <1>11, <2>1, <2>2
<1>12. CASE ~OnGpu
  <2>1. FdTensors = {} /\ FdBound(b) = {} /\ F = {}
    BY <1>0, <1>1, <1>12, SupportedIs
  <2>2. rt' = HostLinked(R, LinksOf(c))
    BY <1>3, <1>12 DEF R
  <2>3. \A t \in Tensors : IsRt(R[t])
    BY <1>9 DEF Rebound
  <2>4. LinksOf(c) \in SUBSET Links /\ \A l, m \in LinksOf(c) : l[2] = m[2] => l = m
    BY <1>0 DEF LinksOf, TypeOK, LinksInv
  <2>5. ASSUME NEW l \in LinksOf(c)
        PROVE  l[1] \in LinkedOuts /\ l[2] \in LinkedIns /\ l[1] \in OutputsOf(c) /\ l[2] \in InputsOf(c)
    <3>1. l \in linked /\ l \in Links /\ OfLink(l) = c
      BY <1>0 DEF LinksOf, TypeOK
    <3> QED
      BY <1>0, <3>1, GraphIs DEF LinkedOuts, LinkedIns, OutputsOf, InputsOf, OfLink
  <2> DEFINE L == LinksOf(c)
             Q == HostLinked(R, L)
  <2>6. Q = [t \in Tensors |-> Q[t]] /\ \A t \in Tensors : LinkedAs(Q[t], R, t, L)
    <3>1. L \subseteq Links /\ \A l, m \in L : l[2] = m[2] => l = m
      BY <2>4
    <3> HIDE DEF L
    <3> QED
      BY <1>0, <2>3, <3>1, HostLinkedIs
  <2>8. rt' = Q
    BY <2>2
  <2> HIDE DEF Q
  <2>9. rt' = [t \in Tensors |-> rt'[t]]
    BY <2>6, <2>8, Zenon
  <2>7. ASSUME NEW t \in Tensors PROVE BegunRt(t, c, b, F)
    <3>1. Rebound(R, t, c, b, F)
      BY <1>9
    <3>2. /\ IsRt(rt'[t]) /\ rt'[t].owner = R[t].owner /\ rt'[t].deviceValid = R[t].deviceValid /\ rt'[t].fd = R[t].fd
          /\ rt'[t].form \in {"f32", R[t].form} /\ rt'[t].hostValid \in {TRUE, R[t].hostValid}
          /\ (\A l \in LinksOf(c) : t \notin {l[1], l[2]}) => rt'[t] = R[t]
      BY <2>6, <2>8 DEF LinkedAs
    <3>3. t \notin InputsOf(c) \cup OutputsOf(c) \/ t \notin LinkedIns \cup LinkedOuts => rt'[t] = R[t]
      BY <2>5, <3>2
    <3>4. t \notin InputsOf(c) \cup OutputsOf(c) => rt'[t] = rt[t]
      BY <3>1, <3>3 DEF Rebound
    <3>5. ~R[t].fd
      BY <2>1, <3>1 DEF Rebound
    <3>6. t \notin LinkedIns \cup LinkedOuts => Rebound(rt', t, c, b, F)
      BY <3>1, <3>3, Zenon DEF Rebound
    <3> QED
      BY <1>12, <3>1, <3>2, <3>4, <3>5, <3>6 DEF BegunRt, Rebound
  <2> QED
    BY <1>3, <1>8, <1>12, <2>1, <2>2, <2>7, <2>9 DEF R
<1> QED
  BY <1>11, <1>12


\* A run begins.
LEMMA StepBeginRun ==
  ASSUME AllSupported, IInv, NEW c \in Range(buckets), NEW bound \in SUBSET InputsOf(c), NEW b \in Entries(bound),
         NEW F \in SUBSET (FdTensors \cap OutputsOf(c)), BeginRun(c, c, b, F), \A i \in InputsOf(c) \ bound : want[i] # None
  PROVE  IInv'
<1>0. /\ StaticInv /\ TypeOK /\ ShapeInv /\ LinksInv /\ RowsInv /\ FormInv /\ CpuInv /\ FreshInv
      /\ InputInv /\ LoneInv /\ CpuLinkInv /\ OutInv
  BY DEF IInv
<1>1. /\ phase = "idle" /\ phase' = "run" /\ at' = c /\ c \in AllBuckets /\ c \in Range(buckets)
      /\ seg' \in SegsOf(c) /\ \A s \in SegsOf(c) : seg' <= s
      /\ UNCHANGED <<planVs, buf, buckets, linked, slot, argMax, rows, argRes, made, completed, ran, thrown>>
      /\ (FdBound(b) \cup F) \cap (LinkedIns \cup LinkedOuts) = {}
      /\ \A i \in InputsOf(c) \ DOMAIN b : want[i] # None
      /\ \A i \in FdBound(b) : fdMem'[i] = Given(i, b[i][2])
      /\ fdMem' = [t \in Tensors |-> fdMem'[t]]
      /\ sure' \subseteq sure \cup {c}
      /\ c \in sure' => c \in sure \/ \A l \in LinksOf(c) : l[2] \in HostBound(b) /\ slot[l] = None
  BY BeginIs DEF BeginsAs
<1>2. rt' = [t \in Tensors |-> rt'[t]] /\ \A t \in Tensors : BegunRt(t, c, b, F)
  BY BeginIs
<1>3. want' = Contract(c, b) /\ (~OnGpu => FdBound(b) = {} /\ F = {} /\ rt' = HostLinked(BoundAll(c, b, F), LinksOf(c)))
  BY BeginIs
<1>4. /\ want' = [i \in GraphInputs |-> want'[i]]
      /\ \A i \in GraphInputs :
           /\ i \notin InputsOf(c) => want'[i] = want[i]
           /\ i \in InputsOf(c) /\ (\A l \in linked : l[2] = i => slot[l] = None) => want'[i] = BaseOf(b, i)
      /\ \A l \in linked : l[2] \in InputsOf(c) /\ slot[l] # None
                             => want'[l[2]] = [BaseOf(b, l[2]) EXCEPT ![slot[l]] = made[l[1]]]
  BY <1>0, <1>3, ContractIs
<1>5. DOMAIN b = bound /\ bound = HostBound(b) \cup FdBound(b) /\ HostBound(b) \cap FdBound(b) = {} /\ bound \subseteq InputsOf(c)
  BY <1>0, EntriesAre
<1>6. /\ LinkedIns' = LinkedIns /\ LinkedOuts' = LinkedOuts /\ Reduced' = Reduced
      /\ \A i : InRun(i)' <=> i \in InputsOf(c)
  BY <1>1, Stable DEF LinkedIns, LinkedOuts, Reduced, InRun
<1>7. ASSUME NEW t \in Tensors, t \notin InputsOf(c) \cup OutputsOf(c) PROVE rt'[t] = rt[t]
  BY <1>2, <1>7 DEF BegunRt
<1>8. ASSUME NEW i \in InputsOf(c), i \notin bound, OnGpu \/ i \notin LinkedIns
      PROVE  SameRt(i) /\ ~rt'[i].fd
  <2>1. i \in Tensors /\ i \notin GraphOutputs
    BY <1>0, GraphIs DEF InputsOf, Tensors
  <2>2. i \notin LinkedOuts /\ i \notin FdBound(b)
    BY <1>0, <1>5, <1>8, <2>1, GraphIs DEF LinkedOuts, TypeOK
  <2>3. Rebound(rt', i, c, b, F)
    BY <1>2, <1>8, <2>1, <2>2 DEF BegunRt
  <2> QED
    BY <1>5, <1>8, <2>2, <2>3 DEF Rebound, SameRt
<1>9. ASSUME NEW i \in HostBound(b), OnGpu \/ i \notin LinkedIns
      PROVE  rt'[i].host = Given(i, b[i][2]) /\ rt'[i].hostValid /\ ~rt'[i].deviceValid /\ ~rt'[i].fd
  <2>1. i \in InputsOf(c) /\ i \in Tensors /\ i \notin GraphOutputs
    BY <1>0, <1>5, GraphIs DEF InputsOf, Tensors
  <2>2. i \notin LinkedOuts /\ i \notin FdBound(b)
    BY <1>0, <1>5, <2>1, GraphIs DEF LinkedOuts, TypeOK
  <2>3. Rebound(rt', i, c, b, F)
    BY <1>2, <1>9, <2>1, <2>2 DEF BegunRt
  <2> QED
    BY <2>1, <2>2, <2>3 DEF Rebound
<1>a. StaticInv' /\ PhaseInv' /\ LinksInv' /\ RowsInv' /\ UpInv' /\ ResultsAreCurrent' /\ ArgInv'
  <2>1. StaticInv' /\ LinksInv' /\ RowsInv'
    BY <1>0, <1>1, Stable DEF StaticInv, planVs, LinksInv, RowsInv, FlatBoundary
  <2>2. PhaseInv' /\ UpInv' /\ ResultsAreCurrent' /\ ArgInv'
    BY <1>1, Stable DEF PhaseInv, UpInv, ResultsAreCurrent, ArgInv
  <2> QED
    BY <2>1, <2>2
<1>b. TypeOK'
  <2>1. ASSUME NEW t \in Tensors
        PROVE  /\ rt'[t].form \in {"f32", "fp16"} /\ rt'[t].owner \in Segs \cup {Nobody, TheFd}
               /\ rt'[t].hostValid \in BOOLEAN /\ rt'[t].deviceValid \in BOOLEAN
               /\ rt'[t].fd \in BOOLEAN /\ (rt'[t].fd => t \in FdTensors)
               /\ rt'[t].deviceValid => rt'[t].owner # Nobody
    BY <1>0, <1>2 DEF TypeOK, BegunRt
  <2>2. seg' \in 1 .. Cardinality(Segs) + 1
    <3>1. seg' \in Segs
      BY <1>1 DEF SegsOf
    <3>2. Segs = 1 .. Rank(Len(Nodes)) /\ Rank(Len(Nodes)) \in Nat
      BY <1>0, PartitionIs, GraphIs, RankIs
    <3>3. Cardinality(Segs) = Rank(Len(Nodes))
      BY <3>2, FS_Interval
    <3> QED
      BY <3>1, <3>2, <3>3
  <2> QED
    BY <1>0, <1>1, <1>6, <2>1, <2>2, Stable DEF TypeOK
<1>c. ShapeInv'
  <2>1. \A t \in Tensors : IsRt(rt'[t])
    BY <1>2 DEF BegunRt
  <2> QED
    BY <1>0, <1>1, <1>2, <1>4, <2>1, Stable DEF ShapeInv
<1>d. FdInv'
  <2> SUFFICES ASSUME NEW t \in LinkedIns \cup LinkedOuts, t \in InputsOf(c) \cup OutputsOf(c) PROVE ~rt'[t].fd
    BY <1>1, <1>6, Stable DEF FdInv
  <2>1. t \in Tensors
    <3>1. t \in GraphInputs \/ t \in GraphOutputs
      BY DEF InputsOf, OutputsOf
    <3>2. ASSUME t \in GraphOutputs PROVE t \in Tensors
      BY <1>0, <3>2, GraphIs DEF Tensors
    <3> QED
      BY <3>1, <3>2 DEF Tensors
  <2>2. BegunRt(t, c, b, F) /\ t \notin FdBound(b) \cup F
    BY <1>1, <1>2, <2>1
  <2> QED
    BY <2>2 DEF BegunRt
<1>e. FormInv' /\ CpuInv' /\ FreshInv'
  <2>1. FormInv'
    BY <1>0, <1>2, <1>1, Stable DEF FormInv, BegunRt
  <2>2. CpuInv'
    BY <1>0, <1>2, <1>1, Stable DEF CpuInv, BegunRt
  <2>3. FreshInv'
    BY <1>0, <1>2, <1>1, Stable DEF FreshInv, BegunRt, Tensors
  <2> QED
    BY <2>1, <2>2, <2>3
<1>f. MadeInv'
  <2> SUFFICES ASSUME NEW s \in SegsOf(c) PROVE ~Passed(s)' /\ ~(s < seg')
    BY <1>1, Stable DEF MadeInv
  <2>1. s \in Segs /\ segs[s].of = c /\ seg' <= s /\ s \in Nat /\ seg' \in Nat
    BY <1>0, <1>1, SegmentIs DEF SegsOf
  <2> QED
    BY <1>1, <2>1, Stable DEF Passed
<1>g. \A s, i : SameRt(i) => (AlreadyHere(s, i)' <=> AlreadyHere(s, i)) /\ View(s, i)' = View(s, i)
  BY <1>1, ViewFrame
<1>h. ASSUME NEW i \in GraphInputs, i \notin InputsOf(c)
      PROVE  SameRt(i) /\ want'[i] = want[i] /\ (Held(i)' <=> Held(i)) /\ ~FdNow(i)' /\ ~FdNow(i)
  <2>1. i \in Tensors /\ i \notin OutputsOf(c)
    BY <1>0, GraphIs DEF OutputsOf, Tensors
  <2> QED
    BY <1>1, <1>4, <1>6, <1>7, <1>h, <2>1 DEF SameRt, Held, FdNow, InRun
<1>i. InputInv'
  <2> SUFFICES ASSUME NEW i \in GraphInputs, i \notin LinkedIns, Held(i)'
               PROVE  (IF FdNow(i) THEN fdMem[i] = want[i]
                       ELSE IF \E s \in Segs : Lone(s, i) THEN \A s \in Segs : Lone(s, i) => View(s, i) = want[i]
                       ELSE Solid(i, want[i]))'
    BY <1>1, <1>6, Stable DEF InputInv
  <2>1. ASSUME SameRt(i), want'[i] = want[i], Held(i), ~FdNow(i), ~FdNow(i)'
        PROVE  (IF \E s \in Segs : Lone(s, i) THEN \A s \in Segs : Lone(s, i) => View(s, i) = want[i]
                ELSE Solid(i, want[i]))'
    <3>1. IF \E s \in Segs : Lone(s, i) THEN \A s \in Segs : Lone(s, i) => View(s, i) = want[i]
          ELSE Solid(i, want[i])
      BY <1>0, <2>1 DEF InputInv
    <3>2. \A s : (AlreadyHere(s, i)' <=> AlreadyHere(s, i)) /\ View(s, i)' = View(s, i) /\ (Lone(s, i)' <=> Lone(s, i))
      BY <1>1, <1>g, <2>1, LoneFrame
    <3> QED
      BY <1>1, <2>1, <3>1, <3>2, Stable DEF Solid, SameRt
  <2>2. CASE i \notin InputsOf(c)
    BY <1>h, <2>1, <2>2
  <2>3. CASE i \in InputsOf(c) /\ i \notin bound
    <3>1. SameRt(i) /\ ~rt'[i].fd /\ want[i] # None
      BY <1>1, <1>5, <1>8, <2>3
    <3>2. want'[i] = want[i]
      BY <1>4, <1>5, <2>3 DEF BaseOf, LinkedIns
    <3> QED
      BY <1>1, <2>1, <3>1, <3>2 DEF Held, FdNow, InRun
  <2>4. CASE i \in bound
    <3>1. i \in InputsOf(c) /\ want'[i] = Given(i, b[i][2])
      BY <1>4, <1>5, <2>4 DEF BaseOf, LinkedIns
    <3>2. CASE i \in FdBound(b)
      <4>1. i \in Tensors /\ i \notin LinkedOuts
        BY <1>0, GraphIs DEF LinkedOuts, TypeOK, Tensors
      <4>2. rt'[i].fd
        BY <1>2, <3>2, <4>1 DEF BegunRt, Rebound
      <4>3. FdNow(i)'
        BY <1>6, <3>1, <4>2 DEF FdNow
      <4> QED
        BY <1>1, <3>1, <3>2, <4>3
    <3>3. CASE i \in HostBound(b)
      <4>1. rt'[i].host = want'[i] /\ rt'[i].hostValid /\ ~rt'[i].deviceValid /\ ~rt'[i].fd
        BY <1>9, <3>1, <3>3
      <4>2. ~FdNow(i)' /\ \A s : ~AlreadyHere(s, i)' /\ View(s, i)' = want'[i]
        BY <4>1 DEF FdNow, AlreadyHere, View
      <4> QED
        BY <4>1, <4>2 DEF Solid
    <3> QED
      BY <1>5, <2>4, <3>2, <3>3
  <2> QED
    BY <1>5, <2>2, <2>3, <2>4
<1>j. \A d : d # c => (Sound(d)' => Sound(d)) /\ (Settled(d)' => Settled(d))
  BY <1>1 DEF Sound, Settled
<1>k. LoneInv'
  <2> SUFFICES ASSUME NEW i \in GraphInputs, NEW s \in Segs, Lone(s, i), Sound(InputDesc[i].of)',
                      i \in LinkedIns \/ Held(i)', ~FdNow(i)'
               PROVE  IF Passed(s)' THEN buf[s][i] = want'[i] /\ View(s, i)' = want'[i]
                      ELSE i \in LinkedIns => LinkOf(s, i, View(s, i))' = want'[i]
    BY <1>1, <1>6, Stable, LoneFrame DEF LoneInv
  <2>0. /\ segs[s].of = InputDesc[i].of /\ OnGpu /\ s \in Segs
        /\ i \in LinkedIns => \A l \in linked : l \in Links /\ l[2] = i => s \in LinkOwners(l)
    BY <1>0, LoneIs
  <2>1. CASE i \notin InputsOf(c)
    <3>1. InputDesc[i].of # c
      BY <2>1 DEF InputsOf
    <3>2. Passed(s) /\ Passed(s)'
      BY <1>1, <2>0, <3>1, Stable DEF Passed
    <3>3. SameRt(i) /\ want'[i] = want[i] /\ (Held(i)' <=> Held(i)) /\ ~FdNow(i)
      BY <1>h, <2>1
    <3>4. Sound(InputDesc[i].of)
      BY <1>1, <1>j, <3>1, Stable
    <3>6. buf[s][i] = want[i] /\ View(s, i) = want[i]
      BY <1>0, <3>2, <3>3, <3>4 DEF LoneInv
    <3>5. View(s, i)' = View(s, i)
      BY <1>g, <3>3
    <3> QED
      BY <3>2, <3>3, <3>5, <3>6
  <2>2. CASE i \in InputsOf(c)
    <3>1. InputDesc[i].of = c
      BY <2>2 DEF InputsOf
    <3>2. ~Passed(s)'
      <4>1. s \in SegsOf(c)
        BY <2>0, <3>1 DEF SegsOf
      <4>2. seg' <= s /\ s \in Nat /\ seg' \in Nat
        BY <1>0, <1>1, <4>1, SegmentIs DEF SegsOf
      <4> QED
        BY <1>1, <2>0, <3>1, <4>2, Stable DEF Passed
    <3>3. ASSUME i \in LinkedIns PROVE LinkOf(s, i, View(s, i))' = want'[i]
      <4>1. PICK l \in linked : l[2] = i
        BY <3>3 DEF LinkedIns
      <4>2. l \in Links /\ OfLink(l) = c /\ s \in LinkOwners(l) /\ l \in LinksOf(c) /\ \A m \in linked : m[2] = i => m = l
        BY <1>0, <2>0, <3>1, <3>3, <4>1 DEF TypeOK, LinksInv, OfLink, LinksOf
      <4>3. c \in sure'
        BY <3>1, Stable, <1>1 DEF Sound
      <4>4. View(s, i)' = BaseOf(b, i)
        <5>1. CASE i \in HostBound(b)
          <6>1. rt'[i].host = Given(i, b[i][2]) /\ rt'[i].hostValid /\ ~rt'[i].deviceValid
            BY <1>9, <2>0, <5>1
          <6>2. View(s, i)' = rt'[i].host
            BY <6>1 DEF View, AlreadyHere
          <6> QED
            BY <1>5, <5>1, <6>1, <6>2 DEF BaseOf
        <5>2. CASE i \notin bound
          <6>1. SameRt(i)
            BY <1>8, <2>0, <2>2, <5>2
          <6>2. Sound(c) /\ Passed(s) /\ ~FdNow(i)
            BY <1>1, <1>5, <4>1, <4>2, <4>3, <5>2 DEF Sound, Passed, FdNow, InRun
          <6>3. View(s, i) = want[i]
            BY <1>0, <3>1, <3>3, <6>2 DEF LoneInv
          <6> QED
            BY <1>5, <1>g, <5>2, <6>1, <6>3 DEF BaseOf
        <5>3. i \notin FdBound(b)
          BY <1>1, <3>3
        <5> QED
          BY <1>5, <5>1, <5>2, <5>3
      <4>5. (CHOOSE m \in linked : m[2] = i) = l
        BY <4>1, <4>2
      <4>6. CASE slot[l] = None
        <5>1. LinkOf(s, i, View(s, i))' = View(s, i)'
          BY <1>1, <4>2, <4>6 DEF LinkOf
        <5>2. want'[i] = BaseOf(b, i)
          BY <1>4, <2>2, <4>2, <4>6
        <5> QED
          BY <4>4, <5>1, <5>2
      <4>7. CASE slot[l] # None
        <5>1. c \in sure /\ Settled(c) /\ l[1] \in LinkedOuts
          BY <1>1, <4>1, <4>2, <4>3, <4>7 DEF Settled, LinkedOuts
        <5>2. buf[s][l[1]] = made[l[1]]
          BY <1>0, <2>0, <4>2, <5>1 DEF OutInv
        <5>3. LinkOf(s, i, View(s, i))' = [View(s, i)' EXCEPT ![slot[l]] = buf[s][l[1]]]
          BY <1>1, <4>1, <4>5, <4>7 DEF LinkOf
        <5>4. want'[i] = [BaseOf(b, i) EXCEPT ![slot[l]] = made[l[1]]]
          BY <1>4, <2>2, <4>1, <4>7
        <5> QED
          BY <4>4, <5>2, <5>3, <5>4
      <4> QED
        BY <4>6, <4>7
    <3> QED
      BY <3>2, <3>3
  <2> QED
    BY <2>1, <2>2
<1>l. CpuLinkInv'
  <2> SUFFICES ASSUME ~OnGpu, NEW l \in linked, Sound(OfLink(l))'
               PROVE  /\ HostStorage(rt'[l[2]], l[2]).host = want'[l[2]]
                      /\ l[2] \in InputsOf(c) => rt'[l[2]].hostValid
    BY <1>1, <1>6, Stable DEF CpuLinkInv, HostStorage
  <2>0. /\ l \in Links /\ l[1] \in GraphOutputs /\ l[2] \in GraphInputs /\ OutputDesc[l[1]].of = OfLink(l)
        /\ InputDesc[l[2]].of = OfLink(l) /\ l[1] \in LinkedOuts
    BY <1>0, GraphIs DEF TypeOK, OfLink, LinkedOuts
  <2>1. CASE OfLink(l) # c
    <3>1. l[2] \notin InputsOf(c) /\ l[2] \notin OutputsOf(c) /\ l[2] \in Tensors
      BY <1>0, <2>0, <2>1, GraphIs DEF InputsOf, OutputsOf, Tensors
    <3>2. rt'[l[2]] = rt[l[2]] /\ want'[l[2]] = want[l[2]]
      BY <1>4, <1>7, <2>0, <3>1
    <3>3. Sound(OfLink(l))
      BY <1>1, <1>j, <2>1, Stable
    <3> QED
      BY <1>0, <3>1, <3>2, <3>3 DEF CpuLinkInv
  <2>2. CASE OfLink(l) = c
    <3>1. l[2] \in InputsOf(c) /\ l[1] \in OutputsOf(c) /\ l \in LinksOf(c)
      BY <2>0, <2>2 DEF InputsOf, OutputsOf, LinksOf
    <3> DEFINE R == BoundAll(c, b, F)
    <3>2. R = [t \in Tensors |-> R[t]] /\ \A t \in Tensors : Rebound(R, t, c, b, F)
      BY <1>0, ReboundIs
    <3>3. \A t \in Tensors : IsRt(R[t])
      BY <3>2 DEF Rebound
    <3> DEFINE L == LinksOf(c)
    <3>4. L \subseteq Links /\ (\A k, m \in L : k[2] = m[2] => k = m) /\ l \in L
      BY <1>0, <3>1 DEF LinksOf, TypeOK, LinksInv
    <3>5. rt' = HostLinked(R, L) /\ FdBound(b) = {}
      BY <1>3
    <3>5a. DOMAIN b = HostBound(b)
      BY <1>5, <3>5
    <3> HIDE DEF R, L
    <3>6. CopiedAs(rt'[l[2]], R, l)
      BY <1>0, <3>3, <3>4, <3>5, HostLinkedIs
    <3>7. rt'[l[2]].hostValid /\ HostStorage(rt'[l[2]], l[2]).host = rt'[l[2]].host
      <4>1. l[2] \in Tensors
        BY <2>0 DEF Tensors
      <4>2. rt'[l[2]].hostValid /\ IsRt(rt'[l[2]])
        BY <1>2, <3>6, <4>1 DEF CopiedAs, BegunRt
      <4> QED
        BY <4>2, HostHeld
    <3>8. c \in sure'
      BY <2>2, Stable, <1>1 DEF Sound
    <3>9. HostStorage(R[l[2]], l[2]).host = BaseOf(b, l[2])
      <4>0. l[2] \in Tensors
        BY <2>0 DEF Tensors
      <4>1. Rebound(R, l[2], c, b, F) /\ IsRt(R[l[2]])
        BY <3>2, <3>3, <4>0
      <4>2. CASE l[2] \in HostBound(b)
        <5>1. R[l[2]].hostValid /\ R[l[2]].host = Given(l[2], b[l[2]][2])
          BY <4>1, <4>2 DEF Rebound
        <5>2. HostStorage(R[l[2]], l[2]).host = R[l[2]].host
          BY <4>1, <5>1, HostHeld
        <5> QED
          BY <3>5a, <4>2, <5>1, <5>2 DEF BaseOf
      <4>3. CASE l[2] \notin HostBound(b)
        <5>1. (R[l[2]].hostValid <=> rt[l[2]].hostValid) /\ R[l[2]].host = rt[l[2]].host
          BY <3>5a, <4>1, <4>3 DEF Rebound
        <5>2. HostStorage(R[l[2]], l[2]).host = HostStorage(rt[l[2]], l[2]).host
          <6>1. IsRt(rt[l[2]])
            BY <1>0, <4>0 DEF ShapeInv
          <6> QED
            BY <4>1, <5>1, <6>1, HostHeld
        <5>3. Sound(c)
          BY <1>1, <3>1, <3>8, <4>3 DEF Sound
        <5>4. HostStorage(rt[l[2]], l[2]).host = want[l[2]]
          BY <1>0, <2>2, <5>3 DEF CpuLinkInv
        <5> QED
          BY <3>5a, <4>3, <5>2, <5>4 DEF BaseOf
      <4> QED
        BY <4>2, <4>3
    <3>10. CASE slot[l] = None
      <4>1. want'[l[2]] = BaseOf(b, l[2])
        BY <1>0, <1>4, <2>0, <3>1, <3>10 DEF LinksInv
      <4> QED
        BY <3>6, <3>7, <3>9, <3>10, <4>1 DEF CopiedAs
    <3>11. CASE slot[l] # None
      <4>1. want'[l[2]] = [BaseOf(b, l[2]) EXCEPT ![slot[l]] = made[l[1]]]
        BY <1>4, <3>1, <3>11
      <4>2. rt'[l[2]].host = [BaseOf(b, l[2]) EXCEPT ![slot[l]] = HostStorage(R[l[1]], l[1]).host]
        BY <3>6, <3>9, <3>11 DEF CopiedAs
      <4>3. HostStorage(R[l[1]], l[1]).host = made[l[1]]
        <5>0. l[1] \in Tensors /\ l[1] \notin DOMAIN b
          BY <1>0, <1>5, <2>0, GraphIs DEF Tensors, InputsOf
        <5>1. Rebound(R, l[1], c, b, F) /\ IsRt(R[l[1]]) /\ IsRt(rt[l[1]])
          BY <1>0, <3>2, <3>3, <5>0 DEF ShapeInv
        <5>2. (R[l[1]].hostValid <=> rt[l[1]].hostValid) /\ R[l[1]].host = rt[l[1]].host
          BY <5>0, <5>1 DEF Rebound
        <5>3. HostStorage(R[l[1]], l[1]).host = HostStorage(rt[l[1]], l[1]).host
          BY <5>1, <5>2, HostHeld
        <5>4. c \in sure
          BY <1>1, <3>1, <3>8, <3>11
        <5>5. HostStorage(rt[l[1]], l[1]).host = made[l[1]]
          BY <1>0, <1>1, <2>0, <2>2, <5>4 DEF OutInv, Settled
        <5> QED
          BY <5>3, <5>5
      <4> QED
        BY <3>7, <4>1, <4>2, <4>3
    <3> QED
      BY <3>7, <3>10, <3>11
  <2> QED
    BY <2>1, <2>2
<1>m. OutInv'
  <2> SUFFICES ASSUME NEW l \in Links, Settled(OfLink(l))'
               PROVE  IF OnGpu
                      THEN \A s \in LinkOwners(l) :
                             l[1] \in LinkedOuts \/ l[1] \notin FdTensors \/ made[l[1]] = None => buf[s][l[1]] = made[l[1]]
                      ELSE l[1] \in LinkedOuts \/ made[l[1]] = None => HostStorage(rt'[l[1]], l[1]).host = made[l[1]]
    BY <1>1, <1>6, Stable DEF OutInv, HostStorage
  <2>1. OfLink(l) # c
    BY <1>1, Stable DEF Settled
  <2>2. Settled(OfLink(l))
    BY <1>1, <1>j, <2>1, Stable
  <2>3. l[1] \in GraphOutputs /\ OutputDesc[l[1]].of = OfLink(l) /\ l[1] \in Tensors
    <3>1. l[1] \in GraphOutputs /\ OutputDesc[l[1]].of = OfLink(l)
      BY <1>0, GraphIs
    <3>2. \E n \in DOMAIN Nodes : l[1] \in Nodes[n].outs
      BY <1>0, <3>1, GraphIs
    <3> QED
      BY <3>1, <3>2 DEF Tensors
  <2>4. l[1] \notin InputsOf(c) \cup OutputsOf(c)
    BY <1>0, <2>1, <2>3, GraphIs DEF InputsOf, OutputsOf
  <2>5. rt'[l[1]] = rt[l[1]]
    BY <1>7, <2>3, <2>4
  <2> QED
    BY <1>0, <2>2, <2>5 DEF OutInv
<1> QED
  BY <1>a, <1>b, <1>c, <1>d, <1>e, <1>f, <1>i, <1>k, <1>l, <1>m DEF IInv


\* A run that is refused after some of it was bound.
LEMMA StepRefused ==
  ASSUME AllSupported, IInv, NEW c \in Range(buckets), NEW bound \in SUBSET InputsOf(c), NEW b \in Entries(bound),
         NEW F \in SUBSET (FdTensors \cap OutputsOf(c)),
         phase = "idle", rt' = BoundAll(c, b, F) \/ (F = {} /\ rt' = Bound(c, b)),
         want' = [i \in GraphInputs |-> IF i \in DOMAIN b \ LinkedIns THEN None ELSE want[i]],
         sure' \in {sure, sure \ {c}}, HostBound(b) \cap LinkedIns # {} => sure' = sure \ {c},
         UNCHANGED <<planVs, buf, fdMem, buckets, linked, slot, argMax, rows, argRes, phase, at, seg, made, completed, ran, thrown>>
  PROVE  IInv'
<1>0. /\ StaticInv /\ TypeOK /\ ShapeInv /\ PhaseInv /\ LinksInv /\ RowsInv /\ FormInv /\ CpuInv /\ FreshInv
      /\ InputInv /\ LoneInv /\ CpuLinkInv /\ OutInv /\ ArgInv
  BY DEF IInv
<1>1. /\ DOMAIN b = bound /\ bound = HostBound(b) \cup FdBound(b) /\ FdBound(b) \subseteq FdTensors
      /\ \A i \in bound : i \in GraphInputs /\ InputDesc[i].of = c
  BY <1>0, EntriesAre
<1>2. rt' = [t \in Tensors |-> rt'[t]] /\ \A t \in Tensors : Rebound(rt', t, c, b, F)
  BY <1>0, ReboundIs
<1>3. LinkedIns' = LinkedIns /\ LinkedOuts' = LinkedOuts /\ Reduced' = Reduced
  BY DEF LinkedIns, LinkedOuts, Reduced
<1>4. ASSUME NEW t \in Tensors, t \notin DOMAIN b PROVE SameRt(t)
  <2>1. Rebound(rt', t, c, b, F)
    BY <1>2
  <2> QED
    BY <1>4, <2>1 DEF Rebound, SameRt
<1>5. \A s, i : SameRt(i) => (AlreadyHere(s, i)' <=> AlreadyHere(s, i)) /\ View(s, i)' = View(s, i)
  BY ViewFrame
<1>6. /\ \A i \in GraphInputs : want'[i] = IF i \in DOMAIN b \ LinkedIns THEN None ELSE want[i]
      /\ want' = [i \in GraphInputs |-> want'[i]]
  OBVIOUS
<1>7. \A i : ~InRun(i) /\ ~InRun(i)' /\ ~FdNow(i) /\ ~FdNow(i)'
  BY DEF InRun, FdNow
<1>8. \A d : (Sound(d)' => Sound(d)) /\ (Settled(d)' => Settled(d)) /\ (Sound(d)' => d \in sure')
  BY DEF Sound, Settled
<1>9. \A s : Passed(s) /\ Passed(s)'
  BY DEF Passed
<1>a. StaticInv' /\ PhaseInv' /\ LinksInv' /\ FdInv' /\ RowsInv' /\ UpInv' /\ MadeInv' /\ ResultsAreCurrent'
  <2>1. StaticInv' /\ PhaseInv' /\ LinksInv' /\ RowsInv'
    BY <1>0, Stable DEF StaticInv, planVs, PhaseInv, LinksInv, RowsInv, FlatBoundary
  <2>2. FdInv' /\ UpInv' /\ MadeInv' /\ ResultsAreCurrent'
    BY DEF FdInv, UpInv, MadeInv, ResultsAreCurrent
  <2> QED
    BY <2>1, <2>2
<1>b. TypeOK'
  <2>1. ASSUME NEW t \in Tensors
        PROVE  /\ rt'[t].form \in {"f32", "fp16"} /\ rt'[t].owner \in Segs \cup {Nobody, TheFd}
               /\ rt'[t].hostValid \in BOOLEAN /\ rt'[t].deviceValid \in BOOLEAN
               /\ rt'[t].fd \in BOOLEAN /\ (rt'[t].fd => t \in FdTensors)
               /\ rt'[t].deviceValid => rt'[t].owner # Nobody
    BY <1>0, <1>2 DEF TypeOK, Rebound
  <2>2. sure' \subseteq AllBuckets
    BY <1>0 DEF TypeOK
  <2> QED
    BY <1>0, <1>3, <2>1, <2>2, Stable DEF TypeOK
<1>c. ShapeInv'
  <2>1. \A t \in Tensors : IsRt(rt'[t])
    BY <1>2 DEF Rebound
  <2> QED
    BY <1>0, <1>2, <1>6, <2>1, Stable DEF ShapeInv
<1>d. FormInv' /\ CpuInv' /\ FreshInv'
  <2>1. FormInv'
    BY <1>0, <1>2, Stable DEF FormInv, Rebound
  <2>2. CpuInv'
    BY <1>0, <1>2, Stable DEF CpuInv, Rebound
  <2>3. FreshInv'
    BY <1>0, <1>2, Stable DEF FreshInv, Rebound, Tensors
  <2> QED
    BY <2>1, <2>2, <2>3
<1>e. InputInv'
  <2> SUFFICES ASSUME NEW i \in GraphInputs, i \notin LinkedIns, Held(i)'
               PROVE  (IF \E s \in Segs : Lone(s, i) THEN \A s \in Segs : Lone(s, i) => View(s, i) = want[i]
                       ELSE Solid(i, want[i]))'
    BY <1>3, <1>7, Stable DEF InputInv
  <2>1. i \notin DOMAIN b /\ want'[i] = want[i] /\ Held(i)
    BY <1>6, <1>7 DEF Held
  <2>2. i \in Tensors /\ SameRt(i)
    BY <1>4, <2>1 DEF Tensors
  <2>3. IF \E s \in Segs : Lone(s, i) THEN \A s \in Segs : Lone(s, i) => View(s, i) = want[i] ELSE Solid(i, want[i])
    BY <1>0, <1>7, <2>1 DEF InputInv
  <2>4. \A s : (AlreadyHere(s, i)' <=> AlreadyHere(s, i)) /\ View(s, i)' = View(s, i) /\ (Lone(s, i)' <=> Lone(s, i))
    BY <1>5, <2>2, LoneFrame
  <2> QED
    BY <2>1, <2>2, <2>3, <2>4, Stable DEF Solid, SameRt
<1>f. LoneInv'
  <2> SUFFICES ASSUME NEW i \in GraphInputs, NEW s \in Segs, Lone(s, i), Sound(InputDesc[i].of)',
                      i \in LinkedIns \/ Held(i)'
               PROVE  buf[s][i] = want'[i] /\ View(s, i)' = want'[i]
    BY <1>3, <1>9, Stable, LoneFrame DEF LoneInv
  <2>1. Sound(InputDesc[i].of) /\ InputDesc[i].of \in sure'
    BY <1>8, Stable
  <2>2. i \in DOMAIN b => i \in LinkedIns
    BY <1>6, <1>7 DEF Held
  <2>3. want'[i] = want[i]
    BY <1>6, <2>2
  <2>4. i \in LinkedIns \/ Held(i)
    BY <1>7, <2>3 DEF Held
  <2>5. buf[s][i] = want[i] /\ View(s, i) = want[i]
    BY <1>0, <1>7, <1>9, <2>1, <2>4 DEF LoneInv
  <2>6. CASE i \notin DOMAIN b
    <3>1. SameRt(i)
      BY <1>4, <2>6 DEF Tensors
    <3> QED
      BY <1>5, <2>3, <2>5, <3>1
  <2>7. CASE i \in DOMAIN b
    <3>1. i \notin HostBound(b)
      BY <1>1, <2>1, <2>2, <2>7
    <3>2. Rebound(rt', i, c, b, F) /\ i \in FdBound(b)
      BY <1>1, <1>2, <2>7, <3>1 DEF Tensors
    <3>3. View(s, i)' = buf[s][i]
      BY <3>2 DEF Rebound, View
    <3> QED
      BY <2>3, <2>5, <3>3
  <2> QED
    BY <2>6, <2>7
<1>g. CpuLinkInv'
  <2> SUFFICES ASSUME ~OnGpu, NEW l \in linked, Sound(OfLink(l))'
               PROVE  HostStorage(rt'[l[2]], l[2]).host = want'[l[2]]
    BY <1>7, Stable DEF CpuLinkInv, HostStorage
  <2>1. l[2] \in GraphInputs /\ l[2] \in LinkedIns /\ l[2] \in Tensors /\ OfLink(l) = InputDesc[l[2]].of
    BY <1>0, GraphIs DEF TypeOK, LinkedIns, Tensors, OfLink
  <2>2. Sound(OfLink(l)) /\ OfLink(l) \in sure'
    BY <1>8, Stable
  <2>3. l[2] \notin DOMAIN b
    <3>1. FdBound(b) = {}
      BY <1>0, <1>1, SupportedIs
    <3> QED
      BY <1>1, <2>1, <2>2, <3>1
  <2>4. SameRt(l[2]) /\ IsRt(rt[l[2]]) /\ IsRt(rt'[l[2]])
    <3>1. l[2] \in Tensors /\ SameRt(l[2])
      BY <1>2, <1>4, <2>1, <2>3
    <3>2. IsRt(rt[l[2]])
      BY <1>0, <3>1 DEF ShapeInv
    <3>3. IsRt(rt'[l[2]])
      BY <1>2, <3>1 DEF Rebound
    <3> QED
      BY <3>1, <3>2, <3>3
  <2>5. HostStorage(rt'[l[2]], l[2]).host = HostStorage(rt[l[2]], l[2]).host
    BY <2>4, HostHeld DEF SameRt
  <2> QED
    BY <1>0, <1>6, <2>1, <2>2, <2>5 DEF CpuLinkInv
<1>h. ASSUME NEW o \in GraphOutputs
      PROVE  o \in Tensors /\ SameRt(o) /\ HostStorage(rt'[o], o).host = HostStorage(rt[o], o).host
  <2>1. o \in Tensors /\ o \notin DOMAIN b
    <3>1. GraphInputs \cap GraphOutputs = {}
      BY <1>0, GraphIs
    <3>2. \E n \in DOMAIN Nodes : o \in Nodes[n].outs
      BY <1>0, GraphIs
    <3>3. DOMAIN b \subseteq GraphInputs
      BY <1>1 DEF InputsOf
    <3> QED
      BY <3>1, <3>2, <3>3 DEF Tensors
  <2>2. SameRt(o) /\ IsRt(rt[o]) /\ IsRt(rt'[o])
    BY <1>0, <1>2, <1>4, <2>1 DEF ShapeInv, Rebound
  <2> QED
    BY <2>1, <2>2, HostHeld DEF SameRt
<1>i. OutInv'
  <2> SUFFICES ASSUME NEW l \in Links, Settled(OfLink(l))'
               PROVE  IF OnGpu
                      THEN \A s \in LinkOwners(l) :
                             l[1] \in LinkedOuts \/ l[1] \notin FdTensors \/ made[l[1]] = None => buf[s][l[1]] = made[l[1]]
                      ELSE l[1] \in LinkedOuts \/ made[l[1]] = None => HostStorage(rt'[l[1]], l[1]).host = made[l[1]]
    BY <1>3, Stable DEF OutInv, HostStorage
  <2>1. Settled(OfLink(l)) /\ l[1] \in GraphOutputs
    BY <1>0, <1>8, Stable, GraphIs
  <2>2. HostStorage(rt'[l[1]], l[1]).host = HostStorage(rt[l[1]], l[1]).host
    BY <1>h, <2>1
  <2> QED
    BY <1>0, <2>1, <2>2 DEF OutInv
<1>j. ArgInv'
  <2>1. \A o \in ran : o \in GraphOutputs
    BY <1>0, GraphIs DEF TypeOK
  <2> QED
    BY <1>0, <1>h, <2>1, Stable DEF ArgInv, DeviceArgMax, FlatBoundary, SameRt
<1> QED
  BY <1>a, <1>b, <1>c, <1>d, <1>e, <1>f, <1>g, <1>i, <1>j DEF IInv

\* An entry of the inputs is refused.
LEMMA StepRejectInput ==
  ASSUME AllSupported, IInv, NEW c \in Range(buckets), NEW bound \in SUBSET InputsOf(c), NEW b \in Entries(bound),
         RejectInput(c, b)
  PROVE  IInv'
<1>1. /\ phase = "idle" /\ rt' = Bound(c, b)
      /\ want' = [i \in GraphInputs |-> IF i \in DOMAIN b \ LinkedIns THEN None ELSE want[i]]
      /\ sure' = (IF HostBound(b) \cap LinkedIns = {} THEN sure ELSE sure \ {c})
      /\ UNCHANGED <<planVs, buf, fdMem, buckets, linked, slot, argMax, rows, argRes, phase, at, seg, made, completed, ran, thrown>>
  BY DEF RejectInput, sessionVs
<1> DEFINE F == {}
<1>2. F \in SUBSET (FdTensors \cap OutputsOf(c)) /\ F = {}
  OBVIOUS
<1> HIDE DEF F
<1>3. sure' \in {sure, sure \ {c}} /\ (HostBound(b) \cap LinkedIns # {} => sure' = sure \ {c})
  BY <1>1
<1> QED
  BY <1>1, <1>2, <1>3, StepRefused

\* A run that binds a linked tensor to a dma-buf is refused.
LEMMA StepRejectLinkedFd ==
  ASSUME AllSupported, IInv, NEW c \in Range(buckets), NEW bound \in SUBSET InputsOf(c), NEW b \in Entries(bound),
         NEW F \in SUBSET (FdTensors \cap OutputsOf(c)), NEW L, RejectLinkedFd(c, b, F, L)
  PROVE  IInv'
<1>0. StaticInv /\ FdBound(b) \subseteq FdTensors
  BY EntriesAre DEF IInv
<1>1. OnGpu
  <2>1. FdTensors # {}
    BY <1>0 DEF RejectLinkedFd
  <2> QED
    BY <1>0, <2>1, SupportedIs
<1>2. /\ phase = "idle" /\ rt' = BoundAll(c, b, F)
      /\ want' = [i \in GraphInputs |-> IF i \in DOMAIN b \ LinkedIns THEN None ELSE want[i]]
      /\ sure' = (IF HostBound(b) \cap LinkedIns = {} /\ L = {} THEN sure ELSE sure \ {c})
      /\ UNCHANGED <<planVs, buf, fdMem, buckets, linked, slot, argMax, rows, argRes, phase, at, seg, made, completed, ran, thrown>>
  BY <1>1 DEF RejectLinkedFd, sessionVs
<1>3. sure' \in {sure, sure \ {c}} /\ (HostBound(b) \cap LinkedIns # {} => sure' = sure \ {c})
  BY <1>2
<1> QED
  BY <1>2, <1>3, StepRefused


-----------------------------------------------------------------------------
\* The segments of a run.

\* What the steps of a run leave alone.
LEMMA RunFrame ==
  ASSUME IInv, phase \in {"run", "uploaded", "submitted"}, phase' \in {"run", "uploaded", "submitted", "threw"},
         UNCHANGED <<planVs, buckets, linked, slot, argMax, rows, at, want, made, sure, completed, ran, thrown>>
  PROVE  /\ StaticInv' /\ LinksInv' /\ RowsInv' /\ ResultsAreCurrent' /\ ArgInv'
         /\ LinkedIns' = LinkedIns /\ LinkedOuts' = LinkedOuts /\ Reduced' = Reduced /\ Current' = Current
         /\ \A i : (InRun(i)' <=> InRun(i)) /\ (Held(i)' <=> Held(i)) /\ (InRun(i) <=> i \in InputsOf(at))
         /\ \A o : /\ (DeviceArgMax(o)' <=> DeviceArgMax(o)) /\ (StaysOnDevice(o)' <=> StaysOnDevice(o))
                   /\ \A v : Shown(o, v)' = Shown(o, v)
         /\ \A b : (Settled(b)' <=> Settled(b)) /\ (Settled(b) <=> b \in sure /\ b # at)
         /\ \A b : Sound(b) <=> b \in sure
         /\ phase' # "threw" => \A b : Sound(b)' <=> Sound(b)
<1>1. StaticInv /\ LinksInv /\ RowsInv
  BY DEF IInv
<1>2. LinkedIns' = LinkedIns /\ LinkedOuts' = LinkedOuts /\ Reduced' = Reduced /\ Current' = Current
  BY Stable DEF LinkedIns, LinkedOuts, Reduced
<1>3. \A i : (InRun(i)' <=> InRun(i)) /\ (Held(i)' <=> Held(i)) /\ (InRun(i) <=> i \in InputsOf(at))
  BY Stable DEF InRun, Held
<1>4. \A o : DeviceArgMax(o)' <=> DeviceArgMax(o)
  BY Stable DEF DeviceArgMax, FlatBoundary
<1>5. \A o : (StaysOnDevice(o)' <=> StaysOnDevice(o)) /\ \A v : Shown(o, v)' = Shown(o, v)
  BY <1>2, <1>4 DEF StaysOnDevice, Shown, Row
<1>6. StaticInv' /\ LinksInv' /\ RowsInv'
  BY <1>1, Stable DEF StaticInv, planVs, LinksInv, RowsInv, FlatBoundary
<1>7. ResultsAreCurrent' /\ ArgInv'
  BY DEF ResultsAreCurrent, ArgInv
<1>8. /\ \A b : (Settled(b)' <=> Settled(b)) /\ (Settled(b) <=> b \in sure /\ b # at)
      /\ \A b : Sound(b) <=> b \in sure
      /\ phase' # "threw" => \A b : Sound(b)' <=> Sound(b)
  BY DEF Settled, Sound
<1> QED
  BY <1>2, <1>3, <1>4, <1>5, <1>6, <1>7, <1>8

\* What an upload makes of a boundary input of the segment.
UploadedAs(t) ==
  /\ IsRt(rt'[t]) /\ rt'[t].host = rt[t].host /\ rt'[t].form = rt[t].form /\ rt'[t].hostValid = rt[t].hostValid
  /\ rt'[t].fd = rt[t].fd /\ rt'[t].deviceValid \in BOOLEAN
  /\ t \notin BoundaryIns(seg) => rt'[t] = rt[t] /\ \A s \in Segs : buf'[s][t] = buf[s][t]
  /\ t \in BoundaryIns(seg) =>
       /\ rt'[t].owner = IF rt[t].fd THEN TheFd ELSE seg
       /\ ~rt[t].fd => /\ rt[t].hostValid => rt'[t].deviceValid
                       /\ buf'[seg][t] = View(seg, t)

\* The records and the buffers after an upload, tensor by tensor.
LEMMA UploadIs ==
  ASSUME AllSupported, IInv, Upload
  PROVE  /\ phase = "run" /\ phase' = "uploaded" /\ seg \in SegsOf(at) /\ Dev(seg) = "gpu" /\ OnGpu /\ seg \in Segs
         /\ UNCHANGED <<planVs, fdMem, buckets, linked, slot, argMax, rows, argRes, at, seg, want, made, sure, completed, ran, thrown>>
         /\ rt' = [t \in Tensors |-> rt'[t]] /\ \A t \in Tensors : UploadedAs(t)
         /\ buf' = [s \in Segs |-> [t \in Tensors |-> buf'[s][t]]] /\ \A s \in Segs \ {seg} : buf'[s] = buf[s]
<1>0. StaticInv /\ TypeOK /\ ShapeInv
  BY DEF IInv
<1> DEFINE packed == {t \in BoundaryIns(seg) : ~rt[t].fd /\ rt[t].hostValid /\ ~AlreadyHere(seg, t)}
           here == {t \in BoundaryIns(seg) : rt[t].fd \/ t \in packed \/ t \in LinkedIns}
<1>1. /\ phase = "run" /\ phase' = "uploaded" /\ seg \in SegsOf(at) /\ Dev(seg) = "gpu"
      /\ UNCHANGED <<planVs, fdMem, buckets, linked, slot, argMax, rows, argRes, at, seg, want, made, sure, completed, ran, thrown>>
      /\ buf' = [buf EXCEPT ![seg] = [t \in Tensors |-> IF t \in packed THEN rt[t].host ELSE @[t]]]
      /\ rt' = [t \in Tensors |->
                  IF t \notin BoundaryIns(seg) THEN rt[t]
                  ELSE [rt[t] EXCEPT !.owner = IF rt[t].fd THEN TheFd ELSE seg, !.deviceValid = @ \/ t \in here]]
  BY DEF Upload, sessionVs, history
<1>2. seg \in Segs /\ OnGpu
  BY <1>0, <1>1, SegmentIs DEF SegsOf
<1>3. /\ \A s \in Segs \ {seg} : buf'[s] = buf[s]
      /\ buf'[seg] = [t \in Tensors |-> IF t \in packed THEN rt[t].host ELSE buf[seg][t]]
      /\ buf' = [s \in Segs |-> buf'[s]]
  <2>1. buf = [s \in Segs |-> [t \in Tensors |-> buf[s][t]]]
    BY <1>0 DEF ShapeInv
  <2> HIDE DEF packed
  <2> QED
    BY <1>1, <1>2, <2>1
<1>4. buf' = [s \in Segs |-> [t \in Tensors |-> buf'[s][t]]]
  <2>1. \A s \in Segs : buf[s] = [t \in Tensors |-> buf[s][t]]
    BY <1>0 DEF ShapeInv
  <2> HIDE DEF packed
  <2>2. ASSUME NEW s \in Segs PROVE buf'[s] = [t \in Tensors |-> buf'[s][t]]
    <3>1. CASE s = seg
      <4>1. buf'[s] = [t \in Tensors |-> IF t \in packed THEN rt[t].host ELSE buf[seg][t]]
        BY <1>3, <3>1
      <4> QED
        BY <4>1
    <3>2. CASE s # seg
      <4>1. buf'[s] = buf[s]
        BY <1>3, <3>2
      <4> QED
        BY <2>1, <4>1
    <3> QED
      BY <3>1, <3>2
  <2> QED
    BY <1>3, <2>2
<1>5. rt' = [t \in Tensors |-> rt'[t]]
  BY <1>1
<1>6. ASSUME NEW t \in Tensors PROVE UploadedAs(t)
  <2>1. IsRt(rt[t]) /\ rt[t].deviceValid \in BOOLEAN /\ rt[t].hostValid \in BOOLEAN
    BY <1>0 DEF ShapeInv, TypeOK
  <2>2. CASE t \notin BoundaryIns(seg)
    <3>1. rt'[t] = rt[t] /\ \A s \in Segs : buf'[s][t] = buf[s][t]
      BY <1>1, <1>3, <2>2
    <3> QED
      BY <2>1, <2>2, <3>1 DEF UploadedAs
  <2>3. CASE t \in BoundaryIns(seg)
    <3> DEFINE o == IF rt[t].fd THEN TheFd ELSE seg
               d == rt[t].deviceValid \/ t \in here
    <3>1. rt'[t] = [rt[t] EXCEPT !.owner = o, !.deviceValid = d]
      BY <1>1, <2>3
    <3>2. d \in BOOLEAN
      BY <2>1
    <3>3. buf'[seg][t] = (IF t \in packed THEN rt[t].host ELSE buf[seg][t])
      BY <1>3
    <3>4. ~rt[t].fd => /\ rt[t].hostValid => d
                       /\ buf'[seg][t] = View(seg, t)
      BY <2>3, <3>3 DEF View, AlreadyHere
    <3> HIDE DEF o, d, here, packed
    <3>5. RtIs(rt'[t], rt[t].host, rt[t].form, rt[t].hostValid, o, d, rt[t].fd)
      BY <2>1, <3>1, Updates, Zenon
    <3>6. IsRt(rt'[t]) /\ rt'[t].host = rt[t].host /\ rt'[t].form = rt[t].form /\ rt'[t].hostValid = rt[t].hostValid
          /\ rt'[t].owner = o /\ rt'[t].deviceValid = d /\ rt'[t].fd = rt[t].fd
      BY <3>5, Zenon DEF RtIs
    <3>7. rt'[t].deviceValid \in BOOLEAN
      BY <3>2, <3>6
    <3>8. ~rt[t].fd => (rt[t].hostValid => rt'[t].deviceValid)
      BY <3>4, <3>6
    <3> QED
      BY <2>3, <3>4, <3>6, <3>7, <3>8, Zenon DEF UploadedAs, o
  <2> QED
    BY <2>2, <2>3
<1> QED
  BY <1>1, <1>2, <1>3, <1>4, <1>5, <1>6

\* What the steps of a run need for the types.
LEMMA RunTypes ==
  ASSUME IInv, UNCHANGED <<planVs, buckets, linked, slot, argMax, rows, at>>,
         phase' \in {"idle", "run", "uploaded", "submitted", "threw", "done"},
         seg' = seg \/ (seg \in Segs /\ seg' = seg + 1),
         sure' \subseteq sure, completed' \in BOOLEAN, thrown' \in 0 .. MaxThrows, ran' \subseteq Reduced,
         \A t \in Tensors : /\ rt'[t].form \in {"f32", "fp16"} /\ rt'[t].owner \in Segs \cup {Nobody, TheFd}
                            /\ rt'[t].hostValid \in BOOLEAN /\ rt'[t].deviceValid \in BOOLEAN
                            /\ rt'[t].fd \in BOOLEAN /\ (rt'[t].fd => t \in FdTensors)
                            /\ rt'[t].deviceValid => rt'[t].owner # Nobody
  PROVE  TypeOK'
<1>1. TypeOK /\ StaticInv
  BY DEF IInv
<1>2. seg' \in 1 .. Cardinality(Segs) + 1
  <2>1. Segs = 1 .. Rank(Len(Nodes)) /\ Rank(Len(Nodes)) \in Nat
    BY <1>1, PartitionIs, GraphIs, RankIs
  <2>2. Cardinality(Segs) = Rank(Len(Nodes))
    BY <2>1, FS_Interval
  <2>3. seg \in 1 .. Cardinality(Segs) + 1
    BY <1>1 DEF TypeOK
  <2> QED
    BY <2>1, <2>2, <2>3
<1>3. Reduced' = Reduced
  BY DEF Reduced
<1> QED
  BY <1>1, <1>2, <1>3, Stable DEF TypeOK

\* What a link copies into an input depends on the source and on the input alone.
LEMMA LinkFrame ==
  ASSUME UNCHANGED <<linked, slot>>, NEW s, NEW i, View(s, i)' = View(s, i),
         \A l \in linked : l[2] = i => buf'[s][l[1]] = buf[s][l[1]]
  PROVE  LinkOf(s, i, View(s, i))' = LinkOf(s, i, View(s, i))
<1>1. CASE \E l \in linked : l[2] = i /\ slot[l] # None
  <2> DEFINE l == CHOOSE m \in linked : m[2] = i
  <2>1. l \in linked /\ l[2] = i
    BY <1>1
  <2>2. buf'[s][l[1]] = buf[s][l[1]]
    BY <2>1
  <2> QED
    BY <1>1, <2>2 DEF LinkOf
<1>2. CASE ~ \E l \in linked : l[2] = i /\ slot[l] # None
  BY <1>2 DEF LinkOf
<1> QED
  BY <1>1, <1>2

\* The upload of a segment's inputs.
LEMMA StepUpload ==
  ASSUME AllSupported, IInv, Upload
  PROVE  IInv'
<1>0. /\ StaticInv /\ TypeOK /\ ShapeInv /\ LinksInv /\ FdInv /\ RowsInv /\ FormInv /\ FreshInv
      /\ InputInv /\ LoneInv /\ OutInv /\ MadeInv
  BY DEF IInv
<1>1. /\ phase = "run" /\ phase' = "uploaded" /\ seg \in SegsOf(at) /\ Dev(seg) = "gpu" /\ OnGpu /\ seg \in Segs
      /\ UNCHANGED <<planVs, fdMem, buckets, linked, slot, argMax, rows, argRes, at, seg, want, made, sure, completed, ran, thrown>>
      /\ rt' = [t \in Tensors |-> rt'[t]]
      /\ buf' = [s \in Segs |-> [t \in Tensors |-> buf'[s][t]]] /\ \A s \in Segs \ {seg} : buf'[s] = buf[s]
  BY UploadIs
<1>2. \A t \in Tensors : UploadedAs(t)
  BY UploadIs
<1>3. /\ StaticInv' /\ LinksInv' /\ RowsInv' /\ ResultsAreCurrent' /\ ArgInv'
      /\ LinkedIns' = LinkedIns /\ LinkedOuts' = LinkedOuts /\ Reduced' = Reduced /\ Current' = Current
      /\ \A i : (InRun(i)' <=> InRun(i)) /\ (Held(i)' <=> Held(i)) /\ (InRun(i) <=> i \in InputsOf(at))
      /\ \A o : /\ (DeviceArgMax(o)' <=> DeviceArgMax(o)) /\ (StaysOnDevice(o)' <=> StaysOnDevice(o))
                /\ \A v : Shown(o, v)' = Shown(o, v)
      /\ \A b : (Settled(b)' <=> Settled(b)) /\ (Settled(b) <=> b \in sure /\ b # at)
      /\ \A b : Sound(b)' <=> Sound(b)
  BY <1>1, RunFrame
<1>4. seg \in Nat \ {0} /\ \A s \in Segs : s \in Nat \ {0}
  BY <1>0, <1>1, SegmentIs
<1>5. ASSUME NEW t \in Tensors, t \notin BoundaryIns(seg)
      PROVE  /\ rt'[t] = rt[t] /\ SameRt(t) /\ \A s \in Segs : buf'[s][t] = buf[s][t]
             /\ \A s \in Segs : (AlreadyHere(s, t)' <=> AlreadyHere(s, t)) /\ View(s, t)' = View(s, t)
  <2>1. rt'[t] = rt[t] /\ \A s \in Segs : buf'[s][t] = buf[s][t]
    BY <1>2, <1>5 DEF UploadedAs
  <2>2. SameRt(t)
    BY <2>1 DEF SameRt
  <2> QED
    BY <1>1, <2>1, <2>2, ViewFrame
<1>6. ASSUME NEW t \in BoundaryIns(seg)
      PROVE  /\ t \in Tensors /\ rt'[t].host = rt[t].host /\ (rt'[t].hostValid <=> rt[t].hostValid) /\ (rt'[t].fd <=> rt[t].fd)
             /\ rt'[t].owner # Nobody /\ \A s \in Segs : AlreadyHere(s, t)' => s = seg /\ ~rt[t].fd
             /\ ~rt[t].fd => /\ buf'[seg][t] = View(seg, t) /\ View(seg, t)' = View(seg, t)
                             /\ rt[t].hostValid => AlreadyHere(seg, t)'
             /\ \A s \in Segs : s = seg /\ ~rt[t].fd => View(s, t)' = View(s, t)
  <2>1. t \in Tensors
    BY <1>0, <1>1, InsAre
  <2>2. UploadedAs(t)
    BY <1>2, <2>1
  <2>3. /\ rt'[t].host = rt[t].host /\ (rt'[t].hostValid <=> rt[t].hostValid) /\ (rt'[t].fd <=> rt[t].fd)
        /\ rt'[t].owner = IF rt[t].fd THEN TheFd ELSE seg
        /\ ~rt[t].fd => /\ buf'[seg][t] = View(seg, t)
                        /\ rt[t].hostValid => rt'[t].deviceValid
    BY <1>6, <2>2 DEF UploadedAs
  <2>4. rt'[t].owner # Nobody /\ \A s \in Segs : rt'[t].owner = s => s = seg /\ ~rt[t].fd
    BY <1>4, <2>3 DEF Nobody, TheFd
  <2>5. \A s \in Segs : AlreadyHere(s, t)' => s = seg /\ ~rt[t].fd
    BY <2>4 DEF AlreadyHere
  <2>6. ~rt[t].fd /\ rt[t].hostValid => AlreadyHere(seg, t)'
    BY <1>1, <2>3 DEF AlreadyHere
  <2>7. ~rt[t].fd => View(seg, t)' = buf'[seg][t]
    BY <1>1, <2>3, <2>6 DEF View
  <2>8. ASSUME NEW s \in Segs, s = seg, ~rt[t].fd PROVE View(s, t)' = View(s, t)
    <3>1. rt[t].hostValid => AlreadyHere(s, t)'
      BY <1>1, <2>3, <2>8 DEF AlreadyHere
    <3>2. View(s, t)' = buf'[s][t]
      BY <2>3, <3>1 DEF View
    <3> QED
      BY <2>3, <2>8, <3>2
  <2> QED
    BY <2>1, <2>3, <2>4, <2>5, <2>6, <2>7, <2>8
<1>a. PhaseInv' /\ FdInv' /\ FormInv' /\ CpuInv' /\ CpuLinkInv'
  <2>1. PhaseInv'
    BY <1>1, Stable DEF PhaseInv
  <2>2. FdInv'
    <3>1. \A t \in InputsOf(at) \cup OutputsOf(at) : t \in Tensors
      BY <1>0, GraphIs DEF InputsOf, OutputsOf, Tensors
    <3>2. \A t \in InputsOf(at) \cup OutputsOf(at) : rt'[t].fd = rt[t].fd
      BY <1>2, <3>1 DEF UploadedAs
    <3> QED
      BY <1>0, <1>1, <1>3, <3>2, Stable DEF FdInv
  <2>3. FormInv'
    BY <1>0, <1>1, <1>2, Stable DEF FormInv, UploadedAs
  <2>4. CpuInv' /\ CpuLinkInv'
    BY <1>1, Stable DEF CpuInv, CpuLinkInv
  <2> QED
    BY <2>1, <2>2, <2>3, <2>4
<1>b. TypeOK'
  <2>1. ASSUME NEW t \in Tensors
        PROVE  /\ rt'[t].form \in {"f32", "fp16"} /\ rt'[t].owner \in Segs \cup {Nobody, TheFd}
               /\ rt'[t].hostValid \in BOOLEAN /\ rt'[t].deviceValid \in BOOLEAN
               /\ rt'[t].fd \in BOOLEAN /\ (rt'[t].fd => t \in FdTensors)
               /\ rt'[t].deviceValid => rt'[t].owner # Nobody
    <3>1. /\ rt[t].form \in {"f32", "fp16"} /\ rt[t].owner \in Segs \cup {Nobody, TheFd}
          /\ rt[t].hostValid \in BOOLEAN /\ rt[t].deviceValid \in BOOLEAN
          /\ rt[t].fd \in BOOLEAN /\ (rt[t].fd => t \in FdTensors)
          /\ rt[t].deviceValid => rt[t].owner # Nobody
      BY <1>0 DEF TypeOK
    <3>2. CASE t \notin BoundaryIns(seg)
      BY <1>5, <3>1, <3>2
    <3>3. CASE t \in BoundaryIns(seg)
      <4>1. UploadedAs(t) /\ rt'[t].owner # Nobody
        BY <1>2, <1>6, <3>3
      <4>2. rt'[t].owner \in Segs \cup {Nobody, TheFd}
        BY <1>1, <3>3, <4>1 DEF UploadedAs
      <4> QED
        BY <3>1, <4>1, <4>2 DEF UploadedAs
    <3> QED
      BY <3>2, <3>3
  <2>2. /\ sure' \subseteq sure /\ completed' \in BOOLEAN /\ thrown' \in 0 .. MaxThrows /\ ran' \subseteq Reduced
        /\ phase' \in {"idle", "run", "uploaded", "submitted", "threw", "done"}
    BY <1>0, <1>1 DEF TypeOK
  <2> QED
    BY <1>1, <2>1, <2>2, RunTypes
<1>c. ShapeInv'
  <2>1. \A t \in Tensors : IsRt(rt'[t])
    BY <1>2 DEF UploadedAs
  <2> QED
    BY <1>0, <1>1, <2>1, Stable DEF ShapeInv
<1>d. FreshInv'
  <2> SUFFICES ASSUME NEW i \in GraphInputs, rt'[i].owner = Nobody, NEW s \in Segs PROVE buf'[s][i] = Zero(i)
    BY <1>1, Stable DEF FreshInv
  <2>1. i \in Tensors /\ i \notin BoundaryIns(seg)
    BY <1>6 DEF Tensors
  <2> QED
    BY <1>0, <1>5, <2>1 DEF FreshInv
<1>e. UpInv'
  BY <1>1, <1>6, Stable DEF UpInv
<1>f. ASSUME NEW i \in GraphInputs, i \in BoundaryIns(seg), ~FdNow(i)' PROVE ~rt[i].fd /\ ~FdNow(i) /\ InputDesc[i].of = at
  <2>1. InputDesc[i].of = at
    BY <1>0, <1>1, <1>f, InsAre DEF SegsOf
  <2>2. InRun(i)
    BY <1>3, <2>1 DEF InputsOf
  <2>3. ~rt'[i].fd
    BY <1>3, <1>f, <2>2 DEF FdNow
  <2>4. ~rt[i].fd
    BY <1>6, <1>f, <2>3
  <2> QED
    BY <2>1, <2>4 DEF FdNow
<1>g. InputInv'
  <2> SUFFICES ASSUME NEW i \in GraphInputs, i \notin LinkedIns, Held(i)
               PROVE  (IF FdNow(i) THEN fdMem[i] = want[i]
                       ELSE IF \E s \in Segs : Lone(s, i) THEN \A s \in Segs : Lone(s, i) => View(s, i) = want[i]
                       ELSE Solid(i, want[i]))'
    BY <1>1, <1>3, Stable DEF InputInv
  <2>0. i \in Tensors
    BY DEF Tensors
  <2>1. IF FdNow(i) THEN fdMem[i] = want[i]
        ELSE IF \E s \in Segs : Lone(s, i) THEN \A s \in Segs : Lone(s, i) => View(s, i) = want[i]
        ELSE Solid(i, want[i])
    BY <1>0 DEF InputInv
  <2>2. rt'[i].fd = rt[i].fd /\ rt'[i].host = rt[i].host /\ rt'[i].hostValid = rt[i].hostValid
    BY <1>2, <2>0 DEF UploadedAs
  <2>3. FdNow(i)' <=> FdNow(i)
    BY <1>3, <2>2 DEF FdNow
  <2>4. CASE FdNow(i)
    BY <1>1, <2>1, <2>3, <2>4
  <2>5. CASE ~FdNow(i) /\ \E s \in Segs : Lone(s, i)
    <3> SUFFICES ASSUME NEW s \in Segs, Lone(s, i) PROVE View(s, i)' = want[i]
      BY <1>1, <2>3, <2>5, LoneFrame, Stable
    <3>1. View(s, i) = want[i]
      BY <2>1, <2>5
    <3>2. CASE i \in BoundaryIns(seg)
      <4>1. s = seg
        BY <1>0, <1>1, <3>2, LoneIs
      <4>2. ~rt[i].fd
        BY <1>f, <2>3, <2>5, <3>2
      <4> QED
        BY <1>6, <3>1, <3>2, <4>1, <4>2
    <3>3. CASE i \notin BoundaryIns(seg)
      BY <1>5, <2>0, <3>1, <3>3
    <3> QED
      BY <3>2, <3>3
  <2>6. CASE ~FdNow(i) /\ ~ \E s \in Segs : Lone(s, i)
    <3>1. rt[i].hostValid /\ rt[i].host = want[i] /\ \A s \in Segs : AlreadyHere(s, i) => buf[s][i] = want[i]
      BY <2>1, <2>6 DEF Solid
    <3>2. ASSUME NEW s \in Segs, AlreadyHere(s, i)' PROVE buf'[s][i] = want[i]
      <4>1. CASE i \in BoundaryIns(seg)
        <5>1. s = seg /\ buf'[seg][i] = View(seg, i)
          BY <1>6, <3>2, <4>1
        <5> QED
          BY <1>1, <3>1, <5>1 DEF View
      <4>2. CASE i \notin BoundaryIns(seg)
        BY <1>5, <2>0, <3>1, <3>2, <4>2
      <4> QED
        BY <4>1, <4>2
    <3>3. Solid(i, want[i])'
      BY <1>1, <2>2, <3>1, <3>2, Stable DEF Solid
    <3> QED
      BY <1>1, <2>3, <2>6, <3>3, LoneFrame, Stable
  <2> QED
    BY <2>4, <2>5, <2>6
<1>h. LoneInv'
  <2> SUFFICES ASSUME NEW i \in GraphInputs, NEW s \in Segs, Lone(s, i), Sound(InputDesc[i].of)',
                      i \in LinkedIns \/ Held(i), ~FdNow(i)'
               PROVE  IF Passed(s)' THEN buf'[s][i] = want[i] /\ View(s, i)' = want[i]
                      ELSE i \in LinkedIns => LinkOf(s, i, View(s, i))' = want[i]
    BY <1>1, <1>3, Stable, LoneFrame DEF LoneInv
  <2>0. i \in Tensors /\ i \in BoundaryIns(s) /\ \A l \in linked : l[2] = i => l \in Links /\ s \in LinkOwners(l)
    BY <1>0, LoneIs DEF Tensors, TypeOK, LinkedIns
  <2>1. Sound(InputDesc[i].of)
    BY <1>1, <1>3, Stable
  <2>2. rt'[i].fd = rt[i].fd
    BY <1>2, <2>0 DEF UploadedAs
  <2>3. ~FdNow(i)
    BY <1>3, <2>2 DEF FdNow
  <2>4. IF Passed(s) THEN buf[s][i] = want[i] /\ View(s, i) = want[i]
        ELSE i \in LinkedIns => LinkOf(s, i, View(s, i)) = want[i]
    BY <1>0, <2>1, <2>3 DEF LoneInv
  <2>5. Passed(s)' <=> Passed(s)
    BY <1>1, Stable DEF Passed
  <2>6. View(s, i)' = View(s, i) /\ (i \notin BoundaryIns(seg) => buf'[s][i] = buf[s][i])
    <3>1. CASE i \in BoundaryIns(seg)
      <4>1. s = seg /\ ~rt[i].fd
        BY <1>0, <1>1, <1>f, <3>1, LoneIs
      <4> QED
        BY <1>6, <3>1, <4>1
    <3>2. CASE i \notin BoundaryIns(seg)
      BY <1>5, <2>0, <3>2
    <3> QED
      BY <3>1, <3>2
  <2>7. i \in BoundaryIns(seg) => ~Passed(s)
    <3>1. i \in BoundaryIns(seg) => s = seg
      BY <1>0, <1>1, LoneIs
    <3>2. ~Passed(seg)
      BY <1>1, <1>4 DEF Passed, SegsOf
    <3> QED
      BY <3>1, <3>2
  <2>8. LinkOf(s, i, View(s, i))' = LinkOf(s, i, View(s, i))
    <3>1. ASSUME NEW l \in linked, l[2] = i PROVE buf'[s][l[1]] = buf[s][l[1]]
      <4>1. l \in Links /\ s \in LinkOwners(l)
        BY <2>0, <3>1
      <4>2. l[1] \in BoundaryOuts(s) /\ l[1] \notin BoundaryIns(seg)
        BY <1>0, <1>1, <4>1, OwnersAre
      <4>3. l[1] \in Tensors
        BY <1>0, <4>2, OutsAre
      <4> QED
        BY <1>5, <4>2, <4>3
    <3> QED
      BY <1>1, <2>6, <3>1, LinkFrame
  <2> QED
    BY <2>4, <2>5, <2>6, <2>7, <2>8
<1>i. OutInv'
  <2> SUFFICES ASSUME NEW l \in Links, Settled(OfLink(l))', NEW s \in LinkOwners(l),
                      l[1] \in LinkedOuts \/ l[1] \notin FdTensors \/ made[l[1]] = None
               PROVE  buf'[s][l[1]] = made[l[1]]
    BY <1>1, <1>3, Stable DEF OutInv
  <2>1. Settled(OfLink(l))
    BY <1>1, <1>3, Stable
  <2>2. buf[s][l[1]] = made[l[1]]
    BY <1>0, <1>1, <2>1 DEF OutInv
  <2>3. s \in Segs /\ l[1] \in BoundaryOuts(s) /\ l[1] \notin BoundaryIns(seg)
    BY <1>0, <1>1, OwnersAre
  <2>4. l[1] \in Tensors
    BY <1>0, <2>3, OutsAre
  <2> QED
    BY <1>5, <2>2, <2>3, <2>4
<1>j. MadeInv'
  <2> SUFFICES ASSUME at \in sure, NEW s \in SegsOf(at), NEW t \in BoundaryOuts(s)
               PROVE  (/\ Passed(s) /\ Dev(s) = "gpu" =>
                            /\ IF rt[t].fd THEN fdMem[t] = Current[t] ELSE buf[s][t] = Current[t]
                            /\ t \in Reduced /\ DeviceArgMax(t) => argRes[t] = Current[t]
                       /\ s < seg /\ ~rt[t].fd /\ ~(Dev(s) = "gpu" /\ StaysOnDevice(t)) =>
                            /\ rt[t].hostValid /\ rt[t].host = Shown(t, Current[t])
                            /\ \A r \in Segs \ {s} : AlreadyHere(r, t) => buf[r][t] = Current[t])'
    BY <1>1, Stable DEF MadeInv
  <2>1. /\ Passed(s) /\ Dev(s) = "gpu" =>
                            /\ IF rt[t].fd THEN fdMem[t] = Current[t] ELSE buf[s][t] = Current[t]
                            /\ t \in Reduced /\ DeviceArgMax(t) => argRes[t] = Current[t]
        /\ s < seg /\ ~rt[t].fd /\ ~(Dev(s) = "gpu" /\ StaysOnDevice(t)) =>
                            /\ rt[t].hostValid /\ rt[t].host = Shown(t, Current[t])
                            /\ \A r \in Segs \ {s} : AlreadyHere(r, t) => buf[r][t] = Current[t]
    BY <1>0, <1>1 DEF MadeInv
  <2>2. s \in Segs /\ segs[s].of = at /\ t \in Tensors /\ t \notin BoundaryIns(s)
    BY <1>0, OutsAre DEF SegsOf
  <2>3. UploadedAs(t) /\ (rt'[t].fd <=> rt[t].fd) /\ (rt'[t].hostValid <=> rt[t].hostValid) /\ rt'[t].host = rt[t].host
    BY <1>2, <2>2 DEF UploadedAs
  <2>4. Passed(s)' <=> Passed(s)
    BY <1>1, <2>2, Stable DEF Passed
  <2>5. buf'[s][t] = buf[s][t]
    BY <1>1, <1>5, <2>2
  <2>6. (Passed(s) /\ Dev(s) = "gpu" =>
                            /\ IF rt[t].fd THEN fdMem[t] = Current[t] ELSE buf[s][t] = Current[t]
                            /\ t \in Reduced /\ DeviceArgMax(t) => argRes[t] = Current[t])'
    BY <1>1, <1>3, <2>1, <2>3, <2>4, <2>5, Stable
  <2>7. ASSUME s < seg, ~rt[t].fd, ~(Dev(s) = "gpu" /\ StaysOnDevice(t)), NEW r \in Segs \ {s}, AlreadyHere(r, t)'
        PROVE  buf'[r][t] = Current[t]
    <3>1. rt[t].hostValid /\ rt[t].host = Shown(t, Current[t]) /\ (AlreadyHere(r, t) => buf[r][t] = Current[t])
      BY <2>1, <2>7
    <3>2. CASE t \in BoundaryIns(seg)
      <4>1. r = seg /\ buf'[r][t] = View(r, t)
        BY <1>6, <2>7, <3>2
      <4>2. Shown(t, Current[t]) = Current[t]
        <5>1. t \notin RowSets
          BY <1>0, <1>1, <3>2, SupportedIs
        <5>2. t \notin rows
          BY <1>0, <5>1 DEF TypeOK
        <5> QED
          BY <5>2 DEF Shown
      <4> QED
        BY <3>1, <4>1, <4>2 DEF View
    <3>3. CASE t \notin BoundaryIns(seg)
      BY <1>5, <2>2, <2>7, <3>1, <3>3
    <3> QED
      BY <3>2, <3>3
  <2>8. (s < seg /\ ~rt[t].fd /\ ~(Dev(s) = "gpu" /\ StaysOnDevice(t)) =>
                            /\ rt[t].hostValid /\ rt[t].host = Shown(t, Current[t])
                            /\ \A r \in Segs \ {s} : AlreadyHere(r, t) => buf[r][t] = Current[t])'
    <3> SUFFICES ASSUME s < seg, ~rt[t].fd, ~(Dev(s) = "gpu" /\ StaysOnDevice(t))
                 PROVE  /\ rt'[t].hostValid /\ rt'[t].host = Shown(t, Current[t])'
                        /\ \A r \in Segs \ {s} : AlreadyHere(r, t)' => buf'[r][t] = Current[t]
      BY <1>1, <1>3, <2>3, Stable
    <3>1. Shown(t, Current[t])' = Shown(t, Current[t])
      BY <1>1, <1>3 DEF Shown, Row
    <3> QED
      BY <2>1, <2>3, <2>7, <3>1
  <2> QED
    BY <2>6, <2>8
<1> QED
  BY <1>3, <1>a, <1>b, <1>c, <1>d, <1>e, <1>g, <1>h, <1>i, <1>j DEF IInv

\* What another segment reads is downloaded whole.
LEMMA ComesDown ==
  ASSUME AllSupported, IInv, NEW s \in Segs, NEW t \in BoundaryIns(s)
  PROVE  t \notin rows /\ (OnGpu => ~StaysOnDevice(t)) /\ \A v : Shown(t, v) = v
<1>0. StaticInv /\ TypeOK /\ LinksInv
  BY DEF IInv
<1>1. t \notin RowSets /\ t \notin ArgMaxable \cap Flat
  BY <1>0, SupportedIs
<1>2. t \notin rows
  BY <1>0, <1>1 DEF TypeOK
<1>3. ASSUME OnGpu, NEW l \in linked PROVE l[1] # t
  <2>1. l \in Links
    BY <1>0 DEF TypeOK
  <2>2. PICK r \in LinkOwners(l) : TRUE
    BY <1>0, <1>3 DEF LinksInv
  <2> QED
    BY <1>0, <2>1, OwnersAre
<1>4. OnGpu => ~StaysOnDevice(t)
  BY <1>0, <1>1, <1>3 DEF StaysOnDevice, LinkedOuts, DeviceArgMax, FlatBoundary, TypeOK
<1> QED
  BY <1>2, <1>4 DEF Shown

\* An operand that an earlier segment of the run left is current wherever it lies.
LEMMA OperandIs ==
  ASSUME AllSupported, IInv, phase \in {"run", "uploaded"}, at \in sure, seg \in SegsOf(at),
         NEW t \in BoundaryIns(seg), t \notin GraphInputs
  PROVE  /\ rt[t].fd => fdMem[t] = Current[t]
         /\ ~rt[t].fd => /\ rt[t].hostValid /\ rt[t].host = Current[t]
                         /\ AlreadyHere(seg, t) => buf[seg][t] = Current[t]
<1>0. StaticInv /\ TypeOK /\ MadeInv
  BY DEF IInv
<1>1. seg \in Segs /\ segs[seg].of = at
  BY DEF SegsOf
<1>2. t \in Tensors
  BY <1>0, <1>1, InsAre
<1>3. PICK r \in SegsOf(at) : r < seg /\ t \in BoundaryOuts(r)
  <2>1. \E r \in SegsOf(segs[seg].of) : r < seg /\ t \in BoundaryOuts(r)
    BY <1>0, <1>1, InsAre
  <2> QED
    BY <1>1, <2>1
<1>4. r \in Segs /\ r \in Nat /\ seg \in Nat /\ (Dev(r) = "gpu" => OnGpu) /\ Dev(r) \in {"cpu", "gpu"}
  BY <1>0, <1>1, SegmentIs DEF SegsOf
<1>5. Passed(r) /\ r # seg
  BY <1>3, <1>4 DEF Passed
<1>6. ASSUME rt[t].fd PROVE Dev(r) = "gpu"
  <2>1. t \in FdTensors
    BY <1>0, <1>2, <1>6 DEF TypeOK
  <2> QED
    BY <1>0, <1>3, <1>4, <2>1, SupportedIs
<1>7. rt[t].fd => fdMem[t] = Current[t]
  BY <1>0, <1>3, <1>5, <1>6 DEF MadeInv
<1>8. ~(Dev(r) = "gpu" /\ StaysOnDevice(t)) /\ Shown(t, Current[t]) = Current[t]
  BY <1>1, <1>4, ComesDown
<1>9. ~rt[t].fd => /\ rt[t].hostValid /\ rt[t].host = Shown(t, Current[t])
                   /\ \A q \in Segs \ {r} : AlreadyHere(q, t) => buf[q][t] = Current[t]
  BY <1>0, <1>3, <1>8 DEF MadeInv
<1> QED
  BY <1>1, <1>5, <1>7, <1>8, <1>9

\* The invariant gives InputsAreCurrent.
LEMMA OperandsCurrent ==
  ASSUME AllSupported, IInv
  PROVE  InputsAreCurrent
<1>0. /\ StaticInv /\ TypeOK /\ PhaseInv /\ LinksInv /\ FdInv /\ FormInv /\ UpInv /\ InputInv /\ LoneInv /\ CpuLinkInv
      /\ ShapeInv
  BY DEF IInv
<1>1. ASSUME at \in sure, phase \in {"run", "uploaded"}, seg \in SegsOf(at), NEW t \in BoundaryIns(seg), t \in GraphInputs
      PROVE  InRun(t) /\ Held(t) /\ InputDesc[t].of = at /\ Current[t] = want[t] /\ Sound(at) /\ t \in Tensors
  <2>1. InputDesc[t].of = at
    BY <1>0, <1>1, InsAre DEF SegsOf
  <2> QED
    BY <1>0, <1>1, <2>1, CurrentIs DEF InRun, Held, InputsOf, Sound, Tensors
<1>2. ASSUME OnGpu, seg \in Segs, NEW t \in BoundaryIns(seg), NEW l \in linked, l[2] = t
      PROVE  l \in Links /\ Lone(seg, t) /\ seg \in LinkOwners(l)
  <2>1. l \in Links
    BY <1>0 DEF TypeOK
  <2>2. PICK r \in LinkOwners(l) : TRUE
    BY <1>0, <1>2 DEF LinksInv
  <2>3. r = seg
    BY <1>0, <1>2, <2>1, OwnersAre
  <2> QED
    BY <1>2, <2>1, <2>2, <2>3 DEF Lone
<1>3. ASSUME at \in sure, phase = "run", seg \in SegsOf(at), Dev(seg) = "cpu", NEW t \in BoundaryIns(seg)
      PROVE  HostRead[t] = Current[t]
  <2>0. seg \in Segs /\ t \in Tensors
    BY <1>0, <1>3, InsAre DEF SegsOf
  <2>1. rt[t].form = "f32"
    <3>1. t \notin Flat \cap Fp16
      BY <1>0, <1>3, <2>0, SupportedIs
    <3> QED
      BY <1>0, <2>0, <3>1 DEF TypeOK, FormInv
  <2>2. HostRead[t] = rt[t].host
    BY <2>0, <2>1 DEF HostRead
  <2>3. ~rt[t].fd
    <3>1. t \notin FdTensors
      BY <1>0, <1>3, <2>0, SupportedIs
    <3> QED
      BY <1>0, <2>0, <3>1 DEF TypeOK
  <2>4. CASE t \notin GraphInputs
    BY <1>3, <2>2, <2>3, <2>4, OperandIs
  <2>5. CASE t \in GraphInputs /\ t \notin LinkedIns
    <3>1. Held(t) /\ Current[t] = want[t]
      BY <1>1, <1>3, <2>5
    <3>2. ~FdNow(t)
      BY <2>3 DEF FdNow
    <3>3. ASSUME NEW s \in Segs, Lone(s, t) PROVE FALSE
      <4>1. Dev(s) = "gpu" /\ \A r \in Segs : t \in BoundaryIns(r) => r = s
        BY <1>0, <3>3, LoneIs
      <4> QED
        BY <1>3, <2>0, <4>1
    <3>4. Solid(t, want[t])
      BY <1>0, <2>5, <3>1, <3>2, <3>3 DEF InputInv
    <3> QED
      BY <2>2, <3>1, <3>4 DEF Solid
  <2>6. CASE t \in GraphInputs /\ t \in LinkedIns
    <3>1. InRun(t) /\ Current[t] = want[t] /\ Sound(at) /\ InputDesc[t].of = at
      BY <1>1, <1>3, <2>6
    <3>2. PICK l \in linked : l[2] = t
      BY <2>6 DEF LinkedIns
    <3>3. ~OnGpu
      <4>1. SUFFICES ASSUME OnGpu PROVE FALSE
        OBVIOUS
      <4>2. Lone(seg, t)
        BY <1>2, <2>0, <3>2, <4>1
      <4>3. Dev(seg) = "gpu"
        BY <1>0, <4>2, LoneIs
      <4> QED
        BY <1>3, <4>3
    <3>4. HostStorage(rt[t], t).host = want[t] /\ rt[t].hostValid
      BY <1>0, <3>1, <3>2, <3>3 DEF CpuLinkInv, OfLink
    <3>5. HostStorage(rt[t], t).host = rt[t].host
      BY <1>0, <2>0, <3>4, HostHeld DEF ShapeInv
    <3> QED
      BY <2>2, <3>1, <3>4, <3>5
  <2> QED
    BY <2>4, <2>5, <2>6
<1>4. ASSUME at \in sure, phase = "uploaded", NEW t \in BoundaryIns(seg)
      PROVE  LinkCopied(seg)[t] = Current[t]
  <2>0. /\ seg \in Segs /\ t \in Tensors /\ OnGpu /\ seg \in SegsOf(at) /\ segs[seg].of = at /\ seg \in Nat
        /\ rt[t].fd \/ ~rt[t].hostValid \/ AlreadyHere(seg, t)
    <3>1. seg \in SegsOf(at) /\ Dev(seg) = "gpu"
      BY <1>0, <1>4 DEF PhaseInv
    <3>2. seg \in Segs /\ segs[seg].of = at
      BY <3>1 DEF SegsOf
    <3> QED
      BY <1>0, <1>4, <3>1, <3>2, InsAre, SegmentIs DEF UpInv
  <2>1. ~rt[t].fd => View(seg, t) = buf[seg][t]
    BY <2>0 DEF View
  <2>2. CASE t \notin LinkedIns
    <3>1. ~ \E l \in linked : l[2] = t /\ slot[l] # None /\ seg \in LinkOwners(l)
      BY <2>2 DEF LinkedIns
    <3>2. LinkCopied(seg)[t] = IF rt[t].fd THEN fdMem[t] ELSE buf[seg][t]
      BY <2>0, <3>1 DEF LinkCopied
    <3>3. CASE t \notin GraphInputs
      BY <1>4, <2>0, <3>2, <3>3, OperandIs
    <3>4. CASE t \in GraphInputs
      <4>1. InRun(t) /\ Held(t) /\ Current[t] = want[t]
        BY <1>1, <1>4, <2>0, <3>4
      <4>2. IF rt[t].fd THEN fdMem[t] = want[t]
            ELSE IF \E s \in Segs : Lone(s, t) THEN \A s \in Segs : Lone(s, t) => View(s, t) = want[t]
            ELSE Solid(t, want[t])
        BY <1>0, <2>2, <3>4, <4>1 DEF InputInv, FdNow
      <4>3. CASE rt[t].fd
        BY <3>2, <4>1, <4>2, <4>3
      <4>4. CASE ~rt[t].fd /\ \E s \in Segs : Lone(s, t)
        <5>1. Lone(seg, t)
          BY <1>0, <1>4, <2>0, <4>4, LoneIs
        <5>2. View(seg, t) = want[t]
          BY <2>0, <4>2, <4>4, <5>1
        <5> QED
          BY <2>1, <3>2, <4>1, <4>4, <5>2
      <4>5. CASE ~rt[t].fd /\ ~ \E s \in Segs : Lone(s, t)
        BY <2>0, <3>2, <4>1, <4>2, <4>5 DEF Solid
      <4> QED
        BY <4>3, <4>4, <4>5
    <3> QED
      BY <3>3, <3>4
  <2>3. CASE t \in LinkedIns
    <3>1. PICK l \in linked : l[2] = t
      BY <2>3 DEF LinkedIns
    <3>2. l \in Links /\ Lone(seg, t) /\ \A m \in linked : m[2] = t => seg \in LinkOwners(m)
      BY <1>2, <1>4, <2>0, <3>1
    <3>3. t \in GraphInputs
      BY <1>0, <3>1, <3>2, GraphIs
    <3>4. InRun(t) /\ Current[t] = want[t] /\ Sound(at) /\ InputDesc[t].of = at
      BY <1>1, <1>4, <2>0, <3>3
    <3>5. ~rt[t].fd
      BY <1>0, <1>4, <2>3, <3>4 DEF FdInv, InRun
    <3>6. ~Passed(seg)
      BY <1>4, <2>0 DEF Passed
    <3>7. LinkOf(seg, t, View(seg, t)) = want[t]
      BY <1>0, <2>0, <2>3, <3>2, <3>3, <3>4, <3>5, <3>6 DEF LoneInv, FdNow
    <3>8. LinkCopied(seg)[t] = LinkOf(seg, t, buf[seg][t])
      <4>1. (\E m \in linked : m[2] = t /\ slot[m] # None /\ seg \in LinkOwners(m))
              <=> (\E m \in linked : m[2] = t /\ slot[m] # None)
        BY <3>2
      <4> QED
        BY <2>0, <3>5, <4>1 DEF LinkCopied, LinkOf
    <3> QED
      BY <2>1, <3>4, <3>5, <3>7, <3>8
  <2> QED
    BY <2>2, <2>3
<1> QED
  BY <1>3, <1>4 DEF InputsAreCurrent

\* What a stream leaves of tensor t: the segment's outputs, once all of it has run, are current, and a
\* linked input has its copies; nothing else is written.
ExecutedAs(t) ==
  /\ t \notin BoundaryOuts(seg) => /\ fdMem'[t] = fdMem[t]
                                   /\ t \in ArgMaxable => argRes'[t] = argRes[t]
                                   /\ t \notin LinkedIns \cap BoundaryIns(seg) => buf'[seg][t] = buf[seg][t]
  /\ phase' = "submitted" /\ t \in LinkedIns \cap BoundaryIns(seg) /\ ~rt[t].fd => buf'[seg][t] = LinkOf(seg, t, buf[seg][t])
  /\ phase' = "submitted" /\ at \in sure /\ t \in BoundaryOuts(seg) =>
       /\ IF rt[t].fd THEN fdMem'[t] = Current[t] ELSE buf'[seg][t] = Current[t]
       /\ t \in Reduced /\ DeviceArgMax(t) => argRes'[t] = Current[t]
Executed ==
  /\ buf' = [s \in Segs |-> [t \in Tensors |-> buf'[s][t]]] /\ \A s \in Segs \ {seg} : buf'[s] = buf[s]
  /\ fdMem' = [t \in Tensors |-> fdMem'[t]] /\ argRes' = [o \in ArgMaxable |-> argRes'[o]]
  /\ \A t \in Tensors : ExecutedAs(t)

\* The segment that is uploaded is one of the GPU's and of the run.
LEMMA UploadedSegment ==
  ASSUME AllSupported, IInv, phase \in {"uploaded", "submitted"}
  PROVE  /\ seg \in Segs /\ seg \in SegsOf(at) /\ segs[seg].of = at /\ Dev(seg) = "gpu" /\ OnGpu
         /\ seg \in Nat /\ seg + 1 \in Nat /\ \A s \in Segs : s \in Nat \ {0}
         /\ \A t \in BoundaryIns(seg) : ~rt[t].fd => View(seg, t) = buf[seg][t]
<1>0. StaticInv /\ PhaseInv /\ UpInv
  BY DEF IInv
<1>1. seg \in SegsOf(at) /\ Dev(seg) = "gpu" /\ seg \in Segs /\ segs[seg].of = at
  BY <1>0 DEF PhaseInv, SegsOf
<1>2. seg \in Nat /\ OnGpu /\ \A s \in Segs : s \in Nat \ {0}
  BY <1>0, <1>1, SegmentIs
<1> QED
  BY <1>0, <1>1, <1>2 DEF UpInv, View

\* The stream that writes the outputs in W.
LEMMA ExecuteIs ==
  ASSUME AllSupported, IInv, phase = "uploaded", NEW W \in SUBSET BoundaryOuts(seg), Execute(W),
         phase' = "submitted" => W = BoundaryOuts(seg)
  PROVE  Executed
<1>0. StaticInv /\ TypeOK /\ ShapeInv
  BY DEF IInv
<1>1. seg \in Segs /\ seg \in SegsOf(at) /\ segs[seg].of = at
  BY UploadedSegment
<1> DEFINE env == Eval(FirstOf(seg), LastOf(seg), LinkCopied(seg))
           new == [t \in Tensors |-> IF rt[t].fd THEN buf[seg][t]
                                     ELSE IF t \in W THEN env[t] ELSE
                                     IF t \in LinkedIns THEN LinkCopied(seg)[t] ELSE buf[seg][t]]
<1>2. /\ buf' = [buf EXCEPT ![seg] = [t \in Tensors |-> IF rt[t].fd THEN @[t]
                                      ELSE IF t \in W THEN env[t] ELSE
                                      IF t \in LinkedIns THEN LinkCopied(seg)[t] ELSE @[t]]]
      /\ fdMem' = [t \in Tensors |-> IF t \in W /\ rt[t].fd THEN env[t] ELSE fdMem[t]]
      /\ argRes' = [o \in ArgMaxable |-> IF o \in W \cap Reduced /\ DeviceArgMax(o) THEN env[o] ELSE argRes[o]]
  BY DEF Execute
<1>3. at \in sure => \A t \in BoundaryOuts(seg) : env[t] = Current[t]
  <2>1. at \in sure => \A t \in BoundaryIns(seg) : LinkCopied(seg)[t] = Current[t]
    BY OperandsCurrent DEF InputsAreCurrent
  <2> QED
    BY <1>0, <1>1, <2>1, SegmentComputes
<1> HIDE DEF env
<1>4. buf = [s \in Segs |-> [t \in Tensors |-> buf[s][t]]]
  BY <1>0 DEF ShapeInv
<1>5. buf' = [buf EXCEPT ![seg] = new]
  BY <1>2
<1>6. new = [t \in Tensors |-> new[t]]
  OBVIOUS
<1>7. ASSUME NEW t \in Tensors
      PROVE  new[t] = IF rt[t].fd THEN buf[seg][t]
                      ELSE IF t \in W THEN env[t] ELSE IF t \in LinkedIns THEN LinkCopied(seg)[t] ELSE buf[seg][t]
  BY <1>7
<1> HIDE DEF new
<1>8. buf'[seg] = new /\ (\A s \in Segs \ {seg} : buf'[s] = buf[s]) /\ buf' = [s \in Segs |-> buf'[s]]
  BY <1>1, <1>4, <1>5
<1>9. buf' = [s \in Segs |-> [t \in Tensors |-> buf'[s][t]]]
  <2>1. \A s \in Segs : buf[s] = [t \in Tensors |-> buf[s][t]]
    BY <1>4
  <2>2. ASSUME NEW s \in Segs PROVE buf'[s] = [t \in Tensors |-> buf'[s][t]]
    BY <1>6, <1>8, <2>1, <2>2
  <2> QED
    BY <1>8, <2>2
<1>10. ASSUME NEW t \in Tensors, t \in LinkedIns, ~rt[t].fd
       PROVE  LinkCopied(seg)[t] = IF t \in BoundaryIns(seg) THEN LinkOf(seg, t, buf[seg][t]) ELSE buf[seg][t]
  <2>1. ASSUME NEW l \in linked, l[2] = t PROVE seg \in LinkOwners(l) <=> t \in BoundaryIns(seg)
    <3>1. l \in Links /\ LinkOwners(l) # {}
      BY <1>0, UploadedSegment DEF IInv, LinksInv, TypeOK
    <3>2. PICK r \in LinkOwners(l) : TRUE
      BY <3>1
    <3>3. r \in Segs /\ t \in BoundaryIns(r) /\ \A q \in Segs : t \in BoundaryIns(q) => q = r
      BY <1>0, <2>1, <3>1, OwnersAre
    <3>4. seg \in LinkOwners(l) => t \in BoundaryIns(seg)
      BY <2>1 DEF LinkOwners
    <3> QED
      BY <1>1, <3>2, <3>3, <3>4
  <2>2. (\E m \in linked : m[2] = t /\ slot[m] # None /\ seg \in LinkOwners(m))
          <=> ((\E m \in linked : m[2] = t /\ slot[m] # None) /\ t \in BoundaryIns(seg))
    BY <2>1
  <2> QED
    BY <1>10, <2>2 DEF LinkCopied, LinkOf
<1>11. ASSUME NEW t \in Tensors PROVE ExecutedAs(t)
  <2>1. t \in LinkedIns => t \notin BoundaryOuts(seg)
    <3>1. LinkedIns \subseteq GraphInputs
      BY <1>0, GraphIs DEF LinkedIns, TypeOK
    <3> QED
      BY <1>0, <1>1, <3>1, OutsAre
  <2>2. buf'[seg][t] = IF rt[t].fd THEN buf[seg][t]
                       ELSE IF t \in W THEN env[t] ELSE IF t \in LinkedIns THEN LinkCopied(seg)[t] ELSE buf[seg][t]
    BY <1>7, <1>8
  <2>3. fdMem'[t] = IF t \in W /\ rt[t].fd THEN env[t] ELSE fdMem[t]
    BY <1>2
  <2>4. t \in ArgMaxable => argRes'[t] = IF t \in W \cap Reduced /\ DeviceArgMax(t) THEN env[t] ELSE argRes[t]
    BY <1>2
  <2>5. t \notin BoundaryOuts(seg) => /\ fdMem'[t] = fdMem[t]
                                      /\ t \in ArgMaxable => argRes'[t] = argRes[t]
                                      /\ t \notin LinkedIns \cap BoundaryIns(seg) => buf'[seg][t] = buf[seg][t]
    BY <1>10, <2>2, <2>3, <2>4
  <2>6. t \in LinkedIns \cap BoundaryIns(seg) /\ ~rt[t].fd => buf'[seg][t] = LinkOf(seg, t, buf[seg][t])
    BY <1>10, <2>1, <2>2
  <2>7. ASSUME phase' = "submitted", at \in sure, t \in BoundaryOuts(seg)
        PROVE  /\ IF rt[t].fd THEN fdMem'[t] = Current[t] ELSE buf'[seg][t] = Current[t]
               /\ t \in Reduced /\ DeviceArgMax(t) => argRes'[t] = Current[t]
    <3>1. t \in W /\ env[t] = Current[t] /\ (t \in Reduced => t \in ArgMaxable)
      BY <1>0, <1>3, <2>7 DEF TypeOK
    <3> QED
      BY <2>2, <2>3, <2>4, <3>1
  <2> QED
    BY <2>5, <2>6, <2>7 DEF ExecutedAs
<1> QED
  BY <1>2, <1>8, <1>9, <1>11 DEF Executed

\* The stream of a segment runs, or fails.
LEMMA StepExecute ==
  ASSUME AllSupported, IInv, phase = "uploaded", phase' \in {"submitted", "threw"}, Executed,
         phase' = "threw" => thrown < MaxThrows,
         UNCHANGED <<planVs, rt, buckets, linked, slot, argMax, rows, at, seg, want, made, sure, completed, ran, thrown>>
  PROVE  IInv'
<1>0. /\ StaticInv /\ TypeOK /\ ShapeInv /\ PhaseInv /\ LinksInv /\ FdInv /\ FormInv /\ FreshInv /\ UpInv
      /\ InputInv /\ LoneInv /\ OutInv /\ MadeInv
  BY DEF IInv
<1>1. /\ seg \in Segs /\ seg \in SegsOf(at) /\ segs[seg].of = at /\ Dev(seg) = "gpu" /\ OnGpu
      /\ seg \in Nat /\ \A s \in Segs : s \in Nat \ {0}
      /\ \A t \in BoundaryIns(seg) : ~rt[t].fd => View(seg, t) = buf[seg][t]
  BY UploadedSegment
<1>2. /\ StaticInv' /\ LinksInv' /\ RowsInv' /\ ResultsAreCurrent' /\ ArgInv'
      /\ LinkedIns' = LinkedIns /\ LinkedOuts' = LinkedOuts /\ Reduced' = Reduced /\ Current' = Current
      /\ \A i : (InRun(i)' <=> InRun(i)) /\ (Held(i)' <=> Held(i)) /\ (InRun(i) <=> i \in InputsOf(at))
      /\ \A o : /\ (DeviceArgMax(o)' <=> DeviceArgMax(o)) /\ (StaysOnDevice(o)' <=> StaysOnDevice(o))
                /\ \A v : Shown(o, v)' = Shown(o, v)
      /\ \A b : (Settled(b)' <=> Settled(b)) /\ (Settled(b) <=> b \in sure /\ b # at)
      /\ \A b : Sound(b) <=> b \in sure
  BY RunFrame
<1>3. /\ buf' = [s \in Segs |-> [t \in Tensors |-> buf'[s][t]]] /\ \A s \in Segs \ {seg} : buf'[s] = buf[s]
      /\ fdMem' = [t \in Tensors |-> fdMem'[t]] /\ argRes' = [o \in ArgMaxable |-> argRes'[o]]
      /\ \A t \in Tensors : ExecutedAs(t)
  BY DEF Executed
<1>4. \A i \in GraphInputs : i \in Tensors /\ i \notin BoundaryOuts(seg)
  BY <1>0, <1>1, OutsAre DEF Tensors
<1>5. ASSUME NEW t \in Tensors, t \notin BoundaryOuts(seg)
      PROVE  /\ fdMem'[t] = fdMem[t] /\ (t \in ArgMaxable => argRes'[t] = argRes[t])
             /\ t \notin LinkedIns \cap BoundaryIns(seg) => \A s \in Segs : buf'[s][t] = buf[s][t]
  BY <1>3, <1>5 DEF ExecutedAs
<1>6. \A t, s : AlreadyHere(s, t)' <=> AlreadyHere(s, t)
  BY DEF AlreadyHere
<1>a. TypeOK' /\ ShapeInv' /\ PhaseInv' /\ FdInv' /\ FormInv' /\ CpuInv' /\ UpInv' /\ CpuLinkInv'
  <2>1. TypeOK'
    <3>1. /\ sure' \subseteq sure /\ completed' \in BOOLEAN /\ thrown' \in 0 .. MaxThrows /\ ran' \subseteq Reduced
          /\ \A t \in Tensors :
                 /\ rt'[t].form \in {"f32", "fp16"} /\ rt'[t].owner \in Segs \cup {Nobody, TheFd}
                 /\ rt'[t].hostValid \in BOOLEAN /\ rt'[t].deviceValid \in BOOLEAN
                 /\ rt'[t].fd \in BOOLEAN /\ (rt'[t].fd => t \in FdTensors)
                 /\ rt'[t].deviceValid => rt'[t].owner # Nobody
      BY <1>0 DEF TypeOK
    <3> QED
      BY <3>1, RunTypes
  <2>2. ShapeInv'
    BY <1>0, <1>3, Stable DEF ShapeInv, IsRt
  <2>3. PhaseInv' /\ FdInv' /\ FormInv'
    BY <1>0, <1>1, <1>2, Stable DEF PhaseInv, FdInv, FormInv
  <2>4. CpuInv' /\ CpuLinkInv'
    BY <1>1, Stable DEF CpuInv, CpuLinkInv
  <2>5. UpInv'
    BY <1>0, <1>6, Stable DEF UpInv
  <2> QED
    BY <2>1, <2>2, <2>3, <2>4, <2>5
<1>b. FreshInv'
  <2> SUFFICES ASSUME NEW i \in GraphInputs, rt[i].owner = Nobody, NEW s \in Segs PROVE buf'[s][i] = Zero(i)
    BY Stable DEF FreshInv
  <2>1. i \notin BoundaryIns(seg)
    BY <1>0 DEF UpInv
  <2> QED
    BY <1>0, <1>4, <1>5, <2>1 DEF FreshInv
<1>c. InputInv'
  <2> SUFFICES ASSUME NEW i \in GraphInputs, i \notin LinkedIns, Held(i)
               PROVE  (IF FdNow(i) THEN fdMem[i] = want[i]
                       ELSE IF \E s \in Segs : Lone(s, i) THEN \A s \in Segs : Lone(s, i) => View(s, i) = want[i]
                       ELSE Solid(i, want[i]))'
    BY <1>2, Stable DEF InputInv
  <2>1. IF FdNow(i) THEN fdMem[i] = want[i]
        ELSE IF \E s \in Segs : Lone(s, i) THEN \A s \in Segs : Lone(s, i) => View(s, i) = want[i]
        ELSE Solid(i, want[i])
    BY <1>0 DEF InputInv
  <2>2. fdMem'[i] = fdMem[i] /\ \A s \in Segs : buf'[s][i] = buf[s][i]
    BY <1>4, <1>5
  <2>3. FdNow(i)' <=> FdNow(i)
    BY <1>2 DEF FdNow
  <2>4. \A s \in Segs : View(s, i)' = View(s, i)
    BY <1>6, <2>2 DEF View
  <2>5. Solid(i, want[i])' <=> Solid(i, want[i])
    BY <1>6, <2>2, Stable DEF Solid
  <2> QED
    BY <2>1, <2>2, <2>3, <2>4, <2>5, LoneFrame, Stable
<1>d. LoneInv'
  <2> SUFFICES ASSUME NEW i \in GraphInputs, NEW s \in Segs, Lone(s, i), Sound(InputDesc[i].of)',
                      i \in LinkedIns \/ Held(i), ~FdNow(i)'
               PROVE  IF Passed(s)' THEN buf'[s][i] = want[i] /\ View(s, i)' = want[i]
                      ELSE i \in LinkedIns => LinkOf(s, i, View(s, i))' = want[i]
    BY <1>2, Stable, LoneFrame DEF LoneInv
  <2>1. Sound(InputDesc[i].of) /\ ~(phase' = "threw" /\ at = InputDesc[i].of) /\ ~FdNow(i)
    BY <1>2, Stable DEF Sound, FdNow
  <2>2. IF Passed(s) THEN buf[s][i] = want[i] /\ View(s, i) = want[i]
        ELSE i \in LinkedIns => LinkOf(s, i, View(s, i)) = want[i]
    BY <1>0, <2>1 DEF LoneInv
  <2>3. /\ i \in Tensors /\ i \in BoundaryIns(s) /\ segs[s].of = InputDesc[i].of
        /\ \A l \in linked : l[2] = i => l \in Links /\ s \in LinkOwners(l)
    BY <1>0, LoneIs DEF Tensors, TypeOK, LinkedIns
  <2>4. CASE s # seg
    <3>1. buf'[s] = buf[s]
      BY <1>3, <2>4
    <3>2. View(s, i)' = View(s, i)
      BY <1>6, <3>1 DEF View
    <3>3. LinkOf(s, i, View(s, i))' = LinkOf(s, i, View(s, i))
      BY <3>1, <3>2, LinkFrame
    <3>4. Passed(s)' <=> Passed(s)
      BY <2>4, Stable DEF Passed
    <3> QED
      BY <2>2, <3>1, <3>2, <3>3, <3>4
  <2>5. CASE s = seg
    <3>1. InputDesc[i].of = at /\ phase' = "submitted" /\ i \in BoundaryIns(seg)
      BY <1>1, <2>1, <2>3, <2>5
    <3>2. InRun(i) /\ ~rt[i].fd
      BY <1>2, <2>1, <3>1 DEF InputsOf, FdNow
    <3>3. ~Passed(s) /\ Passed(s)'
      BY <1>1, <2>5, <3>1, Stable DEF Passed
    <3>4. View(s, i) = buf[s][i]
      BY <1>1, <2>5, <3>1, <3>2
    <3>5. View(s, i)' = buf'[s][i]
      BY <1>0, <1>6, <2>5, <3>1, <3>2 DEF UpInv, View
    <3>6. CASE i \in LinkedIns
      <4>1. buf'[seg][i] = LinkOf(seg, i, buf[seg][i])
        BY <1>3, <2>3, <3>1, <3>2, <3>6 DEF ExecutedAs
      <4> QED
        BY <2>2, <2>5, <3>3, <3>4, <3>5, <3>6, <4>1
    <3>7. CASE i \notin LinkedIns
      <4>1. View(s, i) = want[i]
        BY <1>0, <2>1, <3>7 DEF InputInv
      <4>2. buf'[s][i] = buf[s][i]
        BY <1>4, <1>5, <3>7
      <4> QED
        BY <3>3, <3>4, <3>5, <3>7, <4>1, <4>2
    <3> QED
      BY <3>6, <3>7
  <2> QED
    BY <2>4, <2>5
<1>e. OutInv'
  <2> SUFFICES ASSUME NEW l \in Links, Settled(OfLink(l))', NEW s \in LinkOwners(l),
                      l[1] \in LinkedOuts \/ l[1] \notin FdTensors \/ made[l[1]] = None
               PROVE  buf'[s][l[1]] = made[l[1]]
    BY <1>1, <1>2, Stable DEF OutInv
  <2>1. Settled(OfLink(l)) /\ OfLink(l) # at
    BY <1>2, Stable
  <2>2. buf[s][l[1]] = made[l[1]]
    BY <1>0, <1>1, <2>1 DEF OutInv
  <2>3. s \in Segs /\ s # seg
    BY <1>0, <1>1, <2>1, OwnersAre
  <2> QED
    BY <1>3, <2>2, <2>3
<1>f. MadeInv'
  <2> SUFFICES ASSUME at \in sure, phase' = "submitted", NEW s \in SegsOf(at), NEW t \in BoundaryOuts(s)
               PROVE  (/\ Passed(s) /\ Dev(s) = "gpu" =>
                            /\ IF rt[t].fd THEN fdMem[t] = Current[t] ELSE buf[s][t] = Current[t]
                            /\ t \in Reduced /\ DeviceArgMax(t) => argRes[t] = Current[t]
                       /\ s < seg /\ ~rt[t].fd /\ ~(Dev(s) = "gpu" /\ StaysOnDevice(t)) =>
                            /\ rt[t].hostValid /\ rt[t].host = Shown(t, Current[t])
                            /\ \A r \in Segs \ {s} : AlreadyHere(r, t) => buf[r][t] = Current[t])'
    BY Stable DEF MadeInv
  <2>1. /\ Passed(s) /\ Dev(s) = "gpu" =>
                            /\ IF rt[t].fd THEN fdMem[t] = Current[t] ELSE buf[s][t] = Current[t]
                            /\ t \in Reduced /\ DeviceArgMax(t) => argRes[t] = Current[t]
        /\ s < seg /\ ~rt[t].fd /\ ~(Dev(s) = "gpu" /\ StaysOnDevice(t)) =>
                            /\ rt[t].hostValid /\ rt[t].host = Shown(t, Current[t])
                            /\ \A r \in Segs \ {s} : AlreadyHere(r, t) => buf[r][t] = Current[t]
    BY <1>0 DEF MadeInv
  <2>2. s \in Segs /\ segs[s].of = at /\ t \in Tensors /\ t \notin GraphInputs /\ (s # seg => t \notin BoundaryOuts(seg))
    BY <1>0, <1>1, OutsAre DEF SegsOf
  <2>3. t \notin LinkedIns /\ (t \in Reduced => t \in ArgMaxable)
    BY <1>0, <2>2, GraphIs DEF LinkedIns, TypeOK
  <2>4. (Passed(s) /\ Dev(s) = "gpu" =>
                            /\ IF rt[t].fd THEN fdMem[t] = Current[t] ELSE buf[s][t] = Current[t]
                            /\ t \in Reduced /\ DeviceArgMax(t) => argRes[t] = Current[t])'
    <3>1. CASE s = seg
      <4>1. /\ IF rt[t].fd THEN fdMem'[t] = Current[t] ELSE buf'[s][t] = Current[t]
            /\ t \in Reduced /\ DeviceArgMax(t) => argRes'[t] = Current[t]
        BY <1>3, <2>2, <3>1 DEF ExecutedAs
      <4> QED
        BY <1>2, <4>1
    <3>2. CASE s # seg
      <4>1. Passed(s)' <=> Passed(s)
        BY <3>2, Stable DEF Passed
      <4>2. fdMem'[t] = fdMem[t] /\ (t \in Reduced => argRes'[t] = argRes[t]) /\ buf'[s] = buf[s]
        BY <1>3, <1>5, <2>2, <2>3, <3>2
      <4> QED
        BY <1>2, <2>1, <4>1, <4>2, Stable
    <3> QED
      BY <3>1, <3>2
  <2>5. (s < seg /\ ~rt[t].fd /\ ~(Dev(s) = "gpu" /\ StaysOnDevice(t)) =>
                            /\ rt[t].hostValid /\ rt[t].host = Shown(t, Current[t])
                            /\ \A r \in Segs \ {s} : AlreadyHere(r, t) => buf[r][t] = Current[t])'
    <3> SUFFICES ASSUME s < seg, ~rt[t].fd, ~(Dev(s) = "gpu" /\ StaysOnDevice(t))
                 PROVE  /\ rt[t].hostValid /\ rt[t].host = Shown(t, Current[t])'
                        /\ \A r \in Segs \ {s} : AlreadyHere(r, t) => buf'[r][t] = Current[t]
      BY <1>2, <1>6, Stable
    <3>1. Shown(t, Current[t])' = Shown(t, Current[t])
      BY <1>2 DEF Shown, Row
    <3>2. s # seg
      BY <1>1, <2>2
    <3>3. \A r \in Segs : buf'[r][t] = buf[r][t]
      BY <1>5, <2>2, <2>3, <3>2
    <3> QED
      BY <2>1, <3>1, <3>3
  <2> QED
    BY <2>4, <2>5
<1> QED
  BY <1>2, <1>a, <1>b, <1>c, <1>d, <1>e, <1>f DEF IInv

\* The submitted stream runs to its end.
LEMMA StepSubmit ==
  ASSUME AllSupported, IInv, Submit
  PROVE  IInv'
<1>1. /\ phase = "uploaded" /\ phase' = "submitted" /\ Execute(BoundaryOuts(seg))
      /\ UNCHANGED <<planVs, rt, buckets, linked, slot, argMax, rows, at, seg, want, made, sure, completed, ran, thrown>>
  BY DEF Submit, sessionVs, history
<1>2. Executed
  BY <1>1, ExecuteIs
<1> QED
  BY <1>1, <1>2, StepExecute

\* A chunk of the stream fails.
LEMMA StepSubmitThrows ==
  ASSUME AllSupported, IInv, NEW W \in SUBSET BoundaryOuts(seg), SubmitThrows(W)
  PROVE  IInv'
<1>1. /\ phase = "uploaded" /\ phase' = "threw" /\ thrown < MaxThrows /\ (Execute(W) \/ UNCHANGED <<buf, fdMem, argRes>>)
      /\ UNCHANGED <<planVs, rt, buckets, linked, slot, argMax, rows, at, seg, want, made, sure, completed, ran, thrown>>
  BY DEF SubmitThrows, sessionVs, history
<1>2. ASSUME UNCHANGED <<buf, fdMem, argRes>> PROVE Executed
  <2>1. ShapeInv
    BY DEF IInv
  <2>2. \A t \in Tensors : ExecutedAs(t)
    BY <1>1, <1>2 DEF ExecutedAs
  <2> QED
    BY <1>2, <2>1, <2>2 DEF Executed, ShapeInv
<1>3. Executed
  BY <1>1, <1>2, ExecuteIs
<1> QED
  BY <1>1, <1>3, StepExecute

\* What a download makes of tensor t.
DownloadedAs(t) ==
  /\ IsRt(rt'[t]) /\ rt'[t].form \in {"f32", "fp16"} /\ rt'[t].hostValid \in BOOLEAN /\ rt'[t].fd = rt[t].fd
  /\ rt'[t].form = "fp16" => rt[t].form = "fp16" \/ t \in Flat \cap Fp16
  /\ t \notin BoundaryOuts(seg) => rt'[t] = rt[t]
  /\ t \in BoundaryOuts(seg) =>
       /\ rt'[t].owner = (IF rt[t].fd THEN TheFd ELSE seg) /\ rt'[t].deviceValid = TRUE
       /\ ~StaysOnDevice(t) /\ ~rt[t].fd => rt'[t].hostValid /\ rt'[t].host = Shown(t, buf[seg][t])

\* The records after a download, tensor by tensor.
LEMMA DownloadIs ==
  ASSUME AllSupported, IInv, Download
  PROVE  rt' = [t \in Tensors |-> rt'[t]] /\ \A t \in Tensors : DownloadedAs(t)
<1>0. TypeOK /\ ShapeInv
  BY DEF IInv
<1>1. rt' = [t \in Tensors |->
              IF t \notin BoundaryOuts(seg) THEN rt[t]
              ELSE LET r == [rt[t] EXCEPT !.owner = IF rt[t].fd THEN TheFd ELSE seg, !.deviceValid = TRUE]
                   IN  IF StaysOnDevice(t) THEN [r EXCEPT !.hostValid = FALSE]
                       ELSE IF rt[t].fd THEN r
                       ELSE [r EXCEPT !.host = Shown(t, buf[seg][t]), !.hostValid = TRUE,
                                      !.form = IF t \in Flat \cap Fp16 THEN "fp16" ELSE "f32"]]
  BY DEF Download
<1>2. ASSUME NEW t \in Tensors PROVE DownloadedAs(t)
  <2>1. /\ IsRt(rt[t]) /\ rt[t].form \in {"f32", "fp16"} /\ rt[t].hostValid \in BOOLEAN
    BY <1>0 DEF ShapeInv, TypeOK
  <2>2. CASE t \notin BoundaryOuts(seg)
    <3>1. rt'[t] = rt[t]
      BY <1>1, <2>2
    <3> QED
      BY <2>1, <2>2, <3>1 DEF DownloadedAs
  <2>3. CASE t \in BoundaryOuts(seg)
    <3> DEFINE o == IF rt[t].fd THEN TheFd ELSE seg
               r == [rt[t] EXCEPT !.owner = o, !.deviceValid = TRUE]
               f == IF t \in Flat \cap Fp16 THEN "fp16" ELSE "f32"
               h == Shown(t, buf[seg][t])
    <3>1. rt'[t] = IF StaysOnDevice(t) THEN [r EXCEPT !.hostValid = FALSE]
                   ELSE IF rt[t].fd THEN r ELSE [r EXCEPT !.host = h, !.hostValid = TRUE, !.form = f]
      BY <1>1, <2>3
    <3>2. r = [rt[t] EXCEPT !.owner = o, !.deviceValid = TRUE]
      OBVIOUS
    <3>3. f \in {"f32", "fp16"} /\ (f = "fp16" => t \in Flat \cap Fp16)
      OBVIOUS
    <3> HIDE DEF r, f, h, o
    <3>4. RtIs(r, rt[t].host, rt[t].form, rt[t].hostValid, o, TRUE, rt[t].fd)
      BY <2>1, <3>2, Updates, Zenon
    <3>5. /\ IsRt(r) /\ r.host = rt[t].host /\ r.form = rt[t].form /\ r.hostValid = rt[t].hostValid
          /\ r.owner = o /\ r.deviceValid = TRUE /\ r.fd = rt[t].fd
      BY <3>4, Zenon DEF RtIs
    <3>6. CASE StaysOnDevice(t)
      <4>1. rt'[t] = [r EXCEPT !.hostValid = FALSE]
        BY <3>1, <3>6
      <4>2. RtIs(rt'[t], r.host, r.form, FALSE, r.owner, r.deviceValid, r.fd)
        BY <3>5, <4>1, Updates, Zenon
      <4>3. /\ IsRt(rt'[t]) /\ rt'[t].form = r.form /\ rt'[t].hostValid = FALSE
            /\ rt'[t].owner = r.owner /\ rt'[t].deviceValid = r.deviceValid /\ rt'[t].fd = r.fd
        BY <4>2, Zenon DEF RtIs
      <4> QED
        BY <2>1, <2>3, <3>5, <3>6, <4>3 DEF DownloadedAs, o
    <3>7. CASE ~StaysOnDevice(t) /\ rt[t].fd
      <4>1. rt'[t] = r
        BY <3>1, <3>7
      <4> QED
        BY <2>1, <2>3, <3>5, <3>7, <4>1 DEF DownloadedAs, o
    <3>8. CASE ~StaysOnDevice(t) /\ ~rt[t].fd
      <4>1. rt'[t] = [r EXCEPT !.host = h, !.hostValid = TRUE, !.form = f]
        BY <3>1, <3>8
      <4>2. RtIs(rt'[t], h, f, TRUE, r.owner, r.deviceValid, r.fd)
        BY <3>5, <4>1, Updates, Zenon
      <4>3. /\ IsRt(rt'[t]) /\ rt'[t].host = h /\ rt'[t].form = f /\ rt'[t].hostValid = TRUE
            /\ rt'[t].owner = r.owner /\ rt'[t].deviceValid = r.deviceValid /\ rt'[t].fd = r.fd
        BY <4>2, Zenon DEF RtIs
      <4> QED
        BY <2>1, <2>3, <3>3, <3>5, <3>8, <4>3 DEF DownloadedAs, o, h
    <3> QED
      BY <3>6, <3>7, <3>8
  <2> QED
    BY <2>2, <2>3
<1> QED
  BY <1>1, <1>2

\* The outputs of a segment come down.
LEMMA StepDownload ==
  ASSUME AllSupported, IInv, Download
  PROVE  IInv'
<1>0. /\ StaticInv /\ TypeOK /\ ShapeInv /\ LinksInv /\ FdInv /\ FormInv /\ FreshInv
      /\ InputInv /\ LoneInv /\ OutInv /\ MadeInv
  BY DEF IInv
<1>1. /\ phase = "submitted" /\ phase' = "run" /\ seg' = seg + 1
      /\ UNCHANGED <<planVs, buf, fdMem, argRes, buckets, linked, slot, argMax, rows, at, want, made, sure, completed, ran, thrown>>
  BY DEF Download, sessionVs, history
<1>2. /\ seg \in Segs /\ seg \in SegsOf(at) /\ segs[seg].of = at /\ Dev(seg) = "gpu" /\ OnGpu
      /\ seg \in Nat /\ \A s \in Segs : s \in Nat \ {0}
  BY <1>1, UploadedSegment
<1>3. /\ StaticInv' /\ LinksInv' /\ RowsInv' /\ ResultsAreCurrent' /\ ArgInv'
      /\ LinkedIns' = LinkedIns /\ LinkedOuts' = LinkedOuts /\ Reduced' = Reduced /\ Current' = Current
      /\ \A i : (InRun(i)' <=> InRun(i)) /\ (Held(i)' <=> Held(i)) /\ (InRun(i) <=> i \in InputsOf(at))
      /\ \A o : /\ (DeviceArgMax(o)' <=> DeviceArgMax(o)) /\ (StaysOnDevice(o)' <=> StaysOnDevice(o))
                /\ \A v : Shown(o, v)' = Shown(o, v)
      /\ \A b : (Settled(b)' <=> Settled(b)) /\ (Settled(b) <=> b \in sure /\ b # at)
      /\ \A b : Sound(b)' <=> Sound(b)
  BY <1>1, RunFrame
<1>4. rt' = [t \in Tensors |-> rt'[t]] /\ \A t \in Tensors : DownloadedAs(t)
  BY DownloadIs
<1>5. ASSUME NEW t \in Tensors, t \notin BoundaryOuts(seg)
      PROVE  /\ rt'[t] = rt[t]
             /\ \A s : (AlreadyHere(s, t)' <=> AlreadyHere(s, t)) /\ View(s, t)' = View(s, t)
  <2>1. rt'[t] = rt[t]
    BY <1>4, <1>5 DEF DownloadedAs
  <2> QED
    BY <1>1, <2>1, ViewFrame DEF SameRt
<1>6. \A i \in GraphInputs : i \in Tensors /\ i \notin BoundaryOuts(seg)
  BY <1>0, <1>2, OutsAre DEF Tensors
<1>7. \A s \in Segs : Passed(s)' <=> Passed(s)
  BY <1>1, <1>2, Stable DEF Passed
<1>a. TypeOK'
  <2>1. ASSUME NEW t \in Tensors
        PROVE  /\ rt'[t].form \in {"f32", "fp16"} /\ rt'[t].owner \in Segs \cup {Nobody, TheFd}
               /\ rt'[t].hostValid \in BOOLEAN /\ rt'[t].deviceValid \in BOOLEAN
               /\ rt'[t].fd \in BOOLEAN /\ (rt'[t].fd => t \in FdTensors)
               /\ rt'[t].deviceValid => rt'[t].owner # Nobody
    <3>1. /\ rt[t].owner \in Segs \cup {Nobody, TheFd} /\ rt[t].deviceValid \in BOOLEAN
          /\ rt[t].fd \in BOOLEAN /\ (rt[t].fd => t \in FdTensors)
          /\ rt[t].deviceValid => rt[t].owner # Nobody
      BY <1>0 DEF TypeOK
    <3>2. DownloadedAs(t)
      BY <1>4
    <3>3. CASE t \notin BoundaryOuts(seg)
      BY <3>1, <3>2, <3>3 DEF DownloadedAs
    <3>4. CASE t \in BoundaryOuts(seg)
      <4>1. rt'[t].owner \in Segs \cup {Nobody, TheFd} /\ rt'[t].owner # Nobody
        BY <1>2, <3>2, <3>4 DEF DownloadedAs, Nobody, TheFd
      <4> QED
        BY <3>1, <3>2, <3>4, <4>1 DEF DownloadedAs
    <3> QED
      BY <3>3, <3>4
  <2>2. /\ sure' \subseteq sure /\ completed' \in BOOLEAN /\ thrown' \in 0 .. MaxThrows /\ ran' \subseteq Reduced
        /\ phase' \in {"idle", "run", "uploaded", "submitted", "threw", "done"}
    BY <1>0, <1>1 DEF TypeOK
  <2> QED
    BY <1>1, <1>2, <2>1, <2>2, RunTypes
<1>b. ShapeInv' /\ PhaseInv' /\ FormInv' /\ CpuInv' /\ UpInv' /\ CpuLinkInv'
  <2>1. ShapeInv'
    <3>1. \A t \in Tensors : IsRt(rt'[t])
      BY <1>4 DEF DownloadedAs
    <3> QED
      BY <1>0, <1>1, <1>4, <3>1, Stable DEF ShapeInv
  <2>2. PhaseInv'
    <3>1. seg' - 1 = seg
      BY <1>1, <1>2
    <3> QED
      BY <1>1, <1>2, <3>1, Stable DEF PhaseInv
  <2>3. FormInv'
    BY <1>0, <1>1, <1>4, Stable DEF FormInv, DownloadedAs
  <2>4. CpuInv' /\ UpInv' /\ CpuLinkInv'
    BY <1>1, <1>2, Stable DEF CpuInv, UpInv, CpuLinkInv
  <2> QED
    BY <2>1, <2>2, <2>3, <2>4
<1>c. FdInv' /\ FreshInv'
  <2>1. FdInv'
    <3>1. \A t \in InputsOf(at) \cup OutputsOf(at) : t \in Tensors
      BY <1>0, GraphIs DEF InputsOf, OutputsOf, Tensors
    <3>2. \A t \in InputsOf(at) \cup OutputsOf(at) : rt'[t].fd = rt[t].fd
      BY <1>4, <3>1 DEF DownloadedAs
    <3> QED
      BY <1>0, <1>1, <1>3, <3>2, Stable DEF FdInv
  <2>2. FreshInv'
    BY <1>0, <1>1, <1>5, <1>6, Stable DEF FreshInv
  <2> QED
    BY <2>1, <2>2
<1>d. InputInv'
  <2> SUFFICES ASSUME NEW i \in GraphInputs, i \notin LinkedIns, Held(i)
               PROVE  (IF FdNow(i) THEN fdMem[i] = want[i]
                       ELSE IF \E s \in Segs : Lone(s, i) THEN \A s \in Segs : Lone(s, i) => View(s, i) = want[i]
                       ELSE Solid(i, want[i]))'
    BY <1>1, <1>3, Stable DEF InputInv
  <2>1. IF FdNow(i) THEN fdMem[i] = want[i]
        ELSE IF \E s \in Segs : Lone(s, i) THEN \A s \in Segs : Lone(s, i) => View(s, i) = want[i]
        ELSE Solid(i, want[i])
    BY <1>0 DEF InputInv
  <2>2. rt'[i] = rt[i] /\ \A s : (AlreadyHere(s, i)' <=> AlreadyHere(s, i)) /\ View(s, i)' = View(s, i)
    BY <1>5, <1>6
  <2>3. (FdNow(i)' <=> FdNow(i)) /\ (Solid(i, want[i])' <=> Solid(i, want[i]))
    BY <1>1, <1>3, <2>2, Stable DEF FdNow, Solid
  <2> QED
    BY <1>1, <2>1, <2>2, <2>3, LoneFrame, Stable
<1>e. LoneInv'
  <2> SUFFICES ASSUME NEW i \in GraphInputs, NEW s \in Segs, Lone(s, i), Sound(InputDesc[i].of)',
                      i \in LinkedIns \/ Held(i), ~FdNow(i)'
               PROVE  IF Passed(s)' THEN buf[s][i] = want[i] /\ View(s, i)' = want[i]
                      ELSE i \in LinkedIns => LinkOf(s, i, View(s, i))' = want[i]
    BY <1>1, <1>3, Stable, LoneFrame DEF LoneInv
  <2>1. rt'[i] = rt[i] /\ View(s, i)' = View(s, i)
    BY <1>5, <1>6
  <2>2. Sound(InputDesc[i].of) /\ ~FdNow(i)
    BY <1>1, <1>3, <2>1, Stable DEF FdNow
  <2>3. LinkOf(s, i, View(s, i))' = LinkOf(s, i, View(s, i))
    BY <1>1, <2>1, LinkFrame
  <2> QED
    BY <1>0, <1>7, <2>1, <2>2, <2>3 DEF LoneInv
<1>f. OutInv'
  BY <1>0, <1>1, <1>2, <1>3, Stable DEF OutInv
<1>g. MadeInv'
  <2> SUFFICES ASSUME at \in sure, NEW s \in SegsOf(at), NEW t \in BoundaryOuts(s)
               PROVE  (/\ Passed(s) /\ Dev(s) = "gpu" =>
                            /\ IF rt[t].fd THEN fdMem[t] = Current[t] ELSE buf[s][t] = Current[t]
                            /\ t \in Reduced /\ DeviceArgMax(t) => argRes[t] = Current[t]
                       /\ s < seg /\ ~rt[t].fd /\ ~(Dev(s) = "gpu" /\ StaysOnDevice(t)) =>
                            /\ rt[t].hostValid /\ rt[t].host = Shown(t, Current[t])
                            /\ \A r \in Segs \ {s} : AlreadyHere(r, t) => buf[r][t] = Current[t])'
    BY <1>1, Stable DEF MadeInv
  <2>1. /\ Passed(s) /\ Dev(s) = "gpu" =>
                            /\ IF rt[t].fd THEN fdMem[t] = Current[t] ELSE buf[s][t] = Current[t]
                            /\ t \in Reduced /\ DeviceArgMax(t) => argRes[t] = Current[t]
        /\ s < seg /\ ~rt[t].fd /\ ~(Dev(s) = "gpu" /\ StaysOnDevice(t)) =>
                            /\ rt[t].hostValid /\ rt[t].host = Shown(t, Current[t])
                            /\ \A r \in Segs \ {s} : AlreadyHere(r, t) => buf[r][t] = Current[t]
    BY <1>0, <1>1 DEF MadeInv
  <2>2. s \in Segs /\ s \in Nat /\ t \in Tensors /\ (s # seg => t \notin BoundaryOuts(seg))
    BY <1>0, <1>2, OutsAre DEF SegsOf
  <2>3. rt'[t].fd = rt[t].fd
    BY <1>4, <2>2 DEF DownloadedAs
  <2>4. (Passed(s) /\ Dev(s) = "gpu" =>
                            /\ IF rt[t].fd THEN fdMem[t] = Current[t] ELSE buf[s][t] = Current[t]
                            /\ t \in Reduced /\ DeviceArgMax(t) => argRes[t] = Current[t])'
    BY <1>1, <1>3, <1>7, <2>1, <2>2, <2>3, Stable
  <2>5. (s < seg /\ ~rt[t].fd /\ ~(Dev(s) = "gpu" /\ StaysOnDevice(t)) =>
                            /\ rt[t].hostValid /\ rt[t].host = Shown(t, Current[t])
                            /\ \A r \in Segs \ {s} : AlreadyHere(r, t) => buf[r][t] = Current[t])'
    <3> SUFFICES ASSUME s < seg + 1, ~rt[t].fd, ~(Dev(s) = "gpu" /\ StaysOnDevice(t))
                 PROVE  /\ rt'[t].hostValid /\ rt'[t].host = Shown(t, Current[t])'
                        /\ \A r \in Segs \ {s} : AlreadyHere(r, t)' => buf[r][t] = Current[t]
      BY <1>1, <1>3, <2>3, Stable
    <3>1. Shown(t, Current[t])' = Shown(t, Current[t])
      BY <1>1, <1>3 DEF Shown, Row
    <3>2. CASE s # seg
      <4>1. s < seg
        BY <1>2, <2>2, <3>2
      <4> QED
        BY <1>5, <2>1, <2>2, <3>1, <3>2, <4>1
    <3>3. CASE s = seg
      <4>1. buf[seg][t] = Current[t]
        BY <1>1, <1>2, <2>1, <3>3 DEF Passed
      <4>2. rt'[t].hostValid /\ rt'[t].host = Shown(t, buf[seg][t]) /\ rt'[t].owner = seg
        BY <1>2, <1>4, <2>2, <3>3 DEF DownloadedAs
      <4> QED
        BY <3>1, <3>3, <4>1, <4>2 DEF AlreadyHere
    <3> QED
      BY <3>2, <3>3
  <2> QED
    BY <2>4, <2>5
<1> QED
  BY <1>3, <1>a, <1>b, <1>c, <1>d, <1>e, <1>f, <1>g DEF IInv

\* What the nodes of a CPU segment make of tensor t.
CpuRanAs(t) ==
  /\ IsRt(rt'[t]) /\ rt'[t].form \in {"f32", "fp16"} /\ rt'[t].hostValid \in BOOLEAN /\ rt'[t].deviceValid \in BOOLEAN
  /\ rt'[t].fd = rt[t].fd /\ rt'[t].owner = rt[t].owner
  /\ rt'[t].form = "fp16" => rt[t].form = "fp16"
  /\ rt'[t].deviceValid => rt[t].deviceValid
  /\ (\A n \in NodesOf(seg) : t \notin Nodes[n].outs) => rt'[t] = rt[t]
  /\ phase' = "run" /\ at \in sure /\ t \in BoundaryOuts(seg) => rt'[t].hostValid /\ rt'[t].host = Current[t] /\ ~rt'[t].deviceValid

\* The records after a CPU segment's nodes, tensor by tensor.
LEMMA CpuNodesIs ==
  ASSUME AllSupported, IInv, phase = "run", seg \in SegsOf(at), Dev(seg) = "cpu", NEW last \in NodesOf(seg), CpuNodes(last),
         phase' = "run" => last = LastOf(seg)
  PROVE  rt' = [t \in Tensors |-> rt'[t]] /\ \A t \in Tensors : CpuRanAs(t)
<1>0. TypeOK /\ ShapeInv /\ StaticInv
  BY DEF IInv
<1> DEFINE env == Eval(FirstOf(seg), last, HostRead)
<1>1. rt' = [t \in Tensors |-> IF \E n \in FirstOf(seg) .. last : t \in Nodes[n].outs
                               THEN CpuOut(rt[t], env[t]) ELSE rt[t]]
  BY DEF CpuNodes
<1>2. /\ seg \in Segs /\ NodesOf(seg) = FirstOf(seg) .. LastOf(seg) /\ NodesOf(seg) \subseteq DOMAIN Nodes
      /\ FirstOf(seg) .. last \subseteq NodesOf(seg)
  <2>1. seg \in Segs
    BY DEF SegsOf
  <2>2. /\ NodesOf(seg) = FirstOf(seg) .. LastOf(seg) /\ NodesOf(seg) \subseteq DOMAIN Nodes
        /\ FirstOf(seg) \in DOMAIN Nodes /\ LastOf(seg) \in DOMAIN Nodes
    BY <1>0, <2>1, SegmentIs
  <2>3. FirstOf(seg) \in Nat /\ LastOf(seg) \in Nat /\ last \in FirstOf(seg) .. LastOf(seg)
    BY <1>0, <2>2, GraphIs
  <2> QED
    BY <2>1, <2>2, <2>3
<1>3. phase' = "run" /\ at \in sure => \A t \in BoundaryOuts(seg) : env[t] = Current[t]
  <2>1. at \in sure => \A t \in BoundaryIns(seg) : HostRead[t] = Current[t]
    BY OperandsCurrent DEF InputsAreCurrent
  <2> QED
    BY <1>0, <1>2, <2>1, SegmentComputes
<1> HIDE DEF env
<1>4. ASSUME NEW t \in Tensors PROVE CpuRanAs(t)
  <2>1. /\ IsRt(rt[t]) /\ rt[t].form \in {"f32", "fp16"} /\ rt[t].hostValid \in BOOLEAN /\ rt[t].deviceValid \in BOOLEAN
    BY <1>0 DEF ShapeInv, TypeOK
  <2>2. CASE \E n \in FirstOf(seg) .. last : t \in Nodes[n].outs
    <3>1. rt'[t] = CpuOut(rt[t], env[t])
      BY <1>1, <2>2
    <3>2. RtIs(CpuOut(rt[t], env[t]), env[t], "f32", TRUE, rt[t].owner, FALSE, rt[t].fd)
      BY <2>1, BindHostIs
    <3>3. RtIs(rt'[t], env[t], "f32", TRUE, rt[t].owner, FALSE, rt[t].fd)
      BY <3>1, <3>2
    <3>4. /\ IsRt(rt'[t]) /\ rt'[t].host = env[t] /\ rt'[t].form = "f32" /\ rt'[t].hostValid = TRUE
          /\ rt'[t].owner = rt[t].owner /\ rt'[t].deviceValid = FALSE /\ rt'[t].fd = rt[t].fd
      BY <3>3, Zenon DEF RtIs
    <3>5. ~ \A n \in NodesOf(seg) : t \notin Nodes[n].outs
      BY <1>2, <2>2
    <3> QED
      BY <1>3, <3>4, <3>5 DEF CpuRanAs
  <2>3. CASE ~ \E n \in FirstOf(seg) .. last : t \in Nodes[n].outs
    <3>1. rt'[t] = rt[t]
      BY <1>1, <2>3
    <3>2. phase' = "run" => t \notin BoundaryOuts(seg)
      BY <1>0, <1>2, <2>3, OutsAre
    <3> QED
      BY <2>1, <3>1, <3>2 DEF CpuRanAs
  <2> QED
    BY <2>2, <2>3
<1> QED
  BY <1>1, <1>4

\* The operators of a CPU segment run, or one of them throws.
LEMMA StepCpu ==
  ASSUME AllSupported, IInv, phase = "run", seg \in SegsOf(at), Dev(seg) = "cpu",
         (phase' = "run" /\ seg' = seg + 1) \/ (phase' = "threw" /\ seg' = seg /\ thrown < MaxThrows),
         rt' = [t \in Tensors |-> rt'[t]], \A t \in Tensors : CpuRanAs(t),
         UNCHANGED <<planVs, buf, fdMem, argRes, buckets, linked, slot, argMax, rows, at, want, made, sure, completed, ran, thrown>>
  PROVE  IInv'
<1>0. /\ StaticInv /\ TypeOK /\ ShapeInv /\ LinksInv /\ FdInv /\ RowsInv /\ FormInv /\ CpuInv /\ FreshInv
      /\ InputInv /\ LoneInv /\ CpuLinkInv /\ OutInv /\ MadeInv
  BY DEF IInv
<1>1. seg \in Segs /\ segs[seg].of = at /\ seg \in Nat /\ \A s \in Segs : s \in Nat \ {0}
  BY <1>0, SegmentIs DEF SegsOf
<1>3. /\ StaticInv' /\ LinksInv' /\ RowsInv' /\ ResultsAreCurrent' /\ ArgInv'
      /\ LinkedIns' = LinkedIns /\ LinkedOuts' = LinkedOuts /\ Reduced' = Reduced /\ Current' = Current
      /\ \A i : (InRun(i)' <=> InRun(i)) /\ (Held(i)' <=> Held(i)) /\ (InRun(i) <=> i \in InputsOf(at))
      /\ \A o : /\ (DeviceArgMax(o)' <=> DeviceArgMax(o)) /\ (StaysOnDevice(o)' <=> StaysOnDevice(o))
                /\ \A v : Shown(o, v)' = Shown(o, v)
      /\ \A b : (Settled(b)' <=> Settled(b)) /\ (Settled(b) <=> b \in sure /\ b # at)
      /\ \A b : Sound(b) <=> b \in sure
  BY RunFrame
<1>4. \A b : Sound(b)' => Sound(b)
  BY DEF Sound
<1>5. ASSUME NEW t \in Tensors, \A n \in NodesOf(seg) : t \notin Nodes[n].outs
      PROVE  /\ rt'[t] = rt[t]
             /\ \A s : (AlreadyHere(s, t)' <=> AlreadyHere(s, t)) /\ View(s, t)' = View(s, t)
  <2>1. rt'[t] = rt[t]
    BY <1>5 DEF CpuRanAs
  <2> QED
    BY <2>1, ViewFrame DEF SameRt
<1>6. \A i \in GraphInputs : i \in Tensors /\ \A n \in NodesOf(seg) : i \notin Nodes[n].outs
  <2>1. NodesOf(seg) \subseteq DOMAIN Nodes
    BY <1>0, <1>1, SegmentIs
  <2> QED
    BY <1>0, <2>1, GraphIs DEF Tensors
<1>7. \A s \in Segs : Dev(s) = "gpu" => (Passed(s)' <=> Passed(s))
  BY <1>1, Stable DEF Passed
<1>a. TypeOK'
  <2>1. ASSUME NEW t \in Tensors
        PROVE  /\ rt'[t].form \in {"f32", "fp16"} /\ rt'[t].owner \in Segs \cup {Nobody, TheFd}
               /\ rt'[t].hostValid \in BOOLEAN /\ rt'[t].deviceValid \in BOOLEAN
               /\ rt'[t].fd \in BOOLEAN /\ (rt'[t].fd => t \in FdTensors)
               /\ rt'[t].deviceValid => rt'[t].owner # Nobody
    BY <1>0 DEF TypeOK, CpuRanAs
  <2>2. /\ sure' \subseteq sure /\ completed' \in BOOLEAN /\ thrown' \in 0 .. MaxThrows /\ ran' \subseteq Reduced
        /\ phase' \in {"idle", "run", "uploaded", "submitted", "threw", "done"}
    BY <1>0 DEF TypeOK
  <2> QED
    BY <1>1, <2>1, <2>2, RunTypes
<1>b. ShapeInv' /\ PhaseInv' /\ FormInv' /\ CpuInv' /\ UpInv'
  <2>1. ShapeInv'
    <3>1. \A t \in Tensors : IsRt(rt'[t])
      BY DEF CpuRanAs
    <3> QED
      BY <1>0, <3>1, Stable DEF ShapeInv
  <2>2. PhaseInv'
    <3>1. phase' = "run" => seg' - 1 = seg
      BY <1>1
    <3>2. (\A b : SegsOf(b)' = SegsOf(b)) /\ MaxThrows' = MaxThrows
      BY Stable
    <3> QED
      BY <3>1, <3>2 DEF PhaseInv
  <2>3. FormInv' /\ CpuInv'
    BY <1>0, Stable DEF FormInv, CpuInv, CpuRanAs
  <2>4. UpInv'
    BY DEF UpInv
  <2> QED
    BY <2>1, <2>2, <2>3, <2>4
<1>c. FdInv' /\ FreshInv' /\ CpuLinkInv'
  <2>1. FdInv'
    <3>1. \A t \in InputsOf(at) \cup OutputsOf(at) : t \in Tensors
      BY <1>0, GraphIs DEF InputsOf, OutputsOf, Tensors
    <3>2. \A t \in InputsOf(at) \cup OutputsOf(at) : rt'[t].fd = rt[t].fd
      BY <3>1 DEF CpuRanAs
    <3> QED
      BY <1>0, <1>3, <3>2, Stable DEF FdInv
  <2>2. FreshInv'
    BY <1>0, <1>5, <1>6, Stable DEF FreshInv
  <2>3. CpuLinkInv'
    <3> SUFFICES ASSUME ~OnGpu, NEW l \in linked, Sound(OfLink(l))'
                 PROVE  /\ HostStorage(rt'[l[2]], l[2]).host = want[l[2]]
                        /\ InRun(l[2]) => rt'[l[2]].hostValid
      BY <1>3, Stable DEF CpuLinkInv, HostStorage
    <3>1. rt'[l[2]] = rt[l[2]]
      BY <1>0, <1>5, <1>6, GraphIs DEF TypeOK
    <3>2. Sound(OfLink(l))
      BY <1>4, Stable
    <3> QED
      BY <1>0, <3>1, <3>2 DEF CpuLinkInv
  <2> QED
    BY <2>1, <2>2, <2>3
<1>d. InputInv'
  <2> SUFFICES ASSUME NEW i \in GraphInputs, i \notin LinkedIns, Held(i)
               PROVE  (IF FdNow(i) THEN fdMem[i] = want[i]
                       ELSE IF \E s \in Segs : Lone(s, i) THEN \A s \in Segs : Lone(s, i) => View(s, i) = want[i]
                       ELSE Solid(i, want[i]))'
    BY <1>3, Stable DEF InputInv
  <2>1. IF FdNow(i) THEN fdMem[i] = want[i]
        ELSE IF \E s \in Segs : Lone(s, i) THEN \A s \in Segs : Lone(s, i) => View(s, i) = want[i]
        ELSE Solid(i, want[i])
    BY <1>0 DEF InputInv
  <2>2. rt'[i] = rt[i] /\ \A s : (AlreadyHere(s, i)' <=> AlreadyHere(s, i)) /\ View(s, i)' = View(s, i)
    BY <1>5, <1>6
  <2>3. (FdNow(i)' <=> FdNow(i)) /\ (Solid(i, want[i])' <=> Solid(i, want[i]))
    BY <1>3, <2>2, Stable DEF FdNow, Solid
  <2> QED
    BY <2>1, <2>2, <2>3, LoneFrame, Stable
<1>e. LoneInv'
  <2> SUFFICES ASSUME NEW i \in GraphInputs, NEW s \in Segs, Lone(s, i), Sound(InputDesc[i].of)',
                      i \in LinkedIns \/ Held(i), ~FdNow(i)'
               PROVE  IF Passed(s)' THEN buf[s][i] = want[i] /\ View(s, i)' = want[i]
                      ELSE i \in LinkedIns => LinkOf(s, i, View(s, i))' = want[i]
    BY <1>3, Stable, LoneFrame DEF LoneInv
  <2>1. rt'[i] = rt[i] /\ View(s, i)' = View(s, i)
    BY <1>5, <1>6
  <2>2. Sound(InputDesc[i].of) /\ ~FdNow(i)
    BY <1>3, <1>4, <2>1, Stable DEF FdNow
  <2>3. LinkOf(s, i, View(s, i))' = LinkOf(s, i, View(s, i))
    BY <2>1, LinkFrame
  <2>4. Passed(s)' <=> Passed(s)
    BY <1>0, <1>7, LoneIs
  <2> QED
    BY <1>0, <2>1, <2>2, <2>3, <2>4 DEF LoneInv
<1>f. OutInv'
  <2> SUFFICES ASSUME NEW l \in Links, Settled(OfLink(l))'
               PROVE  IF OnGpu
                      THEN \A s \in LinkOwners(l) :
                             l[1] \in LinkedOuts \/ l[1] \notin FdTensors \/ made[l[1]] = None => buf[s][l[1]] = made[l[1]]
                      ELSE l[1] \in LinkedOuts \/ made[l[1]] = None => HostStorage(rt'[l[1]], l[1]).host = made[l[1]]
    BY <1>3, Stable DEF OutInv, HostStorage
  <2>1. Settled(OfLink(l)) /\ OfLink(l) # at
    BY <1>3, Stable
  <2>2. l[1] \in GraphOutputs /\ l[1] \in Tensors /\ OutputDesc[l[1]].of = OfLink(l)
    BY <1>0, GraphIs DEF Tensors
  <2>3. PICK s \in SegsOf(OfLink(l)) : l[1] \in BoundaryOuts(s)
    BY <1>0, <2>2, OutputWritten
  <2>4. s \in Segs /\ s # seg
    BY <1>1, <2>1, <2>3 DEF SegsOf
  <2>5. \A n \in NodesOf(seg) : l[1] \notin Nodes[n].outs
    <3>1. seg \in Segs /\ NodesOf(s) \cap NodesOf(seg) = {}
      BY <1>0, <1>1, <2>4, SegmentsInOrder
    <3>2. NodesOf(seg) \subseteq DOMAIN Nodes
      BY <1>0, <3>1, SegmentIs
    <3>3. \A n \in DOMAIN Nodes : l[1] \in Nodes[n].outs => n \in NodesOf(s)
      BY <1>0, <2>3, <2>4, OutsAre
    <3> QED
      BY <3>1, <3>2, <3>3
  <2>6. rt'[l[1]] = rt[l[1]]
    BY <1>5, <2>2, <2>5
  <2> QED
    BY <1>0, <2>1, <2>6 DEF OutInv
<1>g. MadeInv'
  <2> SUFFICES ASSUME at \in sure, phase' = "run", seg' = seg + 1, NEW s \in SegsOf(at), NEW t \in BoundaryOuts(s)
               PROVE  (/\ Passed(s) /\ Dev(s) = "gpu" =>
                            /\ IF rt[t].fd THEN fdMem[t] = Current[t] ELSE buf[s][t] = Current[t]
                            /\ t \in Reduced /\ DeviceArgMax(t) => argRes[t] = Current[t]
                       /\ s < seg /\ ~rt[t].fd /\ ~(Dev(s) = "gpu" /\ StaysOnDevice(t)) =>
                            /\ rt[t].hostValid /\ rt[t].host = Shown(t, Current[t])
                            /\ \A r \in Segs \ {s} : AlreadyHere(r, t) => buf[r][t] = Current[t])'
    BY Stable DEF MadeInv
  <2>1. /\ Passed(s) /\ Dev(s) = "gpu" =>
                            /\ IF rt[t].fd THEN fdMem[t] = Current[t] ELSE buf[s][t] = Current[t]
                            /\ t \in Reduced /\ DeviceArgMax(t) => argRes[t] = Current[t]
        /\ s < seg /\ ~rt[t].fd /\ ~(Dev(s) = "gpu" /\ StaysOnDevice(t)) =>
                            /\ rt[t].hostValid /\ rt[t].host = Shown(t, Current[t])
                            /\ \A r \in Segs \ {s} : AlreadyHere(r, t) => buf[r][t] = Current[t]
    BY <1>0 DEF MadeInv
  <2>2. s \in Segs /\ s \in Nat /\ t \in Tensors
    BY <1>0, <1>1, OutsAre DEF SegsOf
  <2>3. rt'[t].fd = rt[t].fd
    BY <2>2 DEF CpuRanAs
  <2>4. (Passed(s) /\ Dev(s) = "gpu" =>
                            /\ IF rt[t].fd THEN fdMem[t] = Current[t] ELSE buf[s][t] = Current[t]
                            /\ t \in Reduced /\ DeviceArgMax(t) => argRes[t] = Current[t])'
    BY <1>3, <1>7, <2>1, <2>2, <2>3, Stable
  <2>5. (s < seg /\ ~rt[t].fd /\ ~(Dev(s) = "gpu" /\ StaysOnDevice(t)) =>
                            /\ rt[t].hostValid /\ rt[t].host = Shown(t, Current[t])
                            /\ \A r \in Segs \ {s} : AlreadyHere(r, t) => buf[r][t] = Current[t])'
    <3> SUFFICES ASSUME s < seg + 1, ~rt[t].fd, ~(Dev(s) = "gpu" /\ StaysOnDevice(t))
                 PROVE  /\ rt'[t].hostValid /\ rt'[t].host = Shown(t, Current[t])'
                        /\ \A r \in Segs \ {s} : AlreadyHere(r, t)' => buf[r][t] = Current[t]
      BY <1>3, <2>3, Stable
    <3>1. Shown(t, Current[t])' = Shown(t, Current[t])
      BY <1>3 DEF Shown, Row
    <3>2. CASE s # seg
      <4>1. s < seg
        BY <1>1, <2>2, <3>2
      <4>2. \A n \in NodesOf(seg) : t \notin Nodes[n].outs
        BY <1>0, <1>1, <2>2, <3>2, OutsAre, SegmentIs, SegmentsInOrder
      <4> QED
        BY <1>5, <2>1, <2>2, <3>1, <4>1, <4>2
    <3>3. CASE s = seg
      <4>1. rt'[t].hostValid /\ rt'[t].host = Current[t] /\ ~rt'[t].deviceValid
        BY <2>2, <3>3 DEF CpuRanAs
      <4>2. t \notin rows
        <5>1. ASSUME t \in rows PROVE FALSE
          <6>1. PICK r \in Segs : t \in BoundaryOuts(r) /\ Dev(r) = "gpu"
            BY <1>0, <5>1 DEF RowsInv, FlatBoundary
          <6>2. r = seg
            BY <1>0, <1>1, <3>3, <6>1, OutsAre
          <6> QED
            BY <6>1, <6>2
        <5> QED
          BY <5>1
      <4>3. Shown(t, Current[t]) = Current[t]
        BY <4>2 DEF Shown
      <4> QED
        BY <3>1, <4>1, <4>3 DEF AlreadyHere
    <3> QED
      BY <3>2, <3>3
  <2> QED
    BY <2>4, <2>5
<1> QED
  BY <1>3, <1>a, <1>b, <1>c, <1>d, <1>e, <1>f, <1>g DEF IInv

\* A CPU segment runs to its end.
LEMMA StepRunCpu ==
  ASSUME AllSupported, IInv, RunCpu
  PROVE  IInv'
<1>1. /\ phase = "run" /\ seg \in SegsOf(at) /\ Dev(seg) = "cpu" /\ CpuNodes(LastOf(seg)) /\ phase' = "run" /\ seg' = seg + 1
      /\ UNCHANGED <<planVs, buf, fdMem, argRes, buckets, linked, slot, argMax, rows, at, want, made, sure, completed, ran, thrown>>
  BY DEF RunCpu, sessionVs, history
<1>2. LastOf(seg) \in NodesOf(seg)
  <2>1. StaticInv /\ seg \in Segs
    BY <1>1 DEF IInv, SegsOf
  <2>2. NodesOf(seg) = FirstOf(seg) .. LastOf(seg) /\ FirstOf(seg) <= LastOf(seg) /\ FirstOf(seg) \in Nat /\ LastOf(seg) \in Nat
    BY <2>1, SegmentIs, GraphIs
  <2> QED
    BY <2>2
<1>3. rt' = [t \in Tensors |-> rt'[t]] /\ \A t \in Tensors : CpuRanAs(t)
  BY <1>1, <1>2, CpuNodesIs
<1> QED
  BY <1>1, <1>3, StepCpu

\* An operator throws.
LEMMA StepCpuThrows ==
  ASSUME AllSupported, IInv, NEW last, CpuThrows(last)
  PROVE  IInv'
<1>1. /\ phase = "run" /\ seg \in SegsOf(at) /\ Dev(seg) = "cpu" /\ last \in NodesOf(seg) /\ CpuNodes(last)
      /\ phase' = "threw" /\ seg' = seg /\ thrown < MaxThrows
      /\ UNCHANGED <<planVs, buf, fdMem, argRes, buckets, linked, slot, argMax, rows, at, want, made, sure, completed, ran, thrown>>
  BY DEF CpuThrows, sessionVs, history
<1>3. rt' = [t \in Tensors |-> rt'[t]] /\ \A t \in Tensors : CpuRanAs(t)
  BY <1>1, CpuNodesIs
<1> QED
  BY <1>1, <1>3, StepCpu

-----------------------------------------------------------------------------
\* The end of a run.

\* The run returns to the caller, who has its dma-bufs back.
LEMMA StepReturn ==
  ASSUME AllSupported, IInv, phase' = "idle",
         (phase = "threw" /\ sure' = sure \ {at} /\ completed' = FALSE /\ thrown' = thrown + 1)
           \/ (phase = "done" /\ UNCHANGED <<sure, completed, thrown>>),
         want' = [i \in GraphInputs |-> IF i \in InputsOf(at) /\ rt[i].fd THEN None ELSE want[i]],
         UNCHANGED <<planVs, rt, buf, fdMem, buckets, linked, slot, argMax, rows, argRes, at, seg, made, ran>>
  PROVE  IInv'
<1>0. /\ StaticInv /\ TypeOK /\ ShapeInv /\ PhaseInv /\ LinksInv /\ FdInv /\ RowsInv /\ FormInv /\ CpuInv /\ FreshInv
      /\ InputInv /\ LoneInv /\ CpuLinkInv /\ OutInv /\ ArgInv
  BY DEF IInv
<1>1. LinkedIns' = LinkedIns /\ LinkedOuts' = LinkedOuts /\ Reduced' = Reduced
  BY Stable DEF LinkedIns, LinkedOuts, Reduced
<1>2. \A i, s : (AlreadyHere(s, i)' <=> AlreadyHere(s, i)) /\ View(s, i)' = View(s, i)
  BY ViewFrame DEF SameRt
<1>3. ASSUME NEW i \in GraphInputs PROVE ~FdNow(i)' /\ (~FdNow(i) => want'[i] = want[i]) /\ (Held(i)' => Held(i) /\ ~FdNow(i))
  BY <1>3 DEF FdNow, InRun, Held
<1>4. \A b : (Sound(b)' => Sound(b)) /\ (Settled(b)' => Settled(b))
  BY DEF Sound, Settled
<1>5. \A i \in LinkedIns : ~FdNow(i)
  BY <1>0 DEF FdNow, InRun, FdInv
<1>a. StaticInv' /\ LinksInv' /\ FdInv' /\ RowsInv' /\ FormInv' /\ CpuInv' /\ FreshInv'
  <2>1. StaticInv' /\ LinksInv' /\ RowsInv'
    BY <1>0, Stable DEF StaticInv, planVs, LinksInv, RowsInv, FlatBoundary
  <2>2. FormInv' /\ CpuInv' /\ FreshInv'
    BY <1>0, Stable DEF FormInv, CpuInv, FreshInv
  <2>3. FdInv'
    BY DEF FdInv
  <2> QED
    BY <2>1, <2>2, <2>3
<1>b. TypeOK'
  <2>1. /\ sure' \subseteq sure /\ completed' \in BOOLEAN /\ ran' \subseteq Reduced
        /\ phase' \in {"idle", "run", "uploaded", "submitted", "threw", "done"}
        /\ \A t \in Tensors :
                 /\ rt'[t].form \in {"f32", "fp16"} /\ rt'[t].owner \in Segs \cup {Nobody, TheFd}
                 /\ rt'[t].hostValid \in BOOLEAN /\ rt'[t].deviceValid \in BOOLEAN
                 /\ rt'[t].fd \in BOOLEAN /\ (rt'[t].fd => t \in FdTensors)
                 /\ rt'[t].deviceValid => rt'[t].owner # Nobody
    BY <1>0 DEF TypeOK
  <2>2. thrown' \in 0 .. MaxThrows
    <3>1. thrown \in 0 .. MaxThrows /\ MaxThrows \in Nat /\ (phase = "threw" => thrown < MaxThrows)
      BY <1>0, GraphIs DEF TypeOK, PhaseInv
    <3> QED
      BY <3>1
  <2> QED
    BY <2>1, <2>2, RunTypes
<1>c. ShapeInv'
  BY <1>0, Stable DEF ShapeInv, IsRt
<1>d. PhaseInv' /\ UpInv' /\ MadeInv' /\ ResultsAreCurrent'
  BY DEF PhaseInv, UpInv, MadeInv, ResultsAreCurrent
<1>e. InputInv'
  <2> SUFFICES ASSUME NEW i \in GraphInputs, i \notin LinkedIns, Held(i)'
               PROVE  (IF \E s \in Segs : Lone(s, i) THEN \A s \in Segs : Lone(s, i) => View(s, i) = want[i]
                       ELSE Solid(i, want[i]))'
    BY <1>1, <1>3, Stable DEF InputInv
  <2>1. Held(i) /\ ~FdNow(i) /\ want'[i] = want[i]
    BY <1>3
  <2>2. IF \E s \in Segs : Lone(s, i) THEN \A s \in Segs : Lone(s, i) => View(s, i) = want[i]
        ELSE Solid(i, want[i])
    BY <1>0, <2>1 DEF InputInv
  <2>3. Solid(i, want[i])' <=> Solid(i, want[i])
    BY <1>2, <2>1, Stable DEF Solid
  <2> QED
    BY <1>2, <2>1, <2>2, <2>3, LoneFrame, Stable
<1>f. LoneInv'
  <2> SUFFICES ASSUME NEW i \in GraphInputs, NEW s \in Segs, Lone(s, i), Sound(InputDesc[i].of)',
                      i \in LinkedIns \/ Held(i)'
               PROVE  buf[s][i] = want'[i] /\ View(s, i)' = want'[i]
    BY <1>1, Stable, LoneFrame DEF LoneInv, Passed
  <2>1. ~FdNow(i) /\ (i \in LinkedIns \/ Held(i)) /\ want'[i] = want[i]
    BY <1>3, <1>5
  <2>2. Sound(InputDesc[i].of)
    BY <1>4, Stable
  <2>3. Passed(s)
    <3>1. segs[s].of = InputDesc[i].of
      BY <1>0, LoneIs
    <3>2. InputDesc[i].of \in sure'
      BY Stable DEF Sound
    <3> QED
      BY <3>1, <3>2 DEF Passed
  <2> QED
    BY <1>0, <1>2, <2>1, <2>2, <2>3 DEF LoneInv
<1>g. CpuLinkInv'
  <2> SUFFICES ASSUME ~OnGpu, NEW l \in linked, Sound(OfLink(l))'
               PROVE  HostStorage(rt[l[2]], l[2]).host = want'[l[2]]
    BY <1>1, Stable DEF CpuLinkInv, HostStorage, InRun
  <2>1. l[2] \in LinkedIns /\ l[2] \in GraphInputs
    BY <1>0, GraphIs DEF LinkedIns, TypeOK
  <2>2. want'[l[2]] = want[l[2]]
    BY <1>3, <1>5, <2>1
  <2>3. Sound(OfLink(l))
    BY <1>4, Stable
  <2> QED
    BY <1>0, <2>2, <2>3 DEF CpuLinkInv
<1>h. OutInv'
  <2> SUFFICES ASSUME NEW l \in Links, Settled(OfLink(l))'
               PROVE  IF OnGpu
                      THEN \A s \in LinkOwners(l) :
                             l[1] \in LinkedOuts \/ l[1] \notin FdTensors \/ made[l[1]] = None => buf[s][l[1]] = made[l[1]]
                      ELSE l[1] \in LinkedOuts \/ made[l[1]] = None => HostStorage(rt[l[1]], l[1]).host = made[l[1]]
    BY <1>1, Stable DEF OutInv, HostStorage
  <2>1. Settled(OfLink(l))
    BY <1>4, Stable
  <2> QED
    BY <1>0, <2>1 DEF OutInv
<1>i. ArgInv'
  <2>1. CASE phase = "threw"
    BY <2>1 DEF ArgInv
  <2>2. CASE phase = "done"
    <3>1. \A o : DeviceArgMax(o)' <=> DeviceArgMax(o)
      BY Stable DEF DeviceArgMax, FlatBoundary
    <3> QED
      BY <1>0, <2>2, <3>1 DEF ArgInv
  <2> QED
    BY <2>1, <2>2
<1> QED
  BY <1>a, <1>b, <1>c, <1>d, <1>e, <1>f, <1>g, <1>h, <1>i DEF IInv

\* A failed run returns.
LEMMA StepFailRun ==
  ASSUME AllSupported, IInv, FailRun
  PROVE  IInv'
<1>1. /\ phase = "threw" /\ phase' = "idle" /\ sure' = sure \ {at} /\ completed' = FALSE /\ thrown' = thrown + 1
      /\ want' = [i \in GraphInputs |-> IF i \in InputsOf(at) /\ rt[i].fd THEN None ELSE want[i]]
      /\ UNCHANGED <<planVs, rt, buf, fdMem, buckets, linked, slot, argMax, rows, argRes, at, seg, made, ran>>
  BY DEF FailRun, sessionVs
<1> QED
  BY <1>1, StepReturn

\* The caller takes the results.
LEMMA StepTakeResults ==
  ASSUME AllSupported, IInv, TakeResults
  PROVE  IInv'
<1>1. /\ phase = "done" /\ phase' = "idle" /\ UNCHANGED <<sure, completed, thrown>>
      /\ want' = [i \in GraphInputs |-> IF i \in InputsOf(at) /\ rt[i].fd THEN None ELSE want[i]]
      /\ UNCHANGED <<planVs, rt, buf, fdMem, buckets, linked, slot, argMax, rows, argRes, at, seg, made, ran>>
  BY DEF TakeResults, sessionVs
<1> QED
  BY <1>1, StepReturn

\* What collecting the outputs makes of tensor t.
EndedAs(t) ==
  /\ IsRt(rt'[t]) /\ rt'[t].host = rt[t].host /\ rt'[t].form = rt[t].form
  /\ rt'[t].owner = rt[t].owner /\ rt'[t].deviceValid = rt[t].deviceValid /\ rt'[t].hostValid \in BOOLEAN
  /\ t \notin OutputsOf(at) => rt'[t] = rt[t]
  /\ t \in OutputsOf(at) => rt'[t].fd = FALSE /\ (rt'[t].hostValid <=> rt[t].hostValid /\ ~Donated(t))

\* The records after the outputs are collected, tensor by tensor.
LEMMA EndedIs ==
  ASSUME IInv, EndRun
  PROVE  rt' = [t \in Tensors |-> rt'[t]] /\ \A t \in Tensors : EndedAs(t)
<1>0. TypeOK /\ ShapeInv
  BY DEF IInv
<1>1. rt' = [t \in Tensors |-> IF t \in OutputsOf(at)
                              THEN [rt[t] EXCEPT !.hostValid = @ /\ ~Donated(t), !.fd = FALSE] ELSE rt[t]]
  BY DEF EndRun
<1>2. ASSUME NEW t \in Tensors PROVE EndedAs(t)
  <2>1. IsRt(rt[t]) /\ rt[t].hostValid \in BOOLEAN
    BY <1>0 DEF ShapeInv, TypeOK
  <2>2. CASE t \notin OutputsOf(at)
    <3>1. rt'[t] = rt[t]
      BY <1>1, <2>2
    <3> QED
      BY <2>1, <2>2, <3>1 DEF EndedAs
  <2>3. CASE t \in OutputsOf(at)
    <3> DEFINE v == rt[t].hostValid /\ ~Donated(t)
    <3>1. rt'[t] = [rt[t] EXCEPT !.hostValid = v, !.fd = FALSE]
      BY <1>1, <2>3
    <3>2. v \in BOOLEAN
      BY <2>1
    <3>3. v <=> rt[t].hostValid /\ ~Donated(t)
      OBVIOUS
    <3> HIDE DEF v
    <3>4. RtIs(rt'[t], rt[t].host, rt[t].form, v, rt[t].owner, rt[t].deviceValid, FALSE)
      BY <2>1, <3>1, Updates, Zenon
    <3>5. /\ IsRt(rt'[t]) /\ rt'[t].host = rt[t].host /\ rt'[t].form = rt[t].form /\ rt'[t].hostValid = v
          /\ rt'[t].owner = rt[t].owner /\ rt'[t].deviceValid = rt[t].deviceValid /\ rt'[t].fd = FALSE
      BY <3>4, Zenon DEF RtIs
    <3> QED
      BY <2>3, <3>2, <3>3, <3>5, Zenon DEF EndedAs
  <2> QED
    BY <2>2, <2>3
<1> QED
  BY <1>1, <1>2

\* At the end of a run every segment of it has run, and what its outputs are is current.
LEMMA AllRan ==
  ASSUME AllSupported, IInv, phase = "run", seg \notin SegsOf(at)
  PROVE  /\ \A s \in SegsOf(at) : Passed(s) /\ s < seg /\ s \in Segs
         /\ \A o \in OutputsOf(at) : \E s \in SegsOf(at) :
              /\ o \in BoundaryOuts(s) /\ o \in Tensors /\ Dev(s) \in {"cpu", "gpu"} /\ (Dev(s) = "gpu" => OnGpu)
              /\ Dev(s) = "cpu" => o \notin FdTensors /\ ~rt[o].fd /\ o \notin rows
              /\ \A r \in Segs : o \in BoundaryOuts(r) => r = s
              /\ at \in sure /\ Dev(s) = "gpu" =>
                   /\ IF rt[o].fd THEN fdMem[o] = Current[o] ELSE buf[s][o] = Current[o]
                   /\ o \in Reduced /\ DeviceArgMax(o) => argRes[o] = Current[o]
              /\ at \in sure /\ ~rt[o].fd /\ ~(Dev(s) = "gpu" /\ StaysOnDevice(o)) =>
                   rt[o].hostValid /\ rt[o].host = Shown(o, Current[o])
<1>0. StaticInv /\ TypeOK /\ PhaseInv /\ MadeInv /\ RowsInv
  BY DEF IInv
<1>1. ASSUME NEW s \in SegsOf(at) PROVE Passed(s) /\ s < seg /\ s \in Segs /\ s \in Nat
  <2>1. seg - 1 \in SegsOf(at)
    BY <1>0 DEF PhaseInv
  <2>2. s \in Nat /\ seg - 1 \in Nat /\ s \in Segs
    BY <1>0, <2>1, SegmentIs DEF SegsOf
  <2>3. seg \in Nat
    <3>1. Segs = 1 .. Rank(Len(Nodes)) /\ Rank(Len(Nodes)) \in Nat
      BY <1>0, PartitionIs, GraphIs, RankIs
    <3>2. Cardinality(Segs) = Rank(Len(Nodes))
      BY <3>1, FS_Interval
    <3>3. seg \in 1 .. Cardinality(Segs) + 1
      BY <1>0 DEF TypeOK
    <3> QED
      BY <3>1, <3>2, <3>3
  <2>4. ASSUME seg <= s PROVE FALSE
    <3>1. seg - 1 <= seg
      BY <2>3
    <3>2. seg \in SegsOf(at)
      BY <1>0, <2>1, <2>3, <2>4, <3>1, BucketInterval
    <3> QED
      BY <3>2
  <2>5. s < seg
    BY <2>2, <2>3, <2>4
  <2> QED
    BY <2>2, <2>5 DEF Passed
<1>2. ASSUME NEW o \in OutputsOf(at)
      PROVE  \E s \in SegsOf(at) :
              /\ o \in BoundaryOuts(s) /\ o \in Tensors /\ Dev(s) \in {"cpu", "gpu"} /\ (Dev(s) = "gpu" => OnGpu)
              /\ Dev(s) = "cpu" => o \notin FdTensors /\ ~rt[o].fd /\ o \notin rows
              /\ \A r \in Segs : o \in BoundaryOuts(r) => r = s
              /\ at \in sure /\ Dev(s) = "gpu" =>
                   /\ IF rt[o].fd THEN fdMem[o] = Current[o] ELSE buf[s][o] = Current[o]
                   /\ o \in Reduced /\ DeviceArgMax(o) => argRes[o] = Current[o]
              /\ at \in sure /\ ~rt[o].fd /\ ~(Dev(s) = "gpu" /\ StaysOnDevice(o)) =>
                   rt[o].hostValid /\ rt[o].host = Shown(o, Current[o])
  <2>1. o \in GraphOutputs /\ OutputDesc[o].of = at
    BY DEF OutputsOf
  <2>2. PICK s \in SegsOf(at) : o \in BoundaryOuts(s)
    BY <1>0, <2>1, OutputWritten
  <2>3. Passed(s) /\ s < seg /\ s \in Segs
    BY <1>1
  <2>4. /\ o \in Tensors /\ Dev(s) \in {"cpu", "gpu"} /\ (Dev(s) = "gpu" => OnGpu)
        /\ \A r \in Segs : o \in BoundaryOuts(r) => r = s
    BY <1>0, <2>2, <2>3, OutsAre, SegmentIs
  <2>5. ASSUME Dev(s) = "cpu" PROVE o \notin FdTensors /\ ~rt[o].fd /\ o \notin rows
    <3>1. o \notin FdTensors
      BY <1>0, <2>2, <2>3, <2>5, SupportedIs
    <3>2. ~rt[o].fd
      BY <1>0, <2>4, <3>1 DEF TypeOK
    <3>3. o \notin rows
      BY <1>0, <2>4, <2>5 DEF RowsInv, FlatBoundary
    <3> QED
      BY <3>1, <3>2, <3>3
  <2>6. at \in sure =>
          /\ Dev(s) = "gpu" =>
               /\ IF rt[o].fd THEN fdMem[o] = Current[o] ELSE buf[s][o] = Current[o]
               /\ o \in Reduced /\ DeviceArgMax(o) => argRes[o] = Current[o]
          /\ ~rt[o].fd /\ ~(Dev(s) = "gpu" /\ StaysOnDevice(o)) =>
               rt[o].hostValid /\ rt[o].host = Shown(o, Current[o])
    BY <1>0, <2>2, <2>3 DEF MadeInv
  <2> QED
    BY <2>2, <2>4, <2>5, <2>6
<1> QED
  BY <1>1, <1>2

\* The outputs of the run are collected.
LEMMA StepEndRun ==
  ASSUME AllSupported, \A t, v : None # <<t, v>>, IInv, EndRun
  PROVE  IInv'
<1>0. /\ StaticInv /\ TypeOK /\ ShapeInv /\ LinksInv /\ FdInv /\ RowsInv /\ FormInv /\ CpuInv /\ FreshInv
      /\ InputInv /\ LoneInv /\ CpuLinkInv /\ OutInv
  BY DEF IInv
<1>1. /\ phase = "run" /\ seg \notin SegsOf(at) /\ phase' = "done" /\ completed' = TRUE /\ ran' = Reduced \cap OutputsOf(at)
      /\ result' = [o \in GraphOutputs |-> IF o \notin OutputsOf(at) \/ o \in LinkedOuts \cup Reduced THEN None
                                           ELSE IF rt[o].fd THEN fdMem[o] ELSE rt[o].host]
      /\ made' = [o \in GraphOutputs |-> IF o \in OutputsOf(at) THEN Current[o] ELSE made[o]]
      /\ UNCHANGED <<planVs, buf, fdMem, buckets, linked, slot, argMax, rows, argRes, at, seg, want, sure, thrown>>
  BY DEF EndRun, sessionVs
<1>2. rt' = [t \in Tensors |-> rt'[t]] /\ \A t \in Tensors : EndedAs(t)
  BY EndedIs
<1>3. /\ LinkedIns' = LinkedIns /\ LinkedOuts' = LinkedOuts /\ Reduced' = Reduced
      /\ \A i : (InRun(i)' <=> InRun(i)) /\ (Held(i)' <=> Held(i)) /\ (InRun(i) <=> i \in InputsOf(at))
      /\ \A o : DeviceArgMax(o)' <=> DeviceArgMax(o)
      /\ \A b : Sound(b)' <=> Sound(b)
  <2>1. LinkedIns' = LinkedIns /\ LinkedOuts' = LinkedOuts /\ Reduced' = Reduced
    BY <1>1, Stable DEF LinkedIns, LinkedOuts, Reduced
  <2>2. \A i : (InRun(i)' <=> InRun(i)) /\ (Held(i)' <=> Held(i)) /\ (InRun(i) <=> i \in InputsOf(at))
    BY <1>1, Stable DEF InRun, Held
  <2>3. \A o : DeviceArgMax(o)' <=> DeviceArgMax(o)
    BY <1>1, Stable DEF DeviceArgMax, FlatBoundary
  <2>4. \A b : Sound(b)' <=> Sound(b)
    BY <1>1 DEF Sound
  <2> QED
    BY <2>1, <2>2, <2>3, <2>4
<1>4. ASSUME NEW t \in Tensors
      PROVE  /\ rt'[t].host = rt[t].host /\ rt'[t].form = rt[t].form /\ rt'[t].owner = rt[t].owner
             /\ rt'[t].deviceValid = rt[t].deviceValid
             /\ t \notin OutputsOf(at) => /\ rt'[t] = rt[t]
                                          /\ \A s : (AlreadyHere(s, t)' <=> AlreadyHere(s, t)) /\ View(s, t)' = View(s, t)
  <2>1. EndedAs(t)
    BY <1>2
  <2>2. ASSUME t \notin OutputsOf(at) PROVE SameRt(t)
    BY <2>1, <2>2 DEF EndedAs, SameRt
  <2> QED
    BY <1>1, <2>1, <2>2, ViewFrame DEF EndedAs
<1>5. \A i \in GraphInputs : i \in Tensors /\ i \notin OutputsOf(at)
  BY <1>0, GraphIs DEF OutputsOf, Tensors
<1>6. /\ \A s \in SegsOf(at) : Passed(s) /\ s < seg /\ s \in Segs
      /\ \A o \in OutputsOf(at) : \E s \in SegsOf(at) :
              /\ o \in BoundaryOuts(s) /\ o \in Tensors /\ Dev(s) \in {"cpu", "gpu"} /\ (Dev(s) = "gpu" => OnGpu)
              /\ Dev(s) = "cpu" => o \notin FdTensors /\ ~rt[o].fd /\ o \notin rows
              /\ \A r \in Segs : o \in BoundaryOuts(r) => r = s
              /\ at \in sure /\ Dev(s) = "gpu" =>
                   /\ IF rt[o].fd THEN fdMem[o] = Current[o] ELSE buf[s][o] = Current[o]
                   /\ o \in Reduced /\ DeviceArgMax(o) => argRes[o] = Current[o]
              /\ at \in sure /\ ~rt[o].fd /\ ~(Dev(s) = "gpu" /\ StaysOnDevice(o)) =>
                   rt[o].hostValid /\ rt[o].host = Shown(o, Current[o])
  BY <1>1, AllRan
<1>7. \A o \in GraphOutputs : made'[o] = IF o \in OutputsOf(at) THEN Current[o] ELSE made[o]
  BY <1>1
<1>a. StaticInv' /\ LinksInv' /\ RowsInv' /\ FormInv' /\ CpuInv' /\ FreshInv'
  <2>1. StaticInv' /\ LinksInv' /\ RowsInv'
    BY <1>0, <1>1, Stable DEF StaticInv, planVs, LinksInv, RowsInv, FlatBoundary
  <2>2. FormInv'
    BY <1>0, <1>1, <1>4, Stable DEF FormInv
  <2>3. CpuInv'
    BY <1>0, <1>1, <1>4, Stable DEF CpuInv
  <2>4. FreshInv'
    BY <1>0, <1>1, <1>4, <1>5, Stable DEF FreshInv
  <2> QED
    BY <2>1, <2>2, <2>3, <2>4
<1>b. TypeOK' /\ ShapeInv'
  <2>1. ASSUME NEW t \in Tensors
        PROVE  /\ rt'[t].form \in {"f32", "fp16"} /\ rt'[t].owner \in Segs \cup {Nobody, TheFd}
               /\ rt'[t].hostValid \in BOOLEAN /\ rt'[t].deviceValid \in BOOLEAN
               /\ rt'[t].fd \in BOOLEAN /\ (rt'[t].fd => t \in FdTensors)
               /\ rt'[t].deviceValid => rt'[t].owner # Nobody
    <3>1. /\ rt[t].form \in {"f32", "fp16"} /\ rt[t].owner \in Segs \cup {Nobody, TheFd}
          /\ rt[t].deviceValid \in BOOLEAN
          /\ rt[t].fd \in BOOLEAN /\ (rt[t].fd => t \in FdTensors)
          /\ rt[t].deviceValid => rt[t].owner # Nobody
      BY <1>0 DEF TypeOK
    <3>2. EndedAs(t)
      BY <1>2
    <3> QED
      BY <3>1, <3>2 DEF EndedAs
  <2>2. /\ sure' \subseteq sure /\ completed' \in BOOLEAN /\ thrown' \in 0 .. MaxThrows /\ ran' \subseteq Reduced
        /\ phase' \in {"idle", "run", "uploaded", "submitted", "threw", "done"}
    BY <1>0, <1>1 DEF TypeOK
  <2>3. TypeOK'
    BY <1>1, <2>1, <2>2, RunTypes
  <2>4. \A t \in Tensors : IsRt(rt'[t])
    BY <1>2 DEF EndedAs
  <2>5. made' = [o \in GraphOutputs |-> made'[o]]
    BY <1>1
  <2>6. ShapeInv'
    BY <1>0, <1>1, <1>2, <2>4, <2>5, Stable DEF ShapeInv
  <2> QED
    BY <2>3, <2>6
<1>c. PhaseInv' /\ UpInv' /\ MadeInv'
  BY <1>1 DEF PhaseInv, UpInv, MadeInv
<1>d. FdInv'
  <2> SUFFICES ASSUME NEW t \in LinkedIns \cup LinkedOuts, t \in InputsOf(at) \cup OutputsOf(at) PROVE ~rt'[t].fd
    BY <1>1, <1>3, Stable DEF FdInv
  <2>1. t \in Tensors
    BY <1>0, GraphIs DEF InputsOf, OutputsOf, Tensors
  <2>2. ~rt[t].fd
    BY <1>0, <1>1 DEF FdInv
  <2>3. EndedAs(t)
    BY <1>2, <2>1
  <2> QED
    BY <2>2, <2>3 DEF EndedAs
<1>e. InputInv'
  <2> SUFFICES ASSUME NEW i \in GraphInputs, i \notin LinkedIns, Held(i)
               PROVE  (IF FdNow(i) THEN fdMem[i] = want[i]
                       ELSE IF \E s \in Segs : Lone(s, i) THEN \A s \in Segs : Lone(s, i) => View(s, i) = want[i]
                       ELSE Solid(i, want[i]))'
    BY <1>1, <1>3, Stable DEF InputInv
  <2>1. IF FdNow(i) THEN fdMem[i] = want[i]
        ELSE IF \E s \in Segs : Lone(s, i) THEN \A s \in Segs : Lone(s, i) => View(s, i) = want[i]
        ELSE Solid(i, want[i])
    BY <1>0 DEF InputInv
  <2>2. rt'[i] = rt[i] /\ \A s : (AlreadyHere(s, i)' <=> AlreadyHere(s, i)) /\ View(s, i)' = View(s, i)
    BY <1>4, <1>5
  <2>3. (FdNow(i)' <=> FdNow(i)) /\ (Solid(i, want[i])' <=> Solid(i, want[i]))
    BY <1>1, <1>3, <2>2, Stable DEF FdNow, Solid
  <2> QED
    BY <1>1, <2>1, <2>2, <2>3, LoneFrame, Stable
<1>f. LoneInv'
  <2> SUFFICES ASSUME NEW i \in GraphInputs, NEW s \in Segs, Lone(s, i), Sound(InputDesc[i].of)',
                      i \in LinkedIns \/ Held(i), ~FdNow(i)'
               PROVE  buf[s][i] = want[i] /\ View(s, i)' = want[i]
    BY <1>1, <1>3, Stable, LoneFrame DEF LoneInv, Passed
  <2>1. rt'[i] = rt[i] /\ View(s, i)' = View(s, i)
    BY <1>4, <1>5
  <2>2. Sound(InputDesc[i].of) /\ ~FdNow(i)
    BY <1>1, <1>3, <2>1, Stable DEF FdNow
  <2>3. Passed(s)
    BY <1>6 DEF Passed, SegsOf
  <2> QED
    BY <1>0, <2>1, <2>2, <2>3 DEF LoneInv
<1>g. CpuLinkInv'
  <2> SUFFICES ASSUME ~OnGpu, NEW l \in linked, Sound(OfLink(l))'
               PROVE  /\ HostStorage(rt'[l[2]], l[2]).host = want[l[2]]
                      /\ InRun(l[2]) => rt'[l[2]].hostValid
    BY <1>1, <1>3, Stable DEF CpuLinkInv, HostStorage
  <2>1. rt'[l[2]] = rt[l[2]]
    BY <1>0, <1>4, <1>5, GraphIs DEF TypeOK
  <2>2. Sound(OfLink(l))
    BY <1>1, <1>3, Stable
  <2> QED
    BY <1>0, <2>1, <2>2 DEF CpuLinkInv
<1>h. OutInv'
  <2> SUFFICES ASSUME NEW l \in Links, OfLink(l) \in sure
               PROVE  IF OnGpu
                      THEN \A s \in LinkOwners(l) :
                             l[1] \in LinkedOuts \/ l[1] \notin FdTensors \/ made'[l[1]] = None => buf[s][l[1]] = made'[l[1]]
                      ELSE l[1] \in LinkedOuts \/ made'[l[1]] = None => HostStorage(rt'[l[1]], l[1]).host = made'[l[1]]
    BY <1>1, <1>3, Stable DEF OutInv, HostStorage, Settled
  <2>1. l[1] \in GraphOutputs /\ OutputDesc[l[1]].of = OfLink(l) /\ l[1] \in Tensors
    BY <1>0, GraphIs DEF Tensors
  <2>2. CASE OfLink(l) # at
    <3>1. l[1] \notin OutputsOf(at) /\ Settled(OfLink(l))
      BY <2>1, <2>2 DEF OutputsOf, Settled
    <3>2. rt'[l[1]] = rt[l[1]] /\ made'[l[1]] = made[l[1]]
      BY <1>4, <1>7, <2>1, <3>1
    <3> QED
      BY <1>0, <3>1, <3>2 DEF OutInv
  <2>3. CASE OfLink(l) = at
    <3>1. l[1] \in OutputsOf(at)
      BY <2>1, <2>3 DEF OutputsOf
    <3>2. made'[l[1]] = Current[l[1]] /\ Current[l[1]] # None
      BY <1>0, <1>7, <2>1, <3>1, OutputIsMade
    <3>3. PICK s \in SegsOf(at) :
              /\ l[1] \in BoundaryOuts(s) /\ Dev(s) \in {"cpu", "gpu"} /\ (Dev(s) = "gpu" => OnGpu)
              /\ \A r \in Segs : l[1] \in BoundaryOuts(r) => r = s
              /\ Dev(s) = "cpu" => ~rt[l[1]].fd /\ l[1] \notin rows
              /\ Dev(s) = "gpu" => IF rt[l[1]].fd THEN fdMem[l[1]] = Current[l[1]] ELSE buf[s][l[1]] = Current[l[1]]
              /\ ~rt[l[1]].fd /\ ~(Dev(s) = "gpu" /\ StaysOnDevice(l[1])) =>
                   rt[l[1]].hostValid /\ rt[l[1]].host = Shown(l[1], Current[l[1]])
      BY <1>6, <2>3, <3>1
    <3>4. l[1] \in LinkedOuts \/ l[1] \notin FdTensors => ~rt[l[1]].fd
      BY <1>0, <1>1, <2>1, <3>1 DEF FdInv, TypeOK
    <3>5. ASSUME OnGpu, NEW r \in LinkOwners(l), l[1] \in LinkedOuts \/ l[1] \notin FdTensors
          PROVE  buf[r][l[1]] = Current[l[1]]
      <4>1. r \in Segs /\ Dev(r) = "gpu" /\ l[1] \in BoundaryOuts(r)
        BY <1>0, <3>5, OwnersAre
      <4>2. r = s
        BY <3>3, <4>1
      <4> QED
        BY <3>3, <3>4, <3>5, <4>1, <4>2
    <3>6. ASSUME ~OnGpu, l[1] \in LinkedOuts PROVE HostStorage(rt'[l[1]], l[1]).host = Current[l[1]]
      <4>1. Dev(s) = "cpu"
        BY <3>3, <3>6
      <4>2. rt[l[1]].hostValid /\ rt[l[1]].host = Current[l[1]]
        BY <3>3, <4>1 DEF Shown
      <4>3. EndedAs(l[1])
        BY <1>2, <2>1
      <4>4. rt'[l[1]].hostValid /\ rt'[l[1]].host = Current[l[1]] /\ IsRt(rt'[l[1]])
        BY <3>1, <3>6, <4>2, <4>3 DEF EndedAs, Donated
      <4> QED
        BY <4>4, HostHeld
    <3> QED
      BY <3>2, <3>5, <3>6
  <2> QED
    BY <2>2, <2>3
<1>i. ResultsAreCurrent'
  <2> SUFFICES ASSUME at \in sure, NEW o \in OutputsOf(at), o \notin LinkedOuts \cup Reduced
               PROVE  result'[o] = Shown(o, made'[o])
    BY <1>1, <1>3, Stable DEF ResultsAreCurrent, Shown, Row
  <2>1. o \in GraphOutputs /\ made'[o] = Current[o]
    BY <1>7 DEF OutputsOf
  <2>2. result'[o] = IF rt[o].fd THEN fdMem[o] ELSE rt[o].host
    BY <1>1, <2>1
  <2>3. PICK s \in SegsOf(at) :
              /\ o \in Tensors /\ Dev(s) \in {"cpu", "gpu"}
              /\ Dev(s) = "cpu" => ~rt[o].fd
              /\ Dev(s) = "gpu" => IF rt[o].fd THEN fdMem[o] = Current[o] ELSE buf[s][o] = Current[o]
              /\ ~rt[o].fd /\ ~(Dev(s) = "gpu" /\ StaysOnDevice(o)) =>
                   rt[o].hostValid /\ rt[o].host = Shown(o, Current[o])
    BY <1>6
  <2>4. ~StaysOnDevice(o)
    BY DEF StaysOnDevice
  <2>5. CASE rt[o].fd
    <3>1. o \in FdTensors
      BY <1>0, <2>3, <2>5 DEF TypeOK
    <3>2. o \notin rows
      BY <1>0, <3>1, SupportedIs DEF TypeOK
    <3> QED
      BY <2>1, <2>2, <2>3, <2>5, <3>2 DEF Shown
  <2>6. CASE ~rt[o].fd
    BY <2>1, <2>2, <2>3, <2>4, <2>6
  <2> QED
    BY <2>5, <2>6
<1>j. ArgInv'
  <2> SUFFICES ASSUME at \in sure, NEW o \in Reduced, o \in OutputsOf(at)
               PROVE  IF DeviceArgMax(o) THEN argRes[o] = made'[o] ELSE rt'[o].hostValid /\ rt'[o].host = made'[o]
    BY <1>1, <1>3, Stable DEF ArgInv
  <2>1. o \in GraphOutputs /\ made'[o] = Current[o] /\ o \in ArgMaxable
    BY <1>0, <1>7 DEF OutputsOf, TypeOK
  <2>2. PICK s \in SegsOf(at) :
              /\ o \in BoundaryOuts(s) /\ o \in Tensors /\ Dev(s) \in {"cpu", "gpu"} /\ (Dev(s) = "gpu" => OnGpu) /\ s \in Segs
              /\ Dev(s) = "cpu" => ~rt[o].fd
              /\ \A r \in Segs : o \in BoundaryOuts(r) => r = s
              /\ Dev(s) = "gpu" => (DeviceArgMax(o) => argRes[o] = Current[o])
              /\ ~rt[o].fd /\ ~(Dev(s) = "gpu" /\ StaysOnDevice(o)) =>
                   rt[o].hostValid /\ rt[o].host = Shown(o, Current[o])
    BY <1>6
  <2>3. CASE DeviceArgMax(o)
    <3>1. Dev(s) = "gpu"
      BY <2>2, <2>3 DEF DeviceArgMax, FlatBoundary
    <3> QED
      BY <2>1, <2>2, <2>3, <3>1
  <2>4. CASE ~DeviceArgMax(o)
    <3>1. o \notin rows
      BY <1>0, <2>4 DEF RowsInv, DeviceArgMax
    <3>2. Dev(s) = "gpu" => o \notin Flat
      BY <2>2, <2>4 DEF DeviceArgMax, FlatBoundary
    <3>3. Dev(s) = "gpu" => o \notin {l[1] : l \in Links} \cup FdTensors
      BY <1>0, <2>1, <2>2, <3>2, SupportedIs
    <3>4. Dev(s) = "gpu" => ~rt[o].fd
      BY <1>0, <2>2, <3>3 DEF TypeOK
    <3>5. Dev(s) = "gpu" => ~StaysOnDevice(o)
      BY <1>0, <2>4, <3>3 DEF StaysOnDevice, LinkedOuts, TypeOK
    <3>6. rt[o].hostValid /\ rt[o].host = Current[o]
      BY <2>2, <3>1, <3>4, <3>5 DEF Shown
    <3>7. EndedAs(o) /\ ~Donated(o)
      BY <1>2, <2>2 DEF Donated
    <3> QED
      BY <2>1, <2>4, <3>6, <3>7 DEF EndedAs
  <2> QED
    BY <2>3, <2>4
<1> QED
  BY <1>a, <1>b, <1>c, <1>d, <1>e, <1>f, <1>g, <1>h, <1>i, <1>j DEF IInv

\* What reading the tensor u of a link makes of tensor t.
ReadAs(t, u, l) ==
  /\ IsRt(rt'[t]) /\ rt'[t].form \in {"f32", "fp16"} /\ (rt'[t].form = "fp16" => rt[t].form = "fp16")
  /\ rt'[t].owner = rt[t].owner /\ rt'[t].deviceValid = rt[t].deviceValid /\ rt'[t].fd = rt[t].fd
  /\ rt'[t].hostValid \in BOOLEAN
  /\ t # u => rt'[t] = rt[t]
  /\ OnGpu /\ t = u => rt'[t].hostValid /\ \A s \in LinkOwners(l) : rt'[t].host = buf[s][t]
  /\ ~OnGpu => HostStorage(rt'[t], t).host = HostStorage(rt[t], t).host
  /\ ~OnGpu /\ rt[t].hostValid => rt'[t].hostValid /\ rt'[t].host = rt[t].host

\* The records after a resident tensor is read, tensor by tensor.
LEMMA ReadIs ==
  ASSUME AllSupported, IInv, NEW l \in linked, NEW u \in {l[1], l[2]}, ReadResident(l, u)
  PROVE  rt' = [t \in Tensors |-> rt'[t]] /\ \A t \in Tensors : ReadAs(t, u, l)
<1>0. StaticInv /\ TypeOK /\ ShapeInv /\ LinksInv
  BY DEF IInv
<1>1. rt' = IF OnGpu THEN [rt EXCEPT ![u].host = Resident(l, u), ![u].form = "f32", ![u].hostValid = TRUE]
            ELSE [rt EXCEPT ![u] = HostStorage(@, u)]
  BY DEF ReadResident
<1>2. l \in Links /\ u \in Tensors /\ rt = [t \in Tensors |-> rt[t]]
  <2>1. l \in Links /\ rt = [t \in Tensors |-> rt[t]]
    BY <1>0 DEF TypeOK, ShapeInv
  <2>2. l[1] \in GraphOutputs /\ l[2] \in GraphInputs
    BY <1>0, <2>1, GraphIs
  <2>3. l[1] \in Tensors /\ l[2] \in Tensors
    BY <1>0, <2>2, GraphIs DEF Tensors
  <2> QED
    BY <2>1, <2>3
<1>3. ASSUME OnGpu, NEW s \in LinkOwners(l) PROVE Resident(l, u) = buf[s][u]
  <2>1. \A r \in LinkOwners(l) : r = s
    <3>1. \A r \in LinkOwners(l) : r \in Segs /\ l[2] \in BoundaryIns(r)
      BY <1>0, <1>2, OwnersAre
    <3> QED
      BY <1>0, <1>2, <1>3, <3>1, OwnersAre
  <2>2. (CHOOSE r \in LinkOwners(l) : TRUE) = s
    BY <1>3, <2>1
  <2> QED
    BY <1>3, <2>2 DEF Resident
<1>4. /\ OnGpu => rt'[u] = [rt[u] EXCEPT !.host = Resident(l, u), !.form = "f32", !.hostValid = TRUE]
      /\ ~OnGpu => rt'[u] = HostStorage(rt[u], u)
      /\ \A t \in Tensors \ {u} : rt'[t] = rt[t]
      /\ rt' = [t \in Tensors |-> rt'[t]]
  BY <1>1, <1>2
<1>5. ASSUME NEW t \in Tensors PROVE ReadAs(t, u, l)
  <2>1. IsRt(rt[t]) /\ rt[t].form \in {"f32", "fp16"} /\ rt[t].hostValid \in BOOLEAN
    BY <1>0 DEF ShapeInv, TypeOK
  <2>2. CASE t # u
    <3>1. rt'[t] = rt[t]
      BY <1>4, <2>2
    <3> QED
      BY <2>1, <2>2, <3>1 DEF ReadAs
  <2>3. CASE t = u /\ OnGpu
    <3> DEFINE h == Resident(l, u)
    <3>1. rt'[t] = [rt[t] EXCEPT !.host = h, !.form = "f32", !.hostValid = TRUE]
      BY <1>4, <2>3
    <3>2. \A s \in LinkOwners(l) : h = buf[s][t]
      BY <1>3, <2>3
    <3> HIDE DEF h
    <3>3. RtIs(rt'[t], h, "f32", TRUE, rt[t].owner, rt[t].deviceValid, rt[t].fd)
      BY <2>1, <3>1, Updates, Zenon
    <3>4. /\ IsRt(rt'[t]) /\ rt'[t].host = h /\ rt'[t].form = "f32" /\ rt'[t].hostValid = TRUE
          /\ rt'[t].owner = rt[t].owner /\ rt'[t].deviceValid = rt[t].deviceValid /\ rt'[t].fd = rt[t].fd
      BY <3>3, Zenon DEF RtIs
    <3> QED
      BY <2>3, <3>2, <3>4 DEF ReadAs
  <2>4. CASE t = u /\ ~OnGpu
    <3>1. rt'[t] = HostStorage(rt[t], t)
      BY <1>4, <2>4
    <3>2. CASE rt[t].hostValid
      <4>1. rt'[t] = rt[t]
        BY <2>1, <3>1, <3>2, HostStorageIs
      <4> QED
        BY <2>1, <2>4, <3>2, <4>1 DEF ReadAs
    <3>3. CASE ~rt[t].hostValid
      <4>0. RtIs(HostStorage(rt[t], t), Zero(t), "f32", TRUE, rt[t].owner, rt[t].deviceValid, rt[t].fd)
        BY <2>1, <3>3, HostStorageIs
      <4>1. RtIs(rt'[t], Zero(t), "f32", TRUE, rt[t].owner, rt[t].deviceValid, rt[t].fd)
        BY <3>1, <4>0
      <4>2. /\ IsRt(rt'[t]) /\ rt'[t].host = Zero(t) /\ rt'[t].form = "f32" /\ rt'[t].hostValid = TRUE
            /\ rt'[t].owner = rt[t].owner /\ rt'[t].deviceValid = rt[t].deviceValid /\ rt'[t].fd = rt[t].fd
        BY <4>1, Zenon DEF RtIs
      <4>3. HostStorage(rt'[t], t).host = Zero(t) /\ HostStorage(rt[t], t).host = Zero(t)
        BY <2>1, <3>3, <4>2, HostHeld
      <4> QED
        BY <2>4, <3>3, <4>2, <4>3 DEF ReadAs
    <3> QED
      BY <3>2, <3>3
  <2> QED
    BY <2>2, <2>3, <2>4
<1> QED
  BY <1>4, <1>5

\* A linked tensor is read between runs.
LEMMA StepReadResident ==
  ASSUME AllSupported, IInv, NEW l \in linked, NEW u \in {l[1], l[2]}, ReadResident(l, u)
  PROVE  IInv'
<1>0. /\ StaticInv /\ TypeOK /\ ShapeInv /\ PhaseInv /\ LinksInv /\ RowsInv /\ FormInv /\ CpuInv /\ FreshInv
      /\ InputInv /\ LoneInv /\ CpuLinkInv /\ OutInv /\ ArgInv
  BY DEF IInv
<1>1. /\ phase = "idle" /\ phase' = "idle"
      /\ UNCHANGED <<planVs, buf, fdMem, buckets, linked, slot, argMax, rows, argRes, at, seg, want, made, sure, completed, ran, thrown>>
  BY DEF ReadResident, sessionVs, history
<1>2. rt' = [t \in Tensors |-> rt'[t]] /\ \A t \in Tensors : ReadAs(t, u, l)
  BY ReadIs
<1>3. /\ LinkedIns' = LinkedIns /\ LinkedOuts' = LinkedOuts /\ Reduced' = Reduced
      /\ \A i : ~InRun(i) /\ ~InRun(i)' /\ (Held(i)' <=> Held(i)) /\ ~FdNow(i) /\ ~FdNow(i)'
      /\ \A b : (Sound(b)' <=> Sound(b)) /\ (Settled(b)' <=> Settled(b))
      /\ \A o : DeviceArgMax(o)' <=> DeviceArgMax(o)
  <2>1. LinkedIns' = LinkedIns /\ LinkedOuts' = LinkedOuts /\ Reduced' = Reduced
    BY <1>1, Stable DEF LinkedIns, LinkedOuts, Reduced
  <2>2. \A i : ~InRun(i) /\ ~InRun(i)' /\ (Held(i)' <=> Held(i)) /\ ~FdNow(i) /\ ~FdNow(i)'
    BY <1>1 DEF InRun, Held, FdNow
  <2>3. \A b : (Sound(b)' <=> Sound(b)) /\ (Settled(b)' <=> Settled(b))
    BY <1>1 DEF Sound, Settled
  <2>4. \A o : DeviceArgMax(o)' <=> DeviceArgMax(o)
    BY <1>1, Stable DEF DeviceArgMax, FlatBoundary
  <2> QED
    BY <2>1, <2>2, <2>3, <2>4
<1>4. l \in Links /\ l[1] \in GraphOutputs /\ l[2] \in GraphInputs /\ l[1] \in LinkedOuts /\ l[2] \in LinkedIns
  BY <1>0, GraphIs DEF TypeOK, LinkedOuts, LinkedIns
<1>5. ASSUME NEW t \in Tensors
      PROVE  /\ \A s : AlreadyHere(s, t)' <=> AlreadyHere(s, t)
             /\ t # u => rt'[t] = rt[t] /\ \A s : View(s, t)' = View(s, t)
  <2>1. ReadAs(t, u, l)
    BY <1>2
  <2>2. \A s : AlreadyHere(s, t)' <=> AlreadyHere(s, t)
    BY <2>1 DEF ReadAs, AlreadyHere
  <2>3. t # u => rt'[t] = rt[t]
    BY <2>1 DEF ReadAs
  <2> QED
    BY <1>1, <2>2, <2>3 DEF View
<1>a. StaticInv' /\ PhaseInv' /\ LinksInv' /\ FdInv' /\ RowsInv' /\ FormInv' /\ CpuInv' /\ FreshInv'
  <2>1. StaticInv' /\ LinksInv' /\ RowsInv'
    BY <1>0, <1>1, Stable DEF StaticInv, planVs, LinksInv, RowsInv, FlatBoundary
  <2>2. PhaseInv' /\ FdInv'
    BY <1>1 DEF PhaseInv, FdInv
  <2>3. FormInv' /\ CpuInv'
    BY <1>0, <1>1, <1>2, Stable DEF FormInv, CpuInv, ReadAs
  <2>4. FreshInv'
    BY <1>0, <1>1, <1>2, Stable DEF FreshInv, ReadAs, Tensors
  <2> QED
    BY <2>1, <2>2, <2>3, <2>4
<1>b. TypeOK'
  <2>1. ASSUME NEW t \in Tensors
        PROVE  /\ rt'[t].form \in {"f32", "fp16"} /\ rt'[t].owner \in Segs \cup {Nobody, TheFd}
               /\ rt'[t].hostValid \in BOOLEAN /\ rt'[t].deviceValid \in BOOLEAN
               /\ rt'[t].fd \in BOOLEAN /\ (rt'[t].fd => t \in FdTensors)
               /\ rt'[t].deviceValid => rt'[t].owner # Nobody
    BY <1>0, <1>2 DEF TypeOK, ReadAs
  <2>2. /\ sure' \subseteq sure /\ completed' \in BOOLEAN /\ thrown' \in 0 .. MaxThrows /\ ran' \subseteq Reduced
        /\ phase' \in {"idle", "run", "uploaded", "submitted", "threw", "done"}
    BY <1>0, <1>1 DEF TypeOK
  <2> QED
    BY <1>1, <2>1, <2>2, RunTypes
<1>c. ShapeInv'
  <2>1. \A t \in Tensors : IsRt(rt'[t])
    BY <1>2 DEF ReadAs
  <2> QED
    BY <1>0, <1>1, <1>2, <2>1, Stable DEF ShapeInv
<1>d. UpInv' /\ MadeInv' /\ ResultsAreCurrent'
  BY <1>1 DEF UpInv, MadeInv, ResultsAreCurrent
<1>e. InputInv'
  <2> SUFFICES ASSUME NEW i \in GraphInputs, i \notin LinkedIns, Held(i)
               PROVE  (IF \E s \in Segs : Lone(s, i) THEN \A s \in Segs : Lone(s, i) => View(s, i) = want[i]
                       ELSE Solid(i, want[i]))'
    BY <1>1, <1>3, Stable DEF InputInv
  <2>1. i \in Tensors /\ i # u
    BY <1>0, <1>4, GraphIs DEF Tensors
  <2>2. rt'[i] = rt[i] /\ \A s : (AlreadyHere(s, i)' <=> AlreadyHere(s, i)) /\ View(s, i)' = View(s, i)
    BY <1>5, <2>1
  <2>3. IF \E s \in Segs : Lone(s, i) THEN \A s \in Segs : Lone(s, i) => View(s, i) = want[i]
        ELSE Solid(i, want[i])
    BY <1>0, <1>3 DEF InputInv
  <2>4. Solid(i, want[i])' <=> Solid(i, want[i])
    BY <1>1, <2>2, Stable DEF Solid
  <2> QED
    BY <1>1, <2>2, <2>3, <2>4, LoneFrame, Stable
<1>f. LoneInv'
  <2> SUFFICES ASSUME NEW i \in GraphInputs, NEW s \in Segs, Lone(s, i), Sound(InputDesc[i].of)',
                      i \in LinkedIns \/ Held(i)
               PROVE  buf[s][i] = want[i] /\ View(s, i)' = want[i]
    BY <1>1, <1>3, Stable, LoneFrame DEF LoneInv, Passed
  <2>1. Sound(InputDesc[i].of) /\ Passed(s)
    BY <1>1, <1>3, Stable DEF Passed
  <2>2. buf[s][i] = want[i] /\ View(s, i) = want[i]
    BY <1>0, <1>3, <2>1 DEF LoneInv
  <2>3. i \in Tensors
    BY DEF Tensors
  <2>4. CASE i # u
    BY <1>5, <2>2, <2>3, <2>4
  <2>5. CASE i = u
    <3>1. i = l[2]
      BY <1>0, <1>4, <2>5, GraphIs
    <3>2. s \in LinkOwners(l) /\ OnGpu
      BY <1>0, <1>4, <3>1, LoneIs
    <3>3. rt'[i].hostValid /\ rt'[i].host = buf[s][i]
      BY <1>2, <2>3, <2>5, <3>2 DEF ReadAs
    <3> QED
      BY <1>1, <2>2, <3>3 DEF View
  <2> QED
    BY <2>4, <2>5
<1>g. CpuLinkInv'
  <2> SUFFICES ASSUME ~OnGpu, NEW m \in linked, Sound(OfLink(m))'
               PROVE  HostStorage(rt'[m[2]], m[2]).host = want[m[2]]
    BY <1>1, <1>3, Stable DEF CpuLinkInv, HostStorage
  <2>1. ReadAs(m[2], u, l)
    BY <1>0, <1>2, GraphIs DEF TypeOK, Tensors
  <2>2. Sound(OfLink(m))
    BY <1>1, <1>3, Stable
  <2> QED
    BY <1>0, <2>1, <2>2 DEF CpuLinkInv, ReadAs
<1>h. OutInv'
  <2> SUFFICES ASSUME NEW m \in Links, Settled(OfLink(m))'
               PROVE  IF OnGpu
                      THEN \A s \in LinkOwners(m) :
                             m[1] \in LinkedOuts \/ m[1] \notin FdTensors \/ made[m[1]] = None => buf[s][m[1]] = made[m[1]]
                      ELSE m[1] \in LinkedOuts \/ made[m[1]] = None => HostStorage(rt'[m[1]], m[1]).host = made[m[1]]
    BY <1>1, <1>3, Stable DEF OutInv, HostStorage
  <2>1. Settled(OfLink(m))
    BY <1>1, <1>3, Stable
  <2>2. m[1] \in Tensors
    BY <1>0, GraphIs DEF Tensors
  <2>3. ReadAs(m[1], u, l)
    BY <1>2, <2>2
  <2> QED
    BY <1>0, <2>1, <2>3 DEF OutInv, ReadAs
<1>i. ArgInv'
  <2> SUFFICES ASSUME at \in sure, completed, NEW o \in ran
               PROVE  IF DeviceArgMax(o) THEN argRes[o] = made[o] ELSE rt'[o].hostValid /\ rt'[o].host = made[o]
    BY <1>1, <1>3, Stable DEF ArgInv
  <2>1. IF DeviceArgMax(o) THEN argRes[o] = made[o] ELSE rt[o].hostValid /\ rt[o].host = made[o]
    BY <1>0, <1>1 DEF ArgInv
  <2>2. o \in ArgMaxable /\ o \in GraphOutputs /\ o \in Tensors
    BY <1>0, GraphIs DEF TypeOK, Tensors
  <2>3. CASE o # u \/ DeviceArgMax(o)
    BY <1>5, <2>1, <2>2, <2>3
  <2>4. CASE o = u /\ ~DeviceArgMax(o)
    <3>1. o = l[1]
      BY <1>0, <1>4, <2>2, <2>4, GraphIs
    <3>2. ASSUME OnGpu PROVE FALSE
      <4>1. o \in Flat
        BY <1>0, <1>4, <2>2, <3>1, <3>2, SupportedIs
      <4>2. PICK s \in LinkOwners(l) : TRUE
        BY <1>0, <3>2 DEF LinksInv
      <4>3. s \in Segs /\ o \in BoundaryOuts(s) /\ Dev(s) = "gpu"
        BY <1>0, <1>4, <3>1, <4>2, OwnersAre
      <4> QED
        BY <2>4, <3>2, <4>1, <4>3 DEF DeviceArgMax, FlatBoundary
    <3> QED
      BY <1>2, <2>1, <2>2, <2>4, <3>2 DEF ReadAs
  <2> QED
    BY <2>3, <2>4
<1> QED
  BY <1>a, <1>b, <1>c, <1>d, <1>e, <1>f, <1>g, <1>h, <1>i DEF IInv


-----------------------------------------------------------------------------
\* The invariant, and the properties.

\* A session begins with nothing bound, nothing produced and nothing in doubt.
LEMMA InitIInv ==
  ASSUME AllSupported, Init
  PROVE  IInv
<1>0. StaticInv
  BY DEF Init, StaticInv
<1>1. /\ rt = [t \in Tensors |-> FreshRt] /\ buf = [s \in Segs |-> [t \in Tensors |-> Zero(t)]]
      /\ fdMem = [t \in Tensors |-> None] /\ argRes = [o \in ArgMaxable |-> None]
      /\ buckets = Ready /\ linked = {} /\ slot = [l \in Links |-> None] /\ argMax = <<>> /\ rows = {}
      /\ phase = "idle" /\ at = buckets[1] /\ seg = 1
      /\ want = [i \in GraphInputs |-> None] /\ made = [o \in GraphOutputs |-> None]
      /\ sure = AllBuckets /\ completed = FALSE /\ ran = {} /\ thrown = 0
  BY DEF Init
<1>2. RtIs(FreshRt, None, "f32", FALSE, Nobody, FALSE, FALSE)
  BY MadeRt, Zenon DEF FreshRt
<1>3. \A t \in Tensors : RtIs(rt[t], None, "f32", FALSE, Nobody, FALSE, FALSE)
  BY <1>1, <1>2
<1>4. LinkedIns = {} /\ LinkedOuts = {} /\ Reduced = {}
  <2>1. LinkedIns = {} /\ LinkedOuts = {}
    BY <1>1 DEF LinkedIns, LinkedOuts
  <2>2. Reduced = {}
    BY <1>1 DEF Reduced, Range
  <2> QED
    BY <2>1, <2>2
<1>5. TypeOK
  <2>1. \A t \in Tensors :
          /\ rt[t].form \in {"f32", "fp16"} /\ rt[t].owner \in Segs \cup {Nobody, TheFd}
          /\ rt[t].hostValid \in BOOLEAN /\ rt[t].deviceValid \in BOOLEAN
          /\ rt[t].fd \in BOOLEAN /\ (rt[t].fd => t \in FdTensors)
          /\ rt[t].deviceValid => rt[t].owner # Nobody
    BY <1>3 DEF RtIs
  <2>2. linked \subseteq Links /\ slot \in [Links -> Slots \cup {None}]
    BY <1>1
  <2>3. Reduced \subseteq ArgMaxable /\ ran \subseteq Reduced /\ rows \subseteq RowSets
    BY <1>1, <1>4
  <2>4. IsInjective(buckets) /\ Range(buckets) \subseteq AllBuckets /\ at \in Range(buckets)
    <3>1. Ready \in Seq(AllBuckets) /\ Ready # <<>> /\ IsInjective(Ready)
      BY <1>0, GraphIs
    <3>2. DOMAIN Ready = 1 .. Len(Ready) /\ Len(Ready) \in Nat /\ Len(Ready) # 0 /\ \A k \in DOMAIN Ready : Ready[k] \in AllBuckets
      BY <3>1
    <3>3. 1 \in DOMAIN Ready
      BY <3>2
    <3> QED
      BY <1>1, <3>1, <3>2, <3>3 DEF Range
  <2>5. seg \in 1 .. Cardinality(Segs) + 1
    <3>1. Segs = 1 .. Rank(Len(Nodes)) /\ Rank(Len(Nodes)) \in Nat
      BY <1>0, PartitionIs, GraphIs, RankIs
    <3>2. Cardinality(Segs) = Rank(Len(Nodes))
      BY <3>1, FS_Interval
    <3> QED
      BY <1>1, <3>1, <3>2
  <2>6. sure \subseteq AllBuckets /\ completed \in BOOLEAN /\ thrown \in 0 .. MaxThrows
    <3>1. MaxThrows \in Nat
      BY <1>0, GraphIs
    <3>2. thrown \in 0 .. MaxThrows
      BY <1>1, <3>1
    <3>3. completed \in BOOLEAN
      BY <1>1, Zenon
    <3> QED
      BY <1>1, <3>2, <3>3
  <2>7. phase \in {"idle", "run", "uploaded", "submitted", "threw", "done"}
    BY <1>1
  <2> QED
    BY <2>1, <2>2, <2>3, <2>4, <2>5, <2>6, <2>7 DEF TypeOK
<1>6. ShapeInv
  <2>1. rt = [t \in Tensors |-> rt[t]] /\ \A t \in Tensors : IsRt(rt[t])
    BY <1>1, <1>3 DEF RtIs
  <2>2. /\ buf = [s \in Segs |-> [t \in Tensors |-> buf[s][t]]]
        /\ fdMem = [t \in Tensors |-> fdMem[t]]
        /\ want = [i \in GraphInputs |-> want[i]] /\ made = [o \in GraphOutputs |-> made[o]]
        /\ argRes = [o \in ArgMaxable |-> argRes[o]]
    BY <1>1
  <2>3. buckets \in Seq(AllBuckets) /\ argMax \in Seq(ArgMaxable)
    BY <1>0, <1>1, GraphIs
  <2> QED
    BY <2>1, <2>2, <2>3 DEF ShapeInv
<1>7. PhaseInv /\ LinksInv /\ FdInv /\ RowsInv /\ UpInv /\ MadeInv /\ ResultsAreCurrent
  BY <1>1 DEF PhaseInv, LinksInv, FdInv, RowsInv, UpInv, MadeInv, ResultsAreCurrent
<1>8. FormInv /\ CpuInv
  BY <1>3 DEF FormInv, CpuInv, RtIs
<1>9. FreshInv
  BY <1>1 DEF FreshInv, Tensors
<1>10. InputInv /\ LoneInv
  <2>1. \A i \in GraphInputs : ~Held(i) /\ i \notin LinkedIns
    BY <1>1, <1>4 DEF Held, InRun
  <2> QED
    BY <2>1 DEF InputInv, LoneInv
<1>11. CpuLinkInv /\ ArgInv
  BY <1>1 DEF CpuLinkInv, ArgInv
<1>12. OutInv
  <2> SUFFICES ASSUME NEW l \in Links
               PROVE  IF OnGpu
                      THEN \A s \in LinkOwners(l) :
                             l[1] \in LinkedOuts \/ l[1] \notin FdTensors \/ made[l[1]] = None => buf[s][l[1]] = made[l[1]]
                      ELSE l[1] \in LinkedOuts \/ made[l[1]] = None => HostStorage(rt[l[1]], l[1]).host = made[l[1]]
    BY DEF OutInv
  <2>1. l[1] \in GraphOutputs /\ l[1] \in Tensors /\ l[1] \notin LinkInputs
    <3>1. l[1] \in GraphOutputs /\ \A m \in Links : m[2] \in GraphInputs
      BY <1>0, GraphIs
    <3>2. \E n \in DOMAIN Nodes : l[1] \in Nodes[n].outs
      BY <1>0, <3>1, GraphIs
    <3>3. GraphInputs \cap GraphOutputs = {}
      BY <1>0, GraphIs
    <3> QED
      BY <3>1, <3>2, <3>3 DEF LinkInputs, Tensors
  <2>2. Zero(l[1]) = None /\ made[l[1]] = None
    BY <1>1, <2>1 DEF Zero
  <2>3. \A s \in LinkOwners(l) : buf[s][l[1]] = None
    BY <1>1, <2>1, <2>2 DEF LinkOwners
  <2>4. HostStorage(rt[l[1]], l[1]).host = None
    BY <1>3, <2>1, <2>2, HostHeld DEF RtIs
  <2> QED
    BY <2>2, <2>3, <2>4
<1> QED
  BY <1>0, <1>5, <1>6, <1>7, <1>8, <1>9, <1>10, <1>11, <1>12 DEF IInv

\* A step that changes nothing.
LEMMA StepStutter ==
  ASSUME IInv, UNCHANGED vars
  PROVE  IInv'
<1>1. UNCHANGED <<planVs, rt, buf, fdMem, buckets, linked, slot, argMax, rows, argRes, phase, at, seg, result, want, made,
                  sure, completed, ran, thrown>>
  BY DEF vars, sessionVs, history
<1>2. \A i : /\ (Held(i)' <=> Held(i)) /\ (FdNow(i)' <=> FdNow(i)) /\ (InRun(i)' <=> InRun(i))
             /\ (i \in LinkedIns' <=> i \in LinkedIns) /\ (i \in LinkedOuts' <=> i \in LinkedOuts)
  BY <1>1, Stable DEF Held, FdNow, InRun, LinkedIns, LinkedOuts
<1>3. \A s, i : View(s, i)' = View(s, i) /\ (Passed(s)' <=> Passed(s)) /\ LinkOf(s, i, View(s, i))' = LinkOf(s, i, View(s, i))
  <2>1. \A s, i : View(s, i)' = View(s, i)
    BY <1>1 DEF View, AlreadyHere
  <2>2. \A s, i : Passed(s)' <=> Passed(s)
    BY <1>1, Stable DEF Passed
  <2>3. \A s, i : LinkOf(s, i, View(s, i))' = LinkOf(s, i, View(s, i))
    BY <1>1, <2>1, LinkFrame
  <2> QED
    BY <2>1, <2>2, <2>3
<1>4. \A b : (Sound(b)' <=> Sound(b)) /\ (Settled(b)' <=> Settled(b))
  BY <1>1 DEF Sound, Settled
<1>5. \A o : (DeviceArgMax(o)' <=> DeviceArgMax(o)) /\ (StaysOnDevice(o)' <=> StaysOnDevice(o)) /\ (o \in Reduced' <=> o \in Reduced)
  BY <1>1, <1>2, Stable DEF DeviceArgMax, FlatBoundary, StaysOnDevice, Reduced
<1>6. StaticInv' /\ TypeOK' /\ ShapeInv'
  BY <1>1, Stable DEF IInv, StaticInv, TypeOK, ShapeInv, planVs, Reduced
<1>7. PhaseInv' /\ LinksInv' /\ RowsInv' /\ FormInv' /\ CpuInv' /\ FreshInv'
  BY <1>1, Stable DEF IInv, PhaseInv, LinksInv, RowsInv, FormInv, CpuInv, FreshInv, FlatBoundary
<1>8. FdInv' /\ UpInv'
  BY <1>1, <1>2, Stable DEF IInv, FdInv, UpInv, AlreadyHere
<1>9. InputInv' /\ LoneInv'
  <2>1. InputInv'
    BY <1>1, <1>2, <1>3, Stable, LoneFrame DEF IInv, InputInv, Solid, AlreadyHere
  <2>2. LoneInv'
    BY <1>1, <1>2, <1>3, <1>4, Stable, LoneFrame DEF IInv, LoneInv
  <2> QED
    BY <2>1, <2>2
<1>10. CpuLinkInv' /\ OutInv'
  BY <1>1, <1>2, <1>4, Stable DEF IInv, CpuLinkInv, OutInv, HostStorage
<1>11. MadeInv'
  <2>1. Current' = Current /\ \A t : Shown(t, Current[t])' = Shown(t, Current[t])
    BY <1>1, Stable DEF Shown
  <2> QED
    BY <1>1, <1>3, <1>5, <2>1, Stable DEF IInv, MadeInv, AlreadyHere
<1>12. ResultsAreCurrent' /\ ArgInv'
  BY <1>1, <1>2, <1>5, Stable DEF IInv, ResultsAreCurrent, ArgInv, Shown
<1> QED
  BY <1>6, <1>7, <1>8, <1>9, <1>10, <1>11, <1>12 DEF IInv

\* A run, accepted or refused.
LEMMA StepCall ==
  ASSUME AllSupported, IInv, Call
  PROVE  IInv'
<1>1. StaticInv /\ ShapeInv
  BY DEF IInv
<1>2. PICK c \in Range(buckets) : \E bound \in SUBSET InputsOf(c) :
        LET d == Selected(c, NamesIn(bound))
        IN  \/ /\ \A i \in InputsOf(c) \ bound : want[i] # None
               /\ Means(c, NamesIn(bound))
               /\ d # 0
               /\ \E b \in Entries(bound), outFds \in SUBSET (FdTensors \cap OutputsOf(c)) :
                    \/ BeginRun(c, d, b, outFds)
                    \/ d = c /\ \E L \in SUBSET LinksOf(c) : RejectLinkedFd(c, b, outFds, L)
            \/ d = c /\ \E b \in Entries(bound) : RejectInput(c, b)
  BY Zenon DEF Call
<1>5. PICK bound \in SUBSET InputsOf(c) :
        \/ /\ \A i \in InputsOf(c) \ bound : want[i] # None
           /\ Means(c, NamesIn(bound)) /\ Selected(c, NamesIn(bound)) # 0
           /\ \E b \in Entries(bound), outFds \in SUBSET (FdTensors \cap OutputsOf(c)) :
                BeginRun(c, Selected(c, NamesIn(bound)), b, outFds) \/ \E L : RejectLinkedFd(c, b, outFds, L)
        \/ \E b \in Entries(bound) : RejectInput(c, b)
  BY <1>2, Zenon
<1> DEFINE d == Selected(c, NamesIn(bound))
<1>3. CASE \E b \in Entries(bound) : RejectInput(c, b)
  BY <1>3, StepRejectInput
<1>4. CASE /\ \A i \in InputsOf(c) \ bound : want[i] # None
           /\ Means(c, NamesIn(bound)) /\ d # 0
           /\ \E b \in Entries(bound), outFds \in SUBSET (FdTensors \cap OutputsOf(c)) :
                BeginRun(c, d, b, outFds) \/ \E L : RejectLinkedFd(c, b, outFds, L)
  <2>1. d = c
    BY <1>1, <1>4, SelectedIs
  <2>2. PICK b \in Entries(bound), F \in SUBSET (FdTensors \cap OutputsOf(c)) :
          BeginRun(c, c, b, F) \/ \E L : RejectLinkedFd(c, b, F, L)
    BY <1>4, <2>1
  <2>3. CASE BeginRun(c, c, b, F)
    BY <1>4, <2>3, StepBeginRun
  <2>4. CASE \E L : RejectLinkedFd(c, b, F, L)
    BY <2>4, StepRejectLinkedFd
  <2> QED
    BY <2>2, <2>3, <2>4
<1> QED
  BY <1>5, <1>3, <1>4

\* IInv is inductive.
LEMMA NextIInv ==
  ASSUME AllSupported, \A t, v : None # <<t, v>>, IInv, [Next]_vars
  PROVE  IInv'
<1>1. CASE \E l \in Links, k \in Slots \cup {None} : Link(l, k) \/ SetRanges(l, k)
  BY <1>1, StepLink, StepSetRanges
<1>2. CASE ClearLinks
  BY <1>2, StepClearLinks
<1>3. CASE (\E o \in ArgMaxable : SetOutputArgMax(o)) \/ (\E o \in RowSets : SetOutputRow(o))
  BY <1>3, StepSetOutputArgMax, StepSetOutputRow
<1>4. CASE \E b \in AllBuckets : PrepareShapes(b)
  BY <1>4, StepPrepareShapes
<1>5. CASE Call
  BY <1>5, StepCall
<1>6. CASE Upload \/ Submit \/ Download \/ RunCpu
  BY <1>6, StepUpload, StepSubmit, StepDownload, StepRunCpu
<1>7. CASE \E W \in SUBSET BoundaryOuts(seg) : SubmitThrows(W)
  BY <1>7, StepSubmitThrows
<1>8. CASE \E n \in DOMAIN Nodes : CpuThrows(n)
  BY <1>8, StepCpuThrows
<1>9. CASE FailRun \/ EndRun \/ TakeResults
  BY <1>9, StepFailRun, StepEndRun, StepTakeResults
<1>10. CASE \E l \in Links, t \in Tensors : ReadResident(l, t)
  <2>1. PICK l \in Links, t \in Tensors : ReadResident(l, t)
    BY <1>10
  <2>2. l \in linked /\ t \in {l[1], l[2]}
    BY <2>1 DEF ReadResident
  <2> QED
    BY <2>1, <2>2, StepReadResident
<1>11. CASE UNCHANGED vars
  BY <1>11, StepStutter
<1> QED
  BY <1>1, <1>2, <1>3, <1>4, <1>5, <1>6, <1>7, <1>8, <1>9, <1>10, <1>11, Zenon DEF Next


\* A linked tensor, read between runs, is what the contract says.
LEMMA ResidentsCurrent ==
  ASSUME AllSupported, IInv
  PROVE  ResidentIsCurrent
<1> SUFFICES ASSUME phase \in {"idle", "done"}, NEW l \in linked, OfLink(l) \in sure
             PROVE  /\ Resident(l, l[2]) = want[l[2]]
                    /\ made[l[1]] # None => Resident(l, l[1]) = made[l[1]]
  BY DEF ResidentIsCurrent
<1>0. StaticInv /\ TypeOK /\ ShapeInv /\ LinksInv /\ FdInv /\ LoneInv /\ CpuLinkInv /\ OutInv
  BY DEF IInv
<1>1. /\ l \in Links /\ l[1] \in LinkedOuts /\ l[2] \in LinkedIns /\ l[1] \in GraphOutputs /\ l[2] \in GraphInputs
      /\ Sound(OfLink(l)) /\ Settled(OfLink(l))
  <2>1. l \in Links
    BY <1>0 DEF TypeOK
  <2> QED
    BY <1>0, <2>1, GraphIs DEF LinkedOuts, LinkedIns, Sound, Settled
<1>2. CASE OnGpu
  <2> DEFINE s == CHOOSE r \in LinkOwners(l) : TRUE
  <2>1. s \in LinkOwners(l)
    BY <1>0, <1>2 DEF LinksInv
  <2>2. Resident(l, l[1]) = buf[s][l[1]] /\ Resident(l, l[2]) = buf[s][l[2]]
    BY <1>2 DEF Resident
  <2> HIDE DEF s
  <2>3. Lone(s, l[2]) /\ s \in Segs
    BY <1>0, <1>1, <2>1, OwnersAre DEF Lone
  <2>4. ~FdNow(l[2]) /\ Passed(s)
    BY <1>0, <1>1 DEF FdNow, InRun, FdInv, Passed
  <2>5. buf[s][l[2]] = want[l[2]]
    BY <1>0, <1>1, <2>3, <2>4 DEF LoneInv, OfLink
  <2>6. buf[s][l[1]] = made[l[1]]
    BY <1>0, <1>1, <1>2, <2>1 DEF OutInv
  <2> QED
    BY <2>2, <2>5, <2>6
<1>3. CASE ~OnGpu
  <2>1. Resident(l, l[1]) = HostStorage(rt[l[1]], l[1]).host /\ Resident(l, l[2]) = HostStorage(rt[l[2]], l[2]).host
    BY <1>3 DEF Resident
  <2>2. HostStorage(rt[l[2]], l[2]).host = want[l[2]]
    BY <1>0, <1>1, <1>3 DEF CpuLinkInv
  <2>3. HostStorage(rt[l[1]], l[1]).host = made[l[1]]
    BY <1>0, <1>1, <1>3 DEF OutInv
  <2> QED
    BY <2>1, <2>2, <2>3
<1> QED
  BY <1>2, <1>3

\* A reduced output's argmax is that of the last completed run.
LEMMA ArgMaxesCurrent ==
  ASSUME AllSupported, IInv
  PROVE  ArgMaxIsCurrent
<1> SUFFICES ASSUME phase \in {"idle", "done"}, at \in sure, completed, NEW o \in ran
             PROVE  ReadArgMax(NameOf(o)) = made[o]
  BY DEF ArgMaxIsCurrent
<1>0. StaticInv /\ TypeOK /\ ShapeInv /\ ArgInv
  BY DEF IInv
<1>1. o \in Reduced /\ o \in ArgMaxable /\ o \in GraphOutputs /\ o \notin GraphInputs
  <2>1. o \in Reduced /\ o \in ArgMaxable
    BY <1>0 DEF TypeOK
  <2> QED
    BY <1>0, <2>1, GraphIs
<1>2. NameOf(o) = OutputDesc[o].name
  BY <1>1 DEF NameOf
<1>3. DOMAIN argMax = 1 .. Len(argMax) /\ Len(argMax) \in Nat /\ \A k \in DOMAIN argMax : argMax[k] \in ArgMaxable
  BY <1>0 DEF ShapeInv
<1> DEFINE I == {i \in 1 .. Len(argMax) : OutputDesc[argMax[i]].name = NameOf(o)}
           k == SelectInSeq(argMax, LAMBDA p : OutputDesc[p].name = NameOf(o))
<1>4. I # {} /\ I \subseteq Nat
  <2>1. PICK j \in DOMAIN argMax : argMax[j] = o
    BY <1>1 DEF Reduced, Range
  <2>2. j \in I
    BY <1>2, <1>3, <2>1
  <2> QED
    BY <1>3, <2>2
<1>5. k = Min(I)
  BY <1>4 DEF SelectInSeq
<1>6. k \in I
  <2> HIDE DEF I, k
  <2> QED
    BY <1>4, <1>5, MinIs
<1>7. argMax[k] = o
  <2>1. k \in DOMAIN argMax /\ OutputDesc[argMax[k]].name = OutputDesc[o].name
    BY <1>2, <1>3, <1>6
  <2> QED
    BY <1>0, <1>1, <1>3, <2>1, SupportedIs
<1>8. ReadArgMax(NameOf(o)) = IF DeviceArgMax(o) THEN argRes[o] ELSE IF rt[o].hostValid THEN rt[o].host ELSE None
  BY <1>7 DEF ReadArgMax
<1> QED
  BY <1>0, <1>8 DEF ArgInv

-----------------------------------------------------------------------------
\* The theorems: of every session whose plans the code supports, where None is no value of a tensor.

\* The invariant holds in every state of every such session.
THEOREM Invariance ==
  ASSUME AllSupported, \A t, v : None # <<t, v>>
  PROVE  Spec => []IInv
<1>1. Init => IInv
  BY InitIInv
<1>2. IInv /\ [Next]_vars => IInv'
  BY NextIInv
<1> QED
  BY <1>1, <1>2, PTL DEF Spec

\* The state stays well typed: what validity flags and owners the steps of core/session.cpp and of the
\* segments leave on an RtTensor, which bucket and segment a run is in, what is linked and reduced.
THEOREM TypeCorrect ==
  ASSUME AllSupported, \A t, v : None # <<t, v>>
  PROVE  Spec => []TypeOK
<1>1. IInv => TypeOK
  BY DEF IInv
<1> QED
  BY <1>1, Invariance, PTL

\* Every segment computes from the current value of each of its boundary inputs: the upload of
\* vk_segment.cpp, skipped where a device copy is valid, and the host reads of the CPU segment find what
\* the caller bound or the node before wrote, whatever earlier, refused or failed runs left behind.
THEOREM InputsCurrent ==
  ASSUME AllSupported, \A t, v : None # <<t, v>>
  PROVE  Spec => []InputsAreCurrent
<1>1. IInv => InputsAreCurrent
  BY OperandsCurrent
<1> QED
  BY <1>1, Invariance, PTL

\* What run() of core/session.cpp returns, in the caller's bytes or in the dma-buf it bound, is what the
\* graph computes from the inputs.
THEOREM ResultsCurrent ==
  ASSUME AllSupported, \A t, v : None # <<t, v>>
  PROVE  Spec => []ResultsAreCurrent
<1>1. IInv => ResultsAreCurrent
  BY DEF IInv
<1> QED
  BY <1>1, Invariance, PTL

\* readResident returns what the contract of session_class.h says: a linked input holds what was bound and
\* then the copies of every run, a linked output the last run's result.
THEOREM ResidentCurrent ==
  ASSUME AllSupported, \A t, v : None # <<t, v>>
  PROVE  Spec => []ResidentIsCurrent
<1>1. IInv => ResidentIsCurrent
  BY ResidentsCurrent
<1> QED
  BY <1>1, Invariance, PTL

\* readOutputArgMax returns the argmax of the last completed run, reduced on the device or scanned on the host.
THEOREM ArgMaxCurrent ==
  ASSUME AllSupported, \A t, v : None # <<t, v>>
  PROVE  Spec => []ArgMaxIsCurrent
<1>1. IInv => ArgMaxIsCurrent
  BY ArgMaxesCurrent
<1> QED
  BY <1>1, Invariance, PTL

=============================================================================
