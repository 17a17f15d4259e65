--------------------------- MODULE SegmentBarriers ---------------------------
(***************************************************************************)
(* The barriers VulkanSegment::record puts between the nodes of one         *)
(* recording (backend/vulkan/vk_segment.cpp), and what Vulkan makes of     *)
(* them (backend/vulkan/vk_command.cpp).                                    *)
(*                                                                         *)
(* The recording is any sequence of nodes of Nodes.  A buffer is a range   *)
(* of the memory of its root: two handles may address the same bytes.      *)
(* Beside the code's own bookkeeping (writtenBufs, readBufs,               *)
(* copySinceBarrier) the module keeps the accesses a later command could   *)
(* still race with: after is the stages of later commands a read is        *)
(* ordered before, a write visible to.                                     *)
(***************************************************************************)
EXTENDS Integers, FiniteSets

CONSTANTS
  Bufs,              \* buffers: [root, lo, hi]
  Nodes,             \* nodes: [reads, writes, kind, elided, binds]
  MaxSubmitNodes,    \* Config::maxSubmitNodes, 0 for no limit
  MaxSubmitBindings, \* Config::maxSubmitBindings, 0 for no limit
  Profiling,         \* a barrier after every op
  Sync2,             \* vkCmdPipelineBarrier2 is there
  ViewFallback       \* some view was refused by the driver (anyViewFallback)

Stages == {"compute", "transfer"}

\* "cast" is a Cast that dispatches: isCopy counts it as a copy all the same.
Kinds == {"compute", "copy", "cast", "fill"}

ASSUME SegmentBarriersAssumption ==
  /\ Bufs \subseteq [root : Nat, lo : Nat, hi : Nat]
  /\ \A b \in Bufs : b.lo < b.hi
  /\ Nodes \subseteq [reads : SUBSET Bufs, writes : SUBSET Bufs, kind : Kinds, elided : BOOLEAN, binds : Nat]
  /\ MaxSubmitNodes \in Nat /\ MaxSubmitBindings \in Nat
  /\ Profiling \in BOOLEAN /\ Sync2 \in BOOLEAN /\ ViewFallback \in BOOLEAN

VARIABLES
  phase,             \* "prologue", "nodes", "final", "done"
  writtenBufs, readBufs, copySinceBarrier,   \* the bookkeeping
  nodesSinceSplit, bindsSinceSplit,
  pending,           \* [buf, write, stage, after]: accesses something may still race with
  races              \* [stage, write]: the accesses that raced with an earlier one

books == <<writtenBufs, readBufs, copySinceBarrier>>
vars  == <<phase, books, nodesSinceSplit, bindsSinceSplit, pending, races>>

-----------------------------------------------------------------------------
\* MUTANT of Hazard: only the handle is compared.
HazardByHandle(s, b) == b \in s

\* b overlaps a buffer of s.
Hazard(s, b) == \E a \in s : a.root = b.root /\ a.lo < b.hi /\ b.lo < a.hi

\* isCopy: a fill is routed by transferFillNodes_, which a refused view clears.
IsCopy(n) == n.kind \in {"copy", "cast"} \/ (n.kind = "fill" /\ ~ViewFallback)

\* fullyElided_, which a refused view clears.
Elided(n) == n.elided /\ ~ViewFallback

Stage(n) == IF n.kind \in {"copy", "fill"} THEN "transfer" ELSE "compute"

Fresh(bufs, write, stage) == {[buf |-> b, write |-> write, stage |-> stage, after |-> {}] : b \in bufs}

\* What a node really touches: an elided one records nothing.
Accesses(n) ==
  IF n.elided THEN {}
  ELSE Fresh(n.reads, FALSE, Stage(n)) \cup Fresh(n.writes, TRUE, Stage(n))

\* A pipeline barrier from the stages src to the stages dst, of memory or of execution only.
Barrier(acc, src, dst, memory) ==
  {[a EXCEPT !.after = IF (memory \/ ~a.write) /\ (a.stage \in src \/ a.after \cap src # {})
                       THEN @ \cup dst ELSE @] : a \in acc}

ComputeBarrier(acc)   == Barrier(acc, {"compute"}, {"compute"}, TRUE)
TransferBarrier(acc)  == Barrier(acc, Stages, Stages, TRUE)
ExecutionBarrier(acc) == IF Sync2 THEN Barrier(acc, {"compute"}, {"compute"}, FALSE) ELSE ComputeBarrier(acc)

\* Buffers a and b share a unit of memory.
Share(a, b) == a.root = b.root /\ \E i \in a.lo .. a.hi - 1 : i \in b.lo .. b.hi - 1

\* Access a needs a dependency before access b, and lacks it.
Unordered(a, b) == Share(a.buf, b.buf) /\ (a.write \/ b.write) /\ b.stage \notin a.after

-----------------------------------------------------------------------------
\* The barrier before a node.
ReadsWritten(n) == \E b \in n.reads : Hazard(writtenBufs, b)
WritesWritten(n) == \E b \in n.writes : Hazard(writtenBufs, b)
WritesRead(n) == \E b \in n.writes : Hazard(readBufs, b)

CopyAround(n) == copySinceBarrier \/ IsCopy(n)

\* MUTANT of NeedBarrier: a write over a read is ordered by execution alone, copy or not.
NeedBarrierNoUpgrade(n) == ~Elided(n) /\ (Profiling \/ ReadsWritten(n) \/ WritesWritten(n))

NeedBarrier(n) ==
  ~Elided(n) /\ (Profiling \/ ReadsWritten(n) \/ WritesWritten(n) \/ (WritesRead(n) /\ CopyAround(n)))
NeedWarOnly(n) == ~Elided(n) /\ ~NeedBarrier(n) /\ WritesRead(n)

\* The accesses so far once the barrier before n is recorded.
Ordered(n) ==
  CASE NeedBarrier(n) -> IF CopyAround(n) THEN TransferBarrier(pending) ELSE ComputeBarrier(pending)
    [] NeedWarOnly(n) -> ExecutionBarrier(pending)
    [] OTHER          -> pending

Races(acc, n) ==
  {[stage |-> b.stage, write |-> b.write] : b \in {c \in Accesses(n) : \E a \in acc : Unordered(a, c)}}

\* Not yet ordered before, or visible to, every later command.
Live(acc) == {a \in acc : a.after # Stages}

\* MUTANT of Mark: an absent operand is marked too.
NoBuffer == [root |-> 0, lo |-> 0, hi |-> 0]
MarkAbsent(n) ==
  LET written == IF NeedBarrier(n) THEN {} ELSE writtenBufs
      read    == IF NeedBarrier(n) \/ NeedWarOnly(n) THEN {} ELSE readBufs
  IN  IF Elided(n) THEN UNCHANGED books
      ELSE /\ writtenBufs' = written \cup n.writes
           /\ readBufs' = read \cup n.reads \cup {NoBuffer}
           /\ copySinceBarrier' = (IsCopy(n) \/ (copySinceBarrier /\ ~NeedBarrier(n)))

\* MUTANT of Mark: a barrier keeps the writes it made visible.
MarkKeeping(n) ==
  LET read == IF NeedBarrier(n) \/ NeedWarOnly(n) THEN {} ELSE readBufs
  IN  IF Elided(n) THEN UNCHANGED books
      ELSE /\ writtenBufs' = writtenBufs \cup n.writes
           /\ readBufs' = read \cup n.reads
           /\ copySinceBarrier' = (IsCopy(n) \/ (copySinceBarrier /\ ~NeedBarrier(n)))

\* The bookkeeping after the barrier and the node.
Mark(n) ==
  LET written == IF NeedBarrier(n) THEN {} ELSE writtenBufs
      read    == IF NeedBarrier(n) \/ NeedWarOnly(n) THEN {} ELSE readBufs
  IN  IF Elided(n) THEN UNCHANGED books
      ELSE /\ writtenBufs' = written \cup n.writes
           /\ readBufs' = read \cup n.reads
           /\ copySinceBarrier' = (IsCopy(n) \/ (copySinceBarrier /\ ~NeedBarrier(n)))

\* The command buffer ends after n: a submit and a fence wait of its own.
Split(n) ==
  /\ ~Profiling
  /\ \/ MaxSubmitNodes > 0 /\ nodesSinceSplit + 1 >= MaxSubmitNodes
     \/ MaxSubmitBindings > 0 /\ bindsSinceSplit + n.binds >= MaxSubmitBindings

-----------------------------------------------------------------------------
Init ==
  /\ phase = "prologue"
  /\ writtenBufs = {} /\ readBufs = {} /\ copySinceBarrier = FALSE
  /\ nodesSinceSplit = 0 /\ bindsSinceSplit = 0
  /\ pending = {} /\ races = {}

\* Link copies, the chain's feedback and the conversions of the inputs, then a compute barrier.
Prologue ==
  /\ phase = "prologue"
  /\ phase' = "nodes"
  /\ \E read, written \in SUBSET Bufs :
       pending' = ComputeBarrier(Fresh(read, FALSE, "compute") \cup Fresh(written, TRUE, "compute"))
  /\ UNCHANGED <<books, nodesSinceSplit, bindsSinceSplit, races>>

RecordNode(n) ==
  /\ phase = "nodes"
  /\ ~Split(n)
  /\ races' = races \cup Races(Ordered(n), n)
  /\ pending' = Live(Ordered(n) \cup Accesses(n))
  /\ Mark(n)
  /\ nodesSinceSplit' = IF MaxSubmitNodes > 0 THEN nodesSinceSplit + 1 ELSE 0
  /\ bindsSinceSplit' = IF MaxSubmitBindings > 0 THEN bindsSinceSplit + n.binds ELSE 0
  /\ UNCHANGED phase

\* A node after which the chunk ends: the fence orders everything.
RecordAndSplit(n) ==
  /\ phase = "nodes"
  /\ Split(n)
  /\ races' = races \cup Races(Ordered(n), n)
  /\ pending' = {}
  /\ writtenBufs' = {} /\ readBufs' = {} /\ copySinceBarrier' = FALSE
  /\ nodesSinceSplit' = 0 /\ bindsSinceSplit' = 0
  /\ UNCHANGED phase

\* The last node never splits.
RecordLast(n) ==
  /\ phase = "nodes"
  /\ phase' = "final"
  /\ races' = races \cup Races(Ordered(n), n)
  /\ pending' = Live(Ordered(n) \cup Accesses(n))
  /\ Mark(n)
  /\ UNCHANGED <<nodesSinceSplit, bindsSinceSplit>>

\* MUTANT of FinalBarrier: the compute barrier, whatever ran.
FinalBarrierComputeOnly ==
  /\ phase = "final"
  /\ phase' = "done"
  /\ pending' = Live(ComputeBarrier(pending))
  /\ UNCHANGED <<books, nodesSinceSplit, bindsSinceSplit, races>>

FinalBarrier ==
  /\ phase = "final"
  /\ phase' = "done"
  /\ pending' = Live(IF copySinceBarrier THEN TransferBarrier(pending) ELSE ComputeBarrier(pending))
  /\ UNCHANGED <<books, nodesSinceSplit, bindsSinceSplit, races>>

Next == \/ Prologue
        \/ \E n \in Nodes : RecordNode(n) \/ RecordAndSplit(n) \/ RecordLast(n)
        \/ FinalBarrier
Spec == Init /\ [][Next]_vars

-----------------------------------------------------------------------------
Access == [buf : Bufs, write : BOOLEAN, stage : Stages, after : SUBSET Stages]

\* Types of the bookkeeping and of the accesses.
TypeOK ==
  /\ phase \in {"prologue", "nodes", "final", "done"}
  /\ writtenBufs \subseteq Bufs /\ readBufs \subseteq Bufs /\ copySinceBarrier \in BOOLEAN
  /\ nodesSinceSplit \in Nat /\ bindsSinceSplit \in Nat
  /\ pending \subseteq Access
  /\ races \subseteq [stage : Stages, write : BOOLEAN]

\* "barriers in record() make the write-after-read at each reuse point safe" (vk_segment.cpp:331): no
\* dispatch races with an earlier node, a copy included, over any byte they share.
ComputeIsOrdered == \A r \in races : r.stage # "compute"

\* The same of the copies: "A WAR against a vkCmdCopyBuffer read (or ahead of a copy write) crosses the
\* transfer stage, which the compute-only execution barrier does not order" (vk_segment.cpp:1729), and
\* vk::transferBarrier is the "Wider barrier for the boundary around a vkCmdCopyBuffer" (vk_command.h:16).
\* What a copy reads has been written where it can see it.
CopyReadsAreOrdered == \A r \in races : r.stage = "transfer" => r.write
\* What a copy overwrites is no longer read or written.
CopyWritesAreOrdered == \A r \in races : r.stage = "transfer" => ~r.write

\* "Final barrier so the segment outputs are complete + visible" (vk_segment.cpp:1832): to the argmax
\* epilogue, the next iteration of a chain and the output conversions, all of them dispatches.
OutputsAreVisible == phase = "done" => \A a \in pending : a.write => "compute" \in a.after

\* "letting independent ops ... run without draining the GPU between them" (vk_segment.cpp:1619): a full
\* barrier is recorded only where the node conflicts with an access nothing has ordered before it.
NoNeedlessBarrier ==
  Sync2 /\ ~Profiling =>
    \A n \in Nodes : phase = "nodes" /\ NeedBarrier(n) /\ ~n.elided =>
      \E a \in pending, b \in Accesses(n) : Unordered(a, [b EXCEPT !.stage = "compute"])
=============================================================================
