------------------------ MODULE SegmentBarriersProofs ------------------------
(***************************************************************************)
(* Proofs about SegmentBarriers, for every set of buffers and of nodes.    *)
(* The argument: an access that no barrier has ordered before later        *)
(* dispatches is still in the hazard set of its kind (Tracked), and if it  *)
(* is a copy's then copySinceBarrier holds (CopiesTracked).  So a dispatch *)
(* that conflicts with one finds it, and the barrier it then records       *)
(* covers the stage of that access.  A refused view is excluded: it takes  *)
(* the routing from fills that still run.                                  *)
(***************************************************************************)
EXTENDS SegmentBarriers, TLAPS

\* What no barrier has ordered before later dispatches, of accesses acc.
Loose(acc) == {a \in acc : "compute" \notin a.after}

Tracked(acc, written, read) ==
  \A a \in Loose(acc) : IF a.write THEN a.buf \in written ELSE a.buf \in read
CopiesTracked(acc, copies) == \A a \in Loose(acc) : a.stage = "transfer" => copies

\* The inductive invariant of the bookkeeping.
Bookkeeping ==
  /\ Tracked(pending, writtenBufs, readBufs)
  /\ CopiesTracked(pending, copySinceBarrier)

\* c is what a barrier made of a, and the barrier's stages have come after it.
Follows(a, c) == c.buf = a.buf /\ c.write = a.write /\ c.stage = a.stage /\ a.after \subseteq c.after
Gains(a, c, src, dst) == a.stage \in src => dst \subseteq c.after

-----------------------------------------------------------------------------
\* A memory barrier changes nothing of an access but what comes after it (vk_command.cpp).
LEMMA MemoryBarrier ==
  ASSUME NEW acc \in SUBSET Access, NEW src \in SUBSET Stages, NEW dst \in SUBSET Stages,
         NEW c \in Barrier(acc, src, dst, TRUE)
  PROVE  /\ c \in Access
         /\ \E a \in acc : /\ Follows(a, c)
                           /\ Gains(a, c, src, dst)
<1>1. PICK a \in acc :
        c = [a EXCEPT !.after = IF (TRUE \/ ~a.write) /\ (a.stage \in src \/ a.after \cap src # {})
                                THEN @ \cup dst ELSE @]
  BY DEF Barrier
<1>2. a \in Access
  OBVIOUS
<1>3. /\ c.buf = a.buf /\ c.write = a.write /\ c.stage = a.stage
      /\ c.after = IF a.stage \in src \/ a.after \cap src # {} THEN a.after \cup dst ELSE a.after
  BY <1>1, <1>2 DEF Access
<1>4. c \in Access
  BY <1>1, <1>2, <1>3 DEF Access
<1>5. QED
  BY <1>3, <1>4 DEF Follows, Gains

\* An execution barrier gives a write nothing.
LEMMA OrderBarrier ==
  ASSUME NEW acc \in SUBSET Access, NEW src \in SUBSET Stages, NEW dst \in SUBSET Stages,
         NEW c \in Barrier(acc, src, dst, FALSE)
  PROVE  /\ c \in Access
         /\ \E a \in acc : /\ Follows(a, c)
                           /\ a.write = FALSE => Gains(a, c, src, dst)
                           /\ a.write = TRUE => c.after = a.after
<1>1. PICK a \in acc :
        c = [a EXCEPT !.after = IF (FALSE \/ ~a.write) /\ (a.stage \in src \/ a.after \cap src # {})
                                THEN @ \cup dst ELSE @]
  BY DEF Barrier
<1>2. a \in Access
  OBVIOUS
<1>3. /\ c.buf = a.buf /\ c.write = a.write /\ c.stage = a.stage
      /\ c.after = IF ~a.write /\ (a.stage \in src \/ a.after \cap src # {}) THEN a.after \cup dst ELSE a.after
  BY <1>1, <1>2 DEF Access
<1>4. c \in Access
  BY <1>1, <1>2, <1>3 DEF Access
<1>5. QED
  BY <1>3, <1>4 DEF Follows, Gains

\* The three barriers of vk_command.cpp, one by one.
LEMMA TransferOrders ==
  ASSUME NEW acc \in SUBSET Access, NEW c \in TransferBarrier(acc)
  PROVE  c \in Access /\ "compute" \in c.after
<1>1. c \in Barrier(acc, Stages, Stages, TRUE)
  BY DEF TransferBarrier
<1>2. c \in Access /\ \E a \in acc : Gains(a, c, Stages, Stages)
  BY <1>1, MemoryBarrier
<1>3. \A a \in acc : a.stage \in Stages
  BY DEF Access
<1>4. QED
  BY <1>2, <1>3 DEF Gains, Stages

LEMMA ComputeOrders ==
  ASSUME NEW acc \in SUBSET Access, NEW c \in ComputeBarrier(acc)
  PROVE  /\ c \in Access
         /\ \E a \in acc : /\ Follows(a, c)
                           /\ a.stage = "compute" => "compute" \in c.after
<1> DEFINE C == {"compute"}
<1>1. c \in Barrier(acc, C, C, TRUE)
  BY DEF ComputeBarrier
<1>2. C \in SUBSET Stages
  BY DEF Stages
<1> HIDE DEF C
<1>3. c \in Access
  BY <1>1, <1>2, MemoryBarrier
<1>4. PICK a \in acc : /\ Follows(a, c)
                       /\ Gains(a, c, C, C)
  BY <1>1, <1>2, MemoryBarrier
<1>5. a.stage = "compute" => "compute" \in c.after
  BY <1>4 DEF C, Gains
<1>6. QED
  BY <1>3, <1>4, <1>5

LEMMA ExecutionOrders ==
  ASSUME NEW acc \in SUBSET Access, NEW c \in ExecutionBarrier(acc)
  PROVE  /\ c \in Access
         /\ \E a \in acc : /\ Follows(a, c)
                           /\ a.write = FALSE /\ a.stage = "compute" => "compute" \in c.after
<1>1. CASE Sync2
  <2> DEFINE C == {"compute"}
  <2>1. c \in Barrier(acc, C, C, FALSE)
    BY <1>1 DEF ExecutionBarrier
  <2>2. C \in SUBSET Stages
    BY DEF Stages
  <2> HIDE DEF C
  <2>3. c \in Access
    BY <2>1, <2>2, OrderBarrier
  <2>4. PICK a \in acc : /\ Follows(a, c)
                         /\ a.write = FALSE => Gains(a, c, C, C)
                         /\ a.write = TRUE => c.after = a.after
    BY ZenonT(30), <2>1, <2>2, OrderBarrier
  <2>5. a.write = FALSE /\ a.stage = "compute" => "compute" \in c.after
    BY <2>4 DEF C, Gains
  <2>6. QED
    BY <2>3, <2>4, <2>5
<1>2. CASE ~Sync2
  <2>1. c \in ComputeBarrier(acc)
    BY <1>2 DEF ExecutionBarrier
  <2>2. QED
    BY <2>1, ComputeOrders
<1>3. QED
  BY <1>1, <1>2

\* The accesses of a node have the type of accesses, and nothing comes after them yet.
LEMMA AccessesType ==
  ASSUME NEW n \in Nodes
  PROVE  Accesses(n) \subseteq Access /\ \A b \in Accesses(n) : b.after = {} /\ b.stage = Stage(n)
<1>1. n.reads \subseteq Bufs /\ n.writes \subseteq Bufs
  BY SegmentBarriersAssumption
<1>2. Stage(n) \in Stages
  BY DEF Stage, Stages
<1>3. \A bufs \in SUBSET Bufs, w \in BOOLEAN, st \in Stages : \A b \in Fresh(bufs, w, st) :
        b \in Access /\ b.after = {} /\ b.stage = st
  BY DEF Fresh, Access
<1>4. /\ \A b \in Fresh(n.reads, FALSE, Stage(n)) : b \in Access /\ b.after = {} /\ b.stage = Stage(n)
      /\ \A b \in Fresh(n.writes, TRUE, Stage(n)) : b \in Access /\ b.after = {} /\ b.stage = Stage(n)
  BY <1>1, <1>2, <1>3
<1>5. QED
  BY <1>4 DEF Accesses

\* What is ordered before a node are the accesses so far, with more after them.
LEMMA OrderedType ==
  ASSUME TypeOK, NEW n \in Nodes
  PROVE  Ordered(n) \subseteq Access
<1>1. pending \in SUBSET Access
  BY DEF TypeOK
<1>2. /\ ComputeBarrier(pending) \subseteq Access /\ TransferBarrier(pending) \subseteq Access
      /\ ExecutionBarrier(pending) \subseteq Access
  BY <1>1, ComputeOrders, TransferOrders, ExecutionOrders
<1>4. QED
  BY <1>1, <1>2 DEF Ordered

-----------------------------------------------------------------------------
\* TypeOK holds of every behaviour (the types of record()'s bookkeeping).
THEOREM Typing == Spec => []TypeOK
<1>1. Init => TypeOK
  <2>1. Init => pending \subseteq Access /\ races \subseteq [stage : Stages, write : BOOLEAN]
    BY DEF Init
  <2>2. Init => writtenBufs \subseteq Bufs /\ readBufs \subseteq Bufs /\ copySinceBarrier \in BOOLEAN
    BY DEF Init
  <2>3. QED
    BY <2>1, <2>2, SMT DEF Init, TypeOK
<1>2. TypeOK /\ [Next]_vars => TypeOK'
  <2> SUFFICES ASSUME TypeOK, [Next]_vars PROVE TypeOK'
    OBVIOUS
  <2>1. ASSUME NEW n \in Nodes
        PROVE  /\ Races(Ordered(n), n) \subseteq [stage : Stages, write : BOOLEAN]
               /\ Live(Ordered(n) \cup Accesses(n)) \subseteq Access
    BY OrderedType, AccessesType DEF Races, Live, Access
  <2>2. ASSUME NEW n \in Nodes, Mark(n)
        PROVE  writtenBufs' \subseteq Bufs /\ readBufs' \subseteq Bufs /\ copySinceBarrier' \in BOOLEAN
    <3>1. n.reads \subseteq Bufs /\ n.writes \subseteq Bufs
      BY SegmentBarriersAssumption
    <3>2. CASE Elided(n)
      BY <2>2, <3>2 DEF Mark, books, TypeOK
    <3>3. CASE ~Elided(n)
      BY <2>2, <3>1, <3>3 DEF Mark, TypeOK
    <3>4. QED
      BY <3>2, <3>3
  <2>3. CASE Prologue
    <3>1. \A read, written \in SUBSET Bufs :
            Fresh(read, FALSE, "compute") \cup Fresh(written, TRUE, "compute") \subseteq Access
      <4>1. \A bufs \in SUBSET Bufs, w \in BOOLEAN : \A b \in Fresh(bufs, w, "compute") : b \in Access
        BY DEF Fresh, Access, Stages
      <4>2. \A bufs \in SUBSET Bufs : /\ Fresh(bufs, FALSE, "compute") \subseteq Access
                                      /\ Fresh(bufs, TRUE, "compute") \subseteq Access
        BY <4>1
      <4>3. QED
        BY <4>2
    <3>2. \A read, written \in SUBSET Bufs :
            ComputeBarrier(Fresh(read, FALSE, "compute") \cup Fresh(written, TRUE, "compute")) \subseteq Access
      BY <3>1, ComputeOrders
    <3>3. QED
      BY <2>3, <3>2 DEF Prologue, TypeOK, books
  <2>4. CASE \E n \in Nodes : RecordNode(n)
    <3>1. PICK n \in Nodes : RecordNode(n)
      BY <2>4
    <3>2. n.binds \in Nat
      BY SegmentBarriersAssumption
    <3>3. nodesSinceSplit' \in Nat /\ bindsSinceSplit' \in Nat
      BY <3>1, <3>2 DEF RecordNode, TypeOK
    <3>4. QED
      BY <2>1, <2>2, <3>1, <3>3 DEF RecordNode, TypeOK
  <2>5. CASE \E n \in Nodes : RecordAndSplit(n)
    <3>1. PICK n \in Nodes : RecordAndSplit(n)
      BY <2>5
    <3>2. races' \subseteq [stage : Stages, write : BOOLEAN] /\ pending' \subseteq Access
      BY <2>1, <3>1 DEF RecordAndSplit, TypeOK
    <3>3. QED
      BY <3>1, <3>2 DEF RecordAndSplit, TypeOK
  <2>6. CASE \E n \in Nodes : RecordLast(n)
    BY <2>1, <2>2, <2>6 DEF RecordLast, TypeOK
  <2>7. CASE FinalBarrier
    <3>1. ComputeBarrier(pending) \subseteq Access /\ TransferBarrier(pending) \subseteq Access
      BY ComputeOrders, TransferOrders DEF TypeOK
    <3>2. pending' \subseteq Access
      BY <2>7, <3>1 DEF FinalBarrier, Live
    <3>3. QED
      BY <2>7, <3>2 DEF FinalBarrier, books, TypeOK
  <2>8. CASE UNCHANGED vars
    BY <2>8 DEF vars, books, TypeOK
  <2>9. QED
    BY <2>3, <2>4, <2>5, <2>6, <2>7, <2>8 DEF Next
<1>3. QED
  BY <1>1, <1>2, PTL DEF Spec

-----------------------------------------------------------------------------
\* After the barrier before n, what is still loose is in the hazard set that barrier left.
LEMMA OrderedTracked ==
  ASSUME ~ViewFallback, TypeOK, Bookkeeping, NEW n \in Nodes
  PROVE  /\ NeedBarrier(n) => Loose(Ordered(n)) = {}
         /\ ~NeedBarrier(n) => Tracked(Ordered(n), writtenBufs, IF NeedWarOnly(n) THEN {} ELSE readBufs)
         /\ ~NeedBarrier(n) => CopiesTracked(Ordered(n), copySinceBarrier)
<1>1. pending \in SUBSET Access /\ {"compute"} \in SUBSET Stages /\ Stages \in SUBSET Stages
  BY DEF TypeOK, Stages
<1>2. CASE NeedBarrier(n)
  <2>1. CASE CopyAround(n)
    <3>1. ASSUME NEW c \in TransferBarrier(pending) PROVE "compute" \in c.after
      BY <1>1, <3>1, TransferOrders
    <3>2. Ordered(n) = TransferBarrier(pending)
      BY <1>2, <2>1 DEF Ordered, NeedWarOnly
    <3>3. QED
      BY <1>2, <3>1, <3>2 DEF Loose
  <2>2. CASE ~CopyAround(n)
    <3>1. ASSUME NEW c \in ComputeBarrier(pending) PROVE "compute" \in c.after
      <4>1. PICK a \in pending : /\ Follows(a, c)
                                 /\ a.stage = "compute" => "compute" \in c.after
        BY <1>1, <3>1, ComputeOrders
      <4>2. a.stage = "transfer" => "compute" \in a.after
        BY <2>2 DEF Bookkeeping, CopiesTracked, Loose, CopyAround
      <4>3. QED
        BY <1>1, <4>1, <4>2 DEF Access, Stages, Follows
    <3>2. Ordered(n) = ComputeBarrier(pending)
      BY <1>2, <2>2 DEF Ordered, NeedWarOnly
    <3>3. QED
      BY <1>2, <3>1, <3>2 DEF Loose
  <2>3. QED
    BY <1>2, <2>1, <2>2
<1>3. CASE ~NeedBarrier(n) /\ NeedWarOnly(n)
  <2>1. ~CopyAround(n)
    BY <1>3 DEF NeedWarOnly, NeedBarrier
  <2>2. Ordered(n) = ExecutionBarrier(pending)
    BY <1>3 DEF Ordered
  <2>3. ASSUME NEW c \in Loose(Ordered(n))
        PROVE  c.stage # "transfer" /\ c.write /\ c.buf \in writtenBufs
    <3>0. c \in ExecutionBarrier(pending) /\ "compute" \notin c.after
      BY <2>2, <2>3 DEF Loose
    <3>1. PICK a \in pending : /\ Follows(a, c)
                               /\ a.write = FALSE /\ a.stage = "compute" => "compute" \in c.after
      BY <1>1, <3>0, ExecutionOrders
    <3>2. a \in Loose(pending)
      BY <2>3, <3>1 DEF Loose, Follows
    <3>3. a.stage # "transfer"
      BY <2>1, <3>2 DEF Bookkeeping, CopiesTracked, CopyAround
    <3>4. a.stage = "compute"
      BY <1>1, <3>2, <3>3 DEF Access, Stages, Loose
    <3>5. c.write
      BY <1>1, <2>3, <3>1, <3>4 DEF Loose, Follows, Access
    <3>6. QED
      BY <3>1, <3>2, <3>3, <3>5 DEF Bookkeeping, Tracked, Follows
  <2>4. QED
    BY <1>3, <2>3 DEF Tracked, CopiesTracked, Loose
<1>4. CASE ~NeedBarrier(n) /\ ~NeedWarOnly(n)
  BY <1>4 DEF Ordered, Bookkeeping
<1>5. QED
  BY <1>2, <1>3, <1>4

\* What the bookkeeping says after node n is recorded.
LEMMA MarkTracked ==
  ASSUME ~ViewFallback, TypeOK, Bookkeeping, NEW n \in Nodes, Mark(n),
         pending' = Live(Ordered(n) \cup Accesses(n))
  PROVE  Bookkeeping'
<1>1. CASE n.elided
  <2>1. Ordered(n) = pending /\ Accesses(n) = {} /\ UNCHANGED books
    BY <1>1 DEF Mark, Elided, Ordered, NeedBarrier, NeedWarOnly, Accesses
  <2>2. pending' \subseteq pending
    BY <2>1 DEF Live
  <2>3. QED
    BY <2>1, <2>2 DEF books, Bookkeeping, Tracked, CopiesTracked, Loose
<1>2. CASE ~n.elided
  <2> DEFINE W == IF NeedBarrier(n) THEN {} ELSE writtenBufs
             R == IF NeedBarrier(n) \/ NeedWarOnly(n) THEN {} ELSE readBufs
  <2>1. /\ writtenBufs' = W \cup n.writes
        /\ readBufs' = R \cup n.reads
        /\ copySinceBarrier' = (IsCopy(n) \/ (copySinceBarrier /\ ~NeedBarrier(n)))
    BY <1>2 DEF Mark, Elided
  <2>2. Tracked(Ordered(n), W, R) /\ CopiesTracked(Ordered(n), copySinceBarrier /\ ~NeedBarrier(n))
    <3>1. CASE NeedBarrier(n)
      BY <3>1, OrderedTracked DEF Tracked, CopiesTracked
    <3>2. CASE ~NeedBarrier(n)
      <4>1. W = writtenBufs
        BY <3>2
      <4>2. R = IF NeedWarOnly(n) THEN {} ELSE readBufs
        BY <3>2
      <4> HIDE DEF W, R
      <4>3. Tracked(Ordered(n), writtenBufs, R)
        BY <3>2, <4>2, OrderedTracked
      <4>4. CopiesTracked(Ordered(n), copySinceBarrier)
        BY <3>2, OrderedTracked
      <4>5. CopiesTracked(Ordered(n), copySinceBarrier /\ ~NeedBarrier(n))
        BY <3>2, <4>4 DEF CopiesTracked
      <4>6. Tracked(Ordered(n), W, R)
        BY <4>1, <4>3
      <4>7. QED
        BY <4>5, <4>6
    <3>3. QED
      BY <3>1, <3>2
  <2>3. ASSUME NEW b \in Accesses(n)
        PROVE  /\ IF b.write THEN b.buf \in n.writes ELSE b.buf \in n.reads
               /\ b.stage = "transfer" => IsCopy(n)
    <3>1. b \in Fresh(n.reads, FALSE, Stage(n)) \/ b \in Fresh(n.writes, TRUE, Stage(n))
      BY <1>2, <2>3 DEF Accesses
    <3>2. IF b.write THEN b.buf \in n.writes ELSE b.buf \in n.reads
      BY <3>1 DEF Fresh
    <3>3. b.stage = Stage(n)
      BY <3>1 DEF Fresh
    <3>4. QED
      BY <3>2, <3>3 DEF Stage, IsCopy
  <2>4. ASSUME NEW a \in Loose(pending')
        PROVE  /\ IF a.write THEN a.buf \in writtenBufs' ELSE a.buf \in readBufs'
               /\ a.stage = "transfer" => copySinceBarrier'
    <3>1. a \in Ordered(n) \cup Accesses(n) /\ "compute" \notin a.after
      BY <2>4 DEF Loose, Live
    <3>2. CASE a \in Ordered(n)
      <4>1. a \in Loose(Ordered(n))
        BY <3>1, <3>2 DEF Loose
      <4>2. IF a.write THEN a.buf \in W ELSE a.buf \in R
        BY <2>2, <4>1 DEF Tracked
      <4>3. a.stage = "transfer" => copySinceBarrier /\ ~NeedBarrier(n)
        BY <2>2, <4>1 DEF CopiesTracked
      <4> HIDE DEF W, R
      <4>4. QED
        BY <2>1, <4>2, <4>3
    <3>3. CASE a \in Accesses(n)
      <4> HIDE DEF W, R
      <4>1. QED
        BY <2>1, <2>3, <3>3
    <3>4. QED
      BY <3>1, <3>2, <3>3
  <2>5. QED
    BY <2>4 DEF Bookkeeping, Tracked, CopiesTracked
<1>3. QED
  BY <1>1, <1>2

\* Without a refused view, the bookkeeping tracks every access a later dispatch could race with.
THEOREM BookkeepingHolds ==
  ASSUME ~ViewFallback
  PROVE  Spec => []Bookkeeping
<1>1. Init => Bookkeeping
  BY DEF Init, Bookkeeping, Tracked, CopiesTracked, Loose
<1>2. TypeOK /\ Bookkeeping /\ [Next]_vars => Bookkeeping'
  <2> SUFFICES ASSUME TypeOK, Bookkeeping, [Next]_vars PROVE Bookkeeping'
    OBVIOUS
  <2>1. CASE Prologue
    <3>1. PICK read \in SUBSET Bufs, written \in SUBSET Bufs :
            pending' = ComputeBarrier(Fresh(read, FALSE, "compute") \cup Fresh(written, TRUE, "compute"))
      BY <2>1 DEF Prologue
    <3> DEFINE acc == Fresh(read, FALSE, "compute") \cup Fresh(written, TRUE, "compute")
    <3>2. \A a \in acc : a \in Access /\ a.stage = "compute"
      <4>1. \A w \in BOOLEAN, bufs \in SUBSET Bufs :
              \A a \in Fresh(bufs, w, "compute") : a \in Access /\ a.stage = "compute"
        BY DEF Fresh, Access, Stages
      <4>2. QED
        BY <4>1
    <3> HIDE DEF acc
    <3>3. acc \in SUBSET Access
      BY <3>2
    <3>4. \A c \in ComputeBarrier(acc) : "compute" \in c.after
      BY <3>2, <3>3, ComputeOrders
    <3>5. Loose(pending') = {}
      BY <3>1, <3>4 DEF Loose, acc
    <3>6. QED
      BY <3>5 DEF Bookkeeping, Tracked, CopiesTracked
  <2>2. CASE \E n \in Nodes : RecordNode(n)
    BY <2>2, MarkTracked DEF RecordNode
  <2>3. CASE \E n \in Nodes : RecordAndSplit(n)
    BY <2>3 DEF RecordAndSplit, Bookkeeping, Tracked, CopiesTracked, Loose
  <2>4. CASE \E n \in Nodes : RecordLast(n)
    BY <2>4, MarkTracked DEF RecordLast
  <2>5. CASE FinalBarrier
    <3>1. UNCHANGED books
      BY <2>5 DEF FinalBarrier
    <3>2. pending \in SUBSET Access
      BY DEF TypeOK
    <3>3. ASSUME NEW c \in Loose(pending')
          PROVE  \E a \in Loose(pending) : Follows(a, c)
      <4>1. c \in TransferBarrier(pending) \/ c \in ComputeBarrier(pending)
        BY <2>5, <3>3 DEF FinalBarrier, Live, Loose
      <4>2. c \notin TransferBarrier(pending)
        BY <3>2, <3>3, TransferOrders DEF Loose
      <4>3. PICK a \in pending : Follows(a, c)
        BY <3>2, <4>1, <4>2, ComputeOrders
      <4>4. a \in Loose(pending)
        BY <3>3, <4>3 DEF Follows, Loose
      <4>5. QED
        BY <4>3, <4>4
    <3>4. QED
      BY <3>1, <3>3 DEF books, Bookkeeping, Tracked, CopiesTracked, Follows
  <2>6. CASE UNCHANGED vars
    BY <2>6 DEF vars, books, Bookkeeping, Tracked, CopiesTracked, Loose
  <2>7. QED
    BY <2>1, <2>2, <2>3, <2>4, <2>5, <2>6 DEF Next
<1>3. QED
  BY <1>1, <1>2, Typing, PTL DEF Spec

-----------------------------------------------------------------------------
\* A shared unit of memory is what hazard() finds.
LEMMA SharedIsHazard ==
  ASSUME NEW a \in Bufs, NEW b \in Bufs, NEW s \in SUBSET Bufs, a \in s, Share(a, b)
  PROVE  Hazard(s, b)
<1>1. a \in [root : Nat, lo : Nat, hi : Nat] /\ b \in [root : Nat, lo : Nat, hi : Nat]
  BY SegmentBarriersAssumption
<1>2. PICK i \in a.lo .. a.hi - 1 : i \in b.lo .. b.hi - 1
  BY DEF Share
<1>3. a.lo < b.hi /\ b.lo < a.hi
  BY <1>1, <1>2
<1>4. QED
  BY <1>3 DEF Hazard, Share

\* No dispatch of node n races with what was recorded before it.
LEMMA DispatchIsOrdered ==
  ASSUME ~ViewFallback, TypeOK, Bookkeeping, NEW n \in Nodes,
         NEW b \in Accesses(n), b.stage = "compute", NEW a \in Ordered(n)
  PROVE  ~Unordered(a, b)
<1> SUFFICES ASSUME Unordered(a, b) PROVE FALSE
  OBVIOUS
<1>1. ~n.elided
  BY DEF Accesses
<1>2. a \in Loose(Ordered(n)) /\ Share(a.buf, b.buf) /\ (a.write \/ b.write)
  BY DEF Unordered, Loose
<1>3. ~NeedBarrier(n)
  BY <1>2, OrderedTracked
<1>4. Tracked(Ordered(n), writtenBufs, IF NeedWarOnly(n) THEN {} ELSE readBufs)
  BY <1>3, OrderedTracked
<1>5. b \in Access /\ a \in Access
  BY AccessesType, OrderedType
<1>6. IF b.write THEN b.buf \in n.writes ELSE b.buf \in n.reads
  BY <1>1 DEF Accesses, Fresh
<1>7. a.buf \in Bufs /\ b.buf \in Bufs /\ writtenBufs \in SUBSET Bufs /\ readBufs \in SUBSET Bufs
  BY <1>5 DEF Access, TypeOK
<1>8. CASE a.write
  <2>1. Hazard(writtenBufs, b.buf)
    BY <1>2, <1>4, <1>7, <1>8, SharedIsHazard DEF Tracked
  <2>2. ReadsWritten(n) \/ WritesWritten(n)
    BY <1>6, <2>1 DEF ReadsWritten, WritesWritten
  <2>3. QED
    BY <1>1, <1>3, <2>2 DEF NeedBarrier, Elided
<1>9. CASE ~a.write
  <2>1. a.buf \in IF NeedWarOnly(n) THEN {} ELSE readBufs
    BY <1>2, <1>4, <1>9 DEF Tracked
  <2>2. ~NeedWarOnly(n) /\ a.buf \in readBufs
    BY <2>1
  <2>3. Hazard(readBufs, b.buf) /\ b.buf \in n.writes
    BY <1>2, <1>6, <1>7, <1>9, <2>2, SharedIsHazard
  <2>4. WritesRead(n)
    BY <2>3 DEF WritesRead
  <2>5. QED
    BY <1>1, <1>3, <2>2, <2>4 DEF NeedWarOnly, Elided
<1>10. QED
  BY <1>8, <1>9

\* Without a refused view, no dispatch races with an earlier node, whatever nodes are recorded and
\* wherever the command buffer is split (record()'s barriers, vk_segment.cpp:1617-1840).
THEOREM DispatchesAreOrdered ==
  ASSUME ~ViewFallback
  PROVE  Spec => []ComputeIsOrdered
<1>1. Init => ComputeIsOrdered
  BY DEF Init, ComputeIsOrdered
<1>2. TypeOK /\ Bookkeeping /\ ComputeIsOrdered /\ [Next]_vars => ComputeIsOrdered'
  <2> SUFFICES ASSUME TypeOK, Bookkeeping, ComputeIsOrdered, [Next]_vars PROVE ComputeIsOrdered'
    OBVIOUS
  <2>1. ASSUME NEW n \in Nodes, NEW r \in Races(Ordered(n), n) PROVE r.stage # "compute"
    <3>1. PICK b \in Accesses(n) : /\ \E a \in Ordered(n) : Unordered(a, b)
                                   /\ r = [stage |-> b.stage, write |-> b.write]
      BY <2>1 DEF Races
    <3>2. b.stage # "compute"
      BY <3>1, DispatchIsOrdered
    <3>3. QED
      BY <3>1, <3>2
  <2>2. CASE Prologue
    BY <2>2 DEF Prologue, ComputeIsOrdered
  <2>3. CASE \E n \in Nodes : RecordNode(n)
    BY <2>1, <2>3 DEF RecordNode, ComputeIsOrdered
  <2>4. CASE \E n \in Nodes : RecordAndSplit(n)
    BY <2>1, <2>4 DEF RecordAndSplit, ComputeIsOrdered
  <2>5. CASE \E n \in Nodes : RecordLast(n)
    BY <2>1, <2>5 DEF RecordLast, ComputeIsOrdered
  <2>6. CASE FinalBarrier
    BY <2>6 DEF FinalBarrier, ComputeIsOrdered
  <2>7. CASE UNCHANGED vars
    BY <2>7 DEF vars, ComputeIsOrdered
  <2>8. QED
    BY <2>2, <2>3, <2>4, <2>5, <2>6, <2>7 DEF Next
<1>3. QED
  BY <1>1, <1>2, Typing, BookkeepingHolds, PTL DEF Spec

\* Without a refused view, the final barrier makes every write visible to the dispatches after the
\* nodes (the argmax epilogue, the next iteration, the output conversions).
THEOREM OutputsVisible ==
  ASSUME ~ViewFallback
  PROVE  Spec => []OutputsAreVisible
<1>1. Init => OutputsAreVisible
  BY DEF Init, OutputsAreVisible
<1>2. TypeOK /\ Bookkeeping /\ OutputsAreVisible /\ [Next]_vars => OutputsAreVisible'
  <2> SUFFICES ASSUME TypeOK, Bookkeeping, OutputsAreVisible, [Next]_vars PROVE OutputsAreVisible'
    OBVIOUS
  <2>1. CASE FinalBarrier
    <3>1. pending \in SUBSET Access
      BY DEF TypeOK
    <3>2. ASSUME NEW c \in pending' PROVE "compute" \in c.after
      <4>1. CASE copySinceBarrier
        BY <2>1, <3>1, <3>2, <4>1, TransferOrders DEF FinalBarrier, Live
      <4>2. CASE ~copySinceBarrier
        <5>1. c \in ComputeBarrier(pending)
          BY <2>1, <3>2, <4>2 DEF FinalBarrier, Live
        <5>2. PICK a \in pending : Follows(a, c) /\ (a.stage = "compute" => "compute" \in c.after)
          BY <3>1, <5>1, ComputeOrders
        <5>3. a.stage = "transfer" => "compute" \in a.after
          BY <4>2 DEF Bookkeeping, CopiesTracked, Loose
        <5>4. QED
          BY <3>1, <5>2, <5>3 DEF Access, Stages, Follows
      <4>3. QED
        BY <4>1, <4>2
    <3>3. QED
      BY <3>2 DEF OutputsAreVisible
  <2>2. CASE ~FinalBarrier /\ Next
    BY <2>2 DEF Next, Prologue, RecordNode, RecordAndSplit, RecordLast, OutputsAreVisible
  <2>3. CASE UNCHANGED vars
    BY <2>3 DEF vars, OutputsAreVisible
  <2>4. QED
    BY <2>1, <2>2, <2>3
<1>3. QED
  BY <1>1, <1>2, Typing, BookkeepingHolds, PTL DEF Spec

-----------------------------------------------------------------------------
\* Every handle of a hazard set stands for an access that nothing has ordered before a dispatch.
Backed ==
  /\ phase = "prologue" => writtenBufs = {} /\ readBufs = {}
  /\ phase = "nodes" =>
    /\ \A b \in writtenBufs : \E a \in Loose(pending) : a.write /\ a.buf = b
    /\ \A b \in readBufs : \E a \in Loose(pending) : ~a.write /\ a.buf = b

\* With synchronization2 the barrier for a write over a read leaves writes as they were
\* (vk_command.cpp).
LEMMA WritesStayLoose ==
  ASSUME Sync2, TypeOK, NEW a \in pending, a.write
  PROVE  a \in ExecutionBarrier(pending)
<1> DEFINE c == [a EXCEPT !.after = IF (FALSE \/ ~a.write) /\ (a.stage \in {"compute"} \/ a.after \cap {"compute"} # {})
                                    THEN @ \cup {"compute"} ELSE @]
<1>1. c \in ExecutionBarrier(pending)
  BY DEF ExecutionBarrier, Barrier
<1>2. a \in Access
  BY DEF TypeOK
<1>3. c = a
  BY <1>2 DEF Access
<1>4. QED
  BY <1>1, <1>3

\* What a node that runs touches is pending after it.
LEMMA TouchedIsLoose ==
  ASSUME NEW n \in Nodes, ~n.elided, NEW acc
  PROVE  /\ \A b \in n.writes : \E a \in Loose(Live(acc \cup Accesses(n))) : a.write /\ a.buf = b
         /\ \A b \in n.reads : \E a \in Loose(Live(acc \cup Accesses(n))) : ~a.write /\ a.buf = b
<1> DEFINE New(b, w) == [buf |-> b, write |-> w, stage |-> Stage(n), after |-> {}]
<1>1. ASSUME NEW b, NEW w \in BOOLEAN, b \in IF w THEN n.writes ELSE n.reads
      PROVE  New(b, w) \in Loose(Live(acc \cup Accesses(n)))
  <2>1. New(b, w) \in Accesses(n)
    BY <1>1 DEF Accesses, Fresh
  <2>2. New(b, w).after = {}
    OBVIOUS
  <2>3. {} # Stages /\ "compute" \notin {}
    BY DEF Stages
  <2> HIDE DEF New
  <2>4. QED
    BY <2>1, <2>2, <2>3 DEF Live, Loose
<1>2. ASSUME NEW b \in n.writes PROVE \E a \in Loose(Live(acc \cup Accesses(n))) : a.write /\ a.buf = b
  <2>1. New(b, TRUE) \in Loose(Live(acc \cup Accesses(n)))
    BY <1>1
  <2>2. QED
    BY <2>1
<1>3. ASSUME NEW b \in n.reads PROVE \E a \in Loose(Live(acc \cup Accesses(n))) : ~a.write /\ a.buf = b
  <2>1. New(b, FALSE) \in Loose(Live(acc \cup Accesses(n)))
    BY <1>1
  <2>2. QED
    BY <2>1
<1>4. QED
  BY <1>2, <1>3

\* Mark: a barrier forgets only what it orders.
LEMMA MarkBacked ==
  ASSUME Sync2, ~ViewFallback, TypeOK, Backed, phase = "nodes", phase' = "nodes", NEW n \in Nodes, Mark(n),
         pending' = Live(Ordered(n) \cup Accesses(n))
  PROVE  Backed'
<1>1. CASE n.elided
  <2>1. Ordered(n) = pending /\ Accesses(n) = {} /\ UNCHANGED books
    BY <1>1 DEF Mark, Elided, Ordered, NeedBarrier, NeedWarOnly, Accesses
  <2>2. \A a \in Loose(pending) : a \in Loose(pending')
    BY <2>1 DEF Live, Loose, Stages
  <2>3. QED
    BY <2>1, <2>2 DEF books, Backed
<1>2. CASE ~n.elided
  <2> DEFINE W == IF NeedBarrier(n) THEN {} ELSE writtenBufs
             R == IF NeedBarrier(n) \/ NeedWarOnly(n) THEN {} ELSE readBufs
  <2>1. writtenBufs' = W \cup n.writes /\ readBufs' = R \cup n.reads
    BY <1>2 DEF Mark, Elided
  <2>2. /\ \A b \in n.writes : \E a \in Loose(pending') : a.write /\ a.buf = b
        /\ \A b \in n.reads : \E a \in Loose(pending') : ~a.write /\ a.buf = b
    <3> DEFINE after == Live(Ordered(n) \cup Accesses(n))
    <3>1. /\ \A b \in n.writes : \E a \in Loose(after) : a.write /\ a.buf = b
          /\ \A b \in n.reads : \E a \in Loose(after) : ~a.write /\ a.buf = b
      BY <1>2, TouchedIsLoose
    <3>2. pending' = after
      OBVIOUS
    <3> HIDE DEF after
    <3>3. QED
      BY <3>1, <3>2
  <2>3. \A a \in Loose(pending) : a \in Ordered(n) => a \in Loose(pending')
    BY DEF Live, Loose, Stages
  <2>4. ASSUME NEW b \in W PROVE \E a \in Loose(pending') : a.write /\ a.buf = b
    <3>1. ~NeedBarrier(n)
      BY <2>4
    <3>2. PICK a \in Loose(pending) : a.write /\ a.buf = b
      BY <2>4, <3>1 DEF Backed
    <3>3. a \in Ordered(n)
      BY <3>1, <3>2, WritesStayLoose DEF Ordered, Loose
    <3>4. QED
      BY <2>3, <3>2, <3>3
  <2>5. ASSUME NEW b \in R PROVE \E a \in Loose(pending') : ~a.write /\ a.buf = b
    <3>1. ~NeedBarrier(n) /\ ~NeedWarOnly(n)
      BY <2>5
    <3>2. PICK a \in Loose(pending) : ~a.write /\ a.buf = b
      BY <2>5, <3>1 DEF Backed
    <3>3. a \in Ordered(n)
      BY <3>1, <3>2 DEF Ordered, Loose
    <3>4. QED
      BY <2>3, <3>2, <3>3
  <2> HIDE DEF W, R
  <2>6. QED
    BY <2>1, <2>2, <2>4, <2>5 DEF Backed
<1>3. QED
  BY <1>1, <1>2

\* What hazard() finds shares a unit of memory: no buffer is empty.
LEMMA HazardIsShared ==
  ASSUME NEW a \in Bufs, NEW b \in Bufs, a.root = b.root, a.lo < b.hi, b.lo < a.hi
  PROVE  Share(a, b)
<1>1. a \in [root : Nat, lo : Nat, hi : Nat] /\ b \in [root : Nat, lo : Nat, hi : Nat] /\ a.lo < a.hi /\ b.lo < b.hi
  BY SegmentBarriersAssumption
<1>2. a.lo \in Nat /\ a.hi \in Nat /\ b.lo \in Nat /\ b.hi \in Nat
  BY <1>1
<1>3. CASE a.lo >= b.lo
  BY <1>1, <1>2, <1>3 DEF Share
<1>4. CASE a.lo < b.lo
  BY <1>1, <1>2, <1>4 DEF Share
<1>5. QED
  BY <1>2, <1>3, <1>4

\* Without a refused view, a full barrier stands only before a node that needs one (needBarrier,
\* vk_segment.cpp:1681-1745): hazard tracking by handles and ranges is exact between two splits.
THEOREM BarriersAreNeeded ==
  ASSUME ~ViewFallback
  PROVE  Spec => []NoNeedlessBarrier
<1>1. Init => Backed
  BY DEF Init, Backed
<1>2. ASSUME Sync2 PROVE TypeOK /\ Backed /\ [Next]_vars => Backed'
  <2> SUFFICES ASSUME TypeOK, Backed, [Next]_vars PROVE Backed'
    OBVIOUS
  <2>1. CASE Prologue
    BY <2>1 DEF Prologue, Backed, books
  <2>2. CASE \E n \in Nodes : RecordNode(n)
    BY <1>2, <2>2, MarkBacked DEF RecordNode
  <2>3. CASE \E n \in Nodes : RecordAndSplit(n)
    BY <2>3 DEF RecordAndSplit, Backed
  <2>4. CASE (\E n \in Nodes : RecordLast(n)) \/ FinalBarrier
    BY <2>4 DEF RecordLast, FinalBarrier, Backed
  <2>5. CASE UNCHANGED vars
    BY <2>5 DEF vars, books, Backed
  <2>6. QED
    BY <2>1, <2>2, <2>3, <2>4, <2>5 DEF Next
<1>3. ASSUME Sync2 PROVE Spec => []Backed
  BY <1>1, <1>2, <1>3, Typing, PTL DEF Spec
<1>4. ASSUME Sync2 PROVE TypeOK /\ Backed => NoNeedlessBarrier
  <2> SUFFICES ASSUME TypeOK, Backed, ~Profiling, NEW n \in Nodes, phase = "nodes", NeedBarrier(n), ~n.elided
               PROVE  \E a \in pending, b \in Accesses(n) : Unordered(a, [b EXCEPT !.stage = "compute"])
    BY DEF NoNeedlessBarrier
  <2>1. /\ n.reads \subseteq Bufs /\ n.writes \subseteq Bufs
        /\ writtenBufs \subseteq Bufs /\ readBufs \subseteq Bufs
    BY SegmentBarriersAssumption DEF TypeOK
  <2>2. ASSUME NEW a \in Loose(pending), NEW c \in Bufs, Share(a.buf, c), NEW w \in BOOLEAN,
               c \in IF w THEN n.writes ELSE n.reads, a.write \/ w
        PROVE  \E b \in Accesses(n) : Unordered(a, [b EXCEPT !.stage = "compute"])
    <3> DEFINE b == [buf |-> c, write |-> w, stage |-> Stage(n), after |-> {}]
    <3>1. b \in Accesses(n)
      BY <2>2 DEF Accesses, Fresh
    <3>2. Unordered(a, [b EXCEPT !.stage = "compute"])
      BY <2>2 DEF Unordered, Loose
    <3>3. QED
      BY <3>1, <3>2
  <2>3. ASSUME NEW c \in Bufs, Hazard(writtenBufs, c)
        PROVE  \E a \in Loose(pending) : a.write /\ Share(a.buf, c)
    <3>1. PICK d \in writtenBufs : d.root = c.root /\ d.lo < c.hi /\ c.lo < d.hi
      BY <2>3 DEF Hazard
    <3>2. PICK a \in Loose(pending) : a.write /\ a.buf = d
      BY DEF Backed
    <3>3. QED
      BY <2>1, <3>1, <3>2, HazardIsShared
  <2>4. ASSUME NEW c \in Bufs, Hazard(readBufs, c)
        PROVE  \E a \in Loose(pending) : Share(a.buf, c)
    <3>1. PICK d \in readBufs : d.root = c.root /\ d.lo < c.hi /\ c.lo < d.hi
      BY <2>4 DEF Hazard
    <3>2. PICK a \in Loose(pending) : a.buf = d
      BY DEF Backed
    <3>3. QED
      BY <2>1, <3>1, <3>2, HazardIsShared
  <2>5. CASE ReadsWritten(n)
    <3>1. PICK c \in n.reads : Hazard(writtenBufs, c)
      BY <2>5 DEF ReadsWritten
    <3>2. PICK a \in Loose(pending) : a.write /\ Share(a.buf, c)
      BY <2>1, <2>3, <3>1
    <3>3. \E b \in Accesses(n) : Unordered(a, [b EXCEPT !.stage = "compute"])
      BY <2>1, <2>2, <3>2
    <3>4. QED
      BY <3>3 DEF Loose
  <2>6. CASE WritesWritten(n)
    <3>1. PICK c \in n.writes : Hazard(writtenBufs, c)
      BY <2>6 DEF WritesWritten
    <3>2. PICK a \in Loose(pending) : a.write /\ Share(a.buf, c)
      BY <2>1, <2>3, <3>1
    <3>3. \E b \in Accesses(n) : Unordered(a, [b EXCEPT !.stage = "compute"])
      BY <2>1, <2>2, <3>2
    <3>4. QED
      BY <3>3 DEF Loose
  <2>7. CASE WritesRead(n)
    <3>1. PICK c \in n.writes : Hazard(readBufs, c)
      BY <2>7 DEF WritesRead
    <3>2. PICK a \in Loose(pending) : Share(a.buf, c)
      BY <2>1, <2>4, <3>1
    <3>3. \E b \in Accesses(n) : Unordered(a, [b EXCEPT !.stage = "compute"])
      BY <2>1, <2>2, <3>1, <3>2
    <3>4. QED
      BY <3>3 DEF Loose
  <2>8. QED
    BY <2>5, <2>6, <2>7 DEF NeedBarrier
<1>5. CASE Sync2
  BY <1>3, <1>4, <1>5, Typing, PTL
<1>6. CASE ~Sync2
  <2>1. NoNeedlessBarrier
    BY <1>6 DEF NoNeedlessBarrier
  <2>2. QED
    BY <2>1, PTL
<1>7. QED
  BY <1>5, <1>6
=============================================================================
