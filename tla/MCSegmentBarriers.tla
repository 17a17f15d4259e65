-------------------------- MODULE MCSegmentBarriers --------------------------
(* Instances of SegmentBarriers for TLC. *)
EXTENDS SegmentBarriers

\* A slot of the pool, an arena, and a slice of the arena.
Slot  == [root |-> 1, lo |-> 0, hi |-> 2]
Arena == [root |-> 2, lo |-> 0, hi |-> 3]
Left  == [root |-> 2, lo |-> 0, hi |-> 2]
SlotAndArena  == {Slot, Arena, Left}

\* Nodes that read at most one buffer and write one other, of the kinds of ks.
NodesOf(ks, binds) ==
  {n \in [reads : {{}} \cup {{b} : b \in Bufs}, writes : {{b} : b \in Bufs},
          kind : ks, elided : {FALSE}, binds : binds] : n.reads # n.writes}
Elidable == [reads : {{Left}}, writes : {{Arena}}, kind : {"compute"}, elided : {TRUE}, binds : {2}]

AllNodes  == NodesOf(Kinds, {2, 3}) \cup Elidable
CopyNodes == NodesOf({"compute", "copy"}, {2})
FillNodes == NodesOf({"compute", "fill"}, {2})
=============================================================================
