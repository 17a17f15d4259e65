---------------------------- MODULE MCSegmentPlan ----------------------------
(* Instances of SegmentPlan for TLC: the sizes of the inputs and the kinds  *)
(* of node at each position.                                                *)
EXTENDS SegmentPlan

\* Every kind of view on top of every other.
Movement ==
  [inputs |-> <<1>>,
   kinds |-> <<{"op"}, {"reshape", "split", "slice", "pad"}, {"op", "reshape", "slice", "pad", "concat"},
               {"concat", "pad"}>>, maxReads |-> 2, maxSize |-> 3]

\* The block of a shuffle network: split, a branch on one half, and a concat of both.
Shuffle ==
  [inputs |-> <<1>>, kinds |-> <<{"op"}, {"split"}, {"op"}, {"op", "concat"}, {"op", "concat"}>>, maxReads |-> 1, maxSize |-> 2]

\* A pad of an alias of what is read back, or of each of two inputs in turn, and what comes after.
ReadPad ==
  [inputs |-> <<1>>, kinds |-> <<{"op"}, {"reshape"}, {"pad"}, {"op"}, {"op", "pad", "concat"}>>,
   maxReads |-> 2, maxSize |-> 2]
TwoPads ==
  [inputs |-> <<1, 1>>, kinds |-> <<{"reshape"}, {"pad"}, {"op"}, {"reshape"}, {"pad"}, {"op"}>>,
   maxReads |-> 1, maxSize |-> 2]

Blocks == {Movement, Shuffle, ReadPad}

\* The moves that disturb a boundary tensor.
Carriers == {ReadPad, TwoPads}

\* The three rescues the code's argument does not cover.
InputPart == {[inputs |-> <<1>>, kinds |-> <<{"op"}, {"split"}, {"concat"}, {"op"}>>,
  maxReads |-> 1, maxSize |-> 2]}
AliasPart == {[inputs |-> <<1>>, kinds |-> <<{"op"}, {"split"}, {"reshape"}, {"op"}, {"concat"}, {"op"}>>,
  maxReads |-> 1, maxSize |-> 2]}
NestedPart == {[inputs |-> <<1>>, kinds |-> <<{"op"}, {"split"}, {"op"}, {"op"}, {"concat"}, {"concat"}>>,
  maxReads |-> 1, maxSize |-> 3]}
=============================================================================
