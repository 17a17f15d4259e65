------------------------- MODULE MCSegmentRecording -------------------------
(***************************************************************************)
(* SegmentRecording for TLC: one input, staged from the host, bound to a   *)
(* descriptor or linked from the one output; two dma-bufs that take turns  *)
(* behind one descriptor.                                                  *)
(***************************************************************************)
EXTENDS SegmentRecording, TLC

CONSTANTS cache, present, fd1, fileA, fileB

MCIns  == {cache}
MCOuts == {present}
MCImageIns == {cache}
MCLinks == {<<present, cache>>}
MCFds   == {fd1}
MCFiles == {fileA, fileB}
MCOneFile == {fileA}

Symmetry == Permutations(MCFiles)
=============================================================================
