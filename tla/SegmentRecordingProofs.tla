----------------------- MODULE SegmentRecordingProofs -----------------------
(***************************************************************************)
(* Proofs about SegmentRecording, for any boundary tensors, links,         *)
(* dma-bufs, chain length and chunking.                                    *)
(*                                                                         *)
(* A recording that is not stale encodes the buffers and the converts of   *)
(* the tensors (EncodedInv), and those are what the run in hand declared   *)
(* (RebindInv): a throw in the middle of a rebind has either changed no    *)
(* buffer or left recordingStale behind.  ServedInv turns it around: as    *)
(* long as nothing has changed since a run, the same run finds every       *)
(* tensor as it wants it, and so has nothing to record.                    *)
(*                                                                         *)
(* That the recording also encodes the links and the reductions in force   *)
(* (StreamInv) needs the setters' allocations to succeed: one that throws  *)
(* leaves an output registered, or a chain configured, which no flag       *)
(* stands for.                                                             *)
(***************************************************************************)
EXTENDS SegmentRecording, TLAPS, SequenceTheorems

Recorded == cmds[1].enc

\* A recording that is not stale is complete, and encodes the bindings, and the chain unless a new one
\* is pending; without the chain's state buffer it runs one iteration.
EncodedInv ==
  ~recordingStale =>
    /\ cmds # <<>>
    /\ cmds = Chunks(Recorded, Recorded.chain.steps * BodyChunks)
    /\ iterationFirstChunk = Starts(Recorded.chain.steps)
    /\ Recorded.buffers = buffers /\ Recorded.convert = recordedConvert
    /\ IF chainState THEN chainChanged \/ Recorded.chain = chain ELSE Recorded.chain.steps = 1
    /\ Recorded.chain.steps \in 1 .. StepsMax

\* It encodes everything else too but what a pending-change flag stands for.
StreamInv ==
  ~recordingStale =>
    Recorded = [buffers |-> buffers, convert |-> recordedConvert,
                links |-> IF linksChanged THEN Recorded.links ELSE links,
                argMax |-> IF argMaxChanged THEN Recorded.argMax ELSE argMaxOutputs,
                chain |-> IF chainChanged THEN Recorded.chain ELSE chain]

\* A window of several iterations needs the chain's state buffer.
WindowInv == chainState \/ chainActiveSteps = 1

\* Past the staging step nothing is pending; past the recording nothing is stale.
PhaseInv ==
  /\ pc \in {"recording", "ready", "submitted"} =>
       todo = {} /\ ~linksChanged /\ ~argMaxChanged /\ ~chainChanged
  /\ pc \in {"ready", "submitted"} => ~recordingStale /\ convert = recordedConvert
  /\ pc = "recording" => recordingStale

\* A tensor this run has rebound is bound as declared, and converted as declared or staged.
Bound(t) == BoundFd(t) /\ imported[t] # None
BoundAsDeclared(t) ==
  /\ Bound(t) => imported[t].file = FileOf(t) /\ imported[t].mode = decl[t].mode
  /\ buffers[t] = IF Bound(t) /\ decl[t].mode = "direct" THEN Import(FileOf(t)) ELSE Own
ConvertOf(t) == IF Bound(t) /\ decl[t].mode = "convert" THEN Import(FileOf(t)) ELSE None
HostBytes(t) == t \in ImageIns /\ decl[t] = NoFd /\ t \notin KvqIns /\ t \notin LinkedInputs
RebindInv ==
  /\ pc = "rebinding" =>
       \A t \in Tensors : IF t \in todo THEN convert[t] = None
                          ELSE BoundAsDeclared(t) /\ convert[t] = ConvertOf(t)
  /\ pc \in {"recording", "ready", "submitted"} =>
       \A t \in Tensors : BoundAsDeclared(t) /\ convert[t] = IF HostBytes(t) THEN Staging ELSE ConvertOf(t)

\* The recording in hand, and the bindings, are what a run that asks for a needs.
BoundIn(a, t) == a[t][1] # NoFd /\ t \notin KvqIns
StagedIn(a, t) == t \in ImageIns /\ a[t][1] = NoFd /\ t \notin KvqIns /\ t \notin LinkedInputs
ServesTensor(a, t) ==
  /\ BoundIn(a, t) => imported[t] # None /\ imported[t].file = a[t][2] /\ imported[t].mode = a[t][1].mode
  /\ buffers[t] = IF BoundIn(a, t) /\ a[t][1].mode = "direct" THEN Import(a[t][2]) ELSE Own
  /\ recordedConvert[t] = IF BoundIn(a, t) /\ a[t][1].mode = "convert" THEN Import(a[t][2])
                          ELSE IF StagedIn(a, t) THEN Staging ELSE None
Serves(a) ==
  /\ ~recordingStale /\ ~linksChanged /\ ~argMaxChanged /\ ~chainChanged
  /\ \A t \in Tensors : ServesTensor(a, t)
Between == pc \in {"idle", "refused"}
Running == pc \in {"rebinding", "recording", "ready", "submitted"}
ServedInv == \A a \in served : Between \/ (Running /\ Asked = a) => pc # "recording" /\ Serves(a)

\* What was submitted is the recording, up to the active window of the chain.
ExecutedInv == pc = "submitted" => executed = Chunks(Recorded, chainActiveSteps * BodyChunks)

IInv == TypeOK /\ PhaseInv /\ EncodedInv /\ WindowInv /\ RebindInv /\ ServedInv /\ ExecutedInv

-----------------------------------------------------------------------------
\* A recording is a sequence with one chunk per iteration part.
LEMMA ChunksIsSeq ==
  ASSUME NEW e, NEW n \in Nat
  PROVE  /\ Len(Chunks(e, n)) = n
         /\ \A i \in 1 .. n : Chunks(e, n)[i] = [step |-> (i - 1) \div BodyChunks, enc |-> e]
         /\ n > 0 => Chunks(e, n)[1].enc = e
  BY DEF Chunks

\* A prefix of a recording is the recording of fewer chunks.
LEMMA ChunksPrefix ==
  ASSUME NEW e, NEW n \in Nat, NEW m \in 0 .. n
  PROVE  SubSeq(Chunks(e, n), 1, m) = Chunks(e, m)
  BY ChunksIsSeq DEF Chunks

LEMMA ChainSteps ==
  ASSUME TypeOK
  PROVE  /\ chain.steps \in 1 .. StepsMax /\ chain.steps \in Nat \ {0}
         /\ chain.steps * BodyChunks \in Nat \ {0}
         /\ chainActiveSteps * BodyChunks \in 0 .. chain.steps * BodyChunks
<1>0. StepsMax \in Nat \ {0} /\ BodyChunks \in Nat \ {0}
  BY SegmentAssumption
<1>1. chain \in Chain
  BY DEF TypeOK
<1>4. chain.steps \in 1 .. StepsMax
  <2>1. CASE chain = NoChain
    BY <1>0, <2>1 DEF NoChain
  <2>2. CASE chain \in [on : {TRUE}, out : Outs, steps : 1 .. StepsMax]
    BY <2>2
  <2> QED
    BY <1>1, <2>1, <2>2 DEF Chain
<1>5. chainActiveSteps \in 1 .. chain.steps
  BY DEF TypeOK
<1>6. \A a, b, c \in Nat \ {0} : a <= b => a * c \in Nat \ {0} /\ a * c <= b * c
  BY SMT
<1>7. PICK a \in Nat \ {0}, b \in Nat \ {0}, c \in Nat \ {0} :
        a = chainActiveSteps /\ b = chain.steps /\ c = BodyChunks
  BY <1>0, <1>4, <1>5
<1> QED
  BY <1>0, <1>4, <1>5, <1>6, <1>7

\* Type correctness.
LEMMA TypeOKStep ==
  ASSUME TypeOK, [Next]_vars
  PROVE  TypeOK'
<1>1. ASSUME NEW fd \in Fds, NEW f \in Files, Recycle(fd, f)
      PROVE  TypeOK'
  BY <1>1, SegmentAssumption DEF Recycle, TypeOK, Buffer, Chain, LinkState, Decls, NoFd,
     NoChain, bindings, linkVs, argMaxVs, chainVs, stream, runVs, history
<1>2. ASSUME NEW l \in Links, AddResidentLink(l)
      PROVE  TypeOK'
  <2>1. [held |-> 1, capacity |-> 1] \in LinkState
    BY SegmentAssumption DEF LinkState
  <2>2. links' \in [Links -> LinkState]
    BY <1>2, <2>1 DEF AddResidentLink, TypeOK
  <2> QED
    BY <1>2, <2>2 DEF AddResidentLink, SetterFrame, TypeOK, bindings, argMaxVs, chainVs, stream, runVs
<1>3. ASSUME NEW l \in Links, NEW n \in 1 .. MaxCapacity, GrowRanges(l, n)
      PROVE  TypeOK'
  <2>1. links[l] \in [held : 1 .. 2 * MaxCapacity, capacity : 1 .. 2 * MaxCapacity]
    BY <1>3 DEF GrowRanges, Linked, TypeOK, LinkState
  <2>2. links[l].capacity \in 1 .. 2 * MaxCapacity
    BY <2>1
  <2>3. Grown(l, n) \in 1 .. 2 * MaxCapacity
    BY <1>3, <2>2, SegmentAssumption DEF GrowRanges, Grown
  <2>4. links' \in [Links -> LinkState]
    BY <1>3, <2>3 DEF GrowRanges, TypeOK, LinkState
  <2> QED
    BY <1>3, <2>4 DEF GrowRanges, SetterFrame, TypeOK, bindings, argMaxVs, chainVs, stream, runVs
<1>4. ASSUME ClearResidentLinks
      PROVE  TypeOK'
  BY <1>4, SegmentAssumption DEF ClearResidentLinks, SetterFrame, TypeOK, Buffer, Chain,
     LinkState, Decls, NoFd, NoChain, bindings, linkVs, argMaxVs, chainVs, stream, runVs,
     history
<1>5. ASSUME NEW o \in Outs, SetOutputArgMax(o)
      PROVE  TypeOK'
  BY <1>5, SegmentAssumption DEF SetOutputArgMax, SetterFrame, TypeOK, Buffer, Chain, LinkState,
     Decls, NoFd, NoChain, bindings, linkVs, argMaxVs, chainVs, stream, runVs, history
<1>6. ASSUME NEW o \in Outs, NEW n \in 1 .. StepsMax, ConfigureDecodeChain(o, n)
      PROVE  TypeOK'
  BY <1>6, SegmentAssumption DEF ConfigureDecodeChain, SetterFrame, TypeOK, Buffer, Chain,
     LinkState, Decls, NoFd, NoChain, bindings, linkVs, argMaxVs, chainVs, stream, runVs,
     history
<1>7. ASSUME NEW n \in 1 .. StepsMax, SetDecodeChainWindow(n)
      PROVE  TypeOK'
  <2>1. chain.steps \in Nat
    BY ChainSteps
  <2>2. chainActiveSteps' \in 1 .. chain.steps
    BY <1>7, <2>1 DEF SetDecodeChainWindow
  <2> QED
    BY <1>7, <2>2 DEF SetDecodeChainWindow, SetterFrame, TypeOK, bindings, argMaxVs, linkVs, stream, runVs
<1>8. ASSUME NEW d \in [Tensors -> Decls], BeginRun(d)
      PROVE  TypeOK'
  BY <1>8, SegmentAssumption DEF BeginRun, TypeOK, Buffer, Chain, LinkState, Decls, NoFd,
     NoChain, bindings, linkVs, argMaxVs, chainVs, stream, runVs, history
<1>9. ASSUME NEW t \in Tensors, Rebind(t)
      PROVE  TypeOK'
  <2>1. PICK imp \in IF BoundFd(t) THEN Imports(t) ELSE {imported[t]} :
          /\ imported' = [imported EXCEPT ![t] = imp]
          /\ convert' = [convert EXCEPT ![t] =
                           IF BoundFd(t) /\ imp # None /\ decl[t].mode = "convert"
                           THEN Import(imp.file) ELSE None]
          /\ buffers' = [buffers EXCEPT ![t] =
                           IF BoundFd(t) /\ imp # None /\ decl[t].mode = "direct"
                           THEN Import(imp.file) ELSE Own]
          /\ recordingStale' \in BOOLEAN
    BY <1>9 DEF Rebind, TypeOK
  <2>2. ASSUME BoundFd(t)
        PROVE  decl[t].fd \in Fds /\ decl[t].mode \in Modes /\ FileOf(t) \in Files
    BY <2>2 DEF BoundFd, FileOf, TypeOK, Decls, NoFd
  <2>3. imp \in {None} \cup [file : Files, mode : Modes, fd : Fds]
    BY <2>1, <2>2 DEF Imports, TypeOK
  <2>4. imp # None => Import(imp.file) \in Buffer \ {Staging}
    BY <2>3 DEF Buffer, Import, Staging
  <2>5. Own \in Buffer \ {Staging}
    BY DEF Buffer, Own, Staging
  <2>6. imported' \in [Tensors -> {None} \cup [file : Files, mode : Modes, fd : Fds]]
    BY <2>1, <2>3 DEF TypeOK
  <2>7. buffers' \in [Tensors -> Buffer \ {Staging}]
    BY <2>1, <2>4, <2>5 DEF TypeOK
  <2>8. convert' \in [Tensors -> Buffer \cup {None}]
    BY <2>1, <2>4 DEF TypeOK
  <2> QED
    BY <1>9, <2>1, <2>6, <2>7, <2>8 DEF Rebind, TypeOK, linkVs, argMaxVs, chainVs, stream
<1>10. ASSUME Stage
      PROVE  TypeOK'
  BY <1>10, SegmentAssumption DEF Stage, TypeOK, Buffer, Chain, LinkState, Decls, NoFd, NoChain,
     bindings, linkVs, argMaxVs, chainVs, stream, runVs, history
<1>11. ASSUME Record
      PROVE  TypeOK'
  BY <1>11, SegmentAssumption DEF Record, TypeOK, Buffer, Chain, LinkState, Decls, NoFd,
     NoChain, bindings, linkVs, argMaxVs, chainVs, stream, runVs, history
<1>12. ASSUME NEW n \in 0 .. chain.steps * BodyChunks - 1, RecordThrows(n)
      PROVE  TypeOK'
  BY <1>12, SegmentAssumption DEF RecordThrows, TypeOK, Buffer, Chain, LinkState, Decls, NoFd,
     NoChain, bindings, linkVs, argMaxVs, chainVs, stream, runVs, history
<1>13. ASSUME Submit
      PROVE  TypeOK'
  BY <1>13, SegmentAssumption DEF Submit, TypeOK, Buffer, Chain, LinkState, Decls, NoFd,
     NoChain, bindings, linkVs, argMaxVs, chainVs, stream, runVs, history
<1>14. ASSUME RunThrows
      PROVE  TypeOK'
  BY <1>14, SegmentAssumption DEF RunThrows, TypeOK, Buffer, Chain, LinkState, Decls, NoFd,
     NoChain, bindings, linkVs, argMaxVs, chainVs, stream, runVs, history
<1>15. ASSUME EndRun
      PROVE  TypeOK'
  BY <1>15, SegmentAssumption DEF EndRun, TypeOK, Buffer, Chain, LinkState, Decls, NoFd,
     NoChain, bindings, linkVs, argMaxVs, chainVs, stream, runVs, history
<1>16. ASSUME Rethrow
      PROVE  TypeOK'
  BY <1>16, SegmentAssumption DEF Rethrow, TypeOK, Buffer, Chain, LinkState, Decls, NoFd,
     NoChain, bindings, linkVs, argMaxVs, chainVs, stream, runVs, history
<1>17. ASSUME NEW l \in Links, NEW n \in 1 .. MaxCapacity, GrowRangesThrows(l, n)
      PROVE  TypeOK'
  <2>1. links[l] \in [held : 1 .. 2 * MaxCapacity, capacity : 1 .. 2 * MaxCapacity]
    BY <1>17 DEF GrowRangesThrows, Linked, TypeOK, LinkState
  <2>2. Grown(l, n) \in 1 .. 2 * MaxCapacity
    BY <1>17, <2>1, SegmentAssumption DEF GrowRangesThrows, Grown
  <2>3. [links[l] EXCEPT !.capacity = Grown(l, n)] \in LinkState
    BY <2>1, <2>2 DEF LinkState
  <2>4. links' \in [Links -> LinkState]
    BY <1>17, <2>3 DEF GrowRangesThrows, TypeOK
  <2> QED
    BY <1>17, <2>4 DEF GrowRangesThrows, SetterFrame, TypeOK, bindings, argMaxVs, chainVs, stream, runVs
<1>18. ASSUME NEW o \in Outs, SetOutputArgMaxThrows(o)
      PROVE  TypeOK'
  BY <1>18 DEF SetOutputArgMaxThrows, SetterFrame, TypeOK, bindings, linkVs, chainVs, stream, runVs
<1>19. ASSUME NEW o \in Outs, NEW n \in 1 .. StepsMax, ConfigureDecodeChainThrows(o, n)
      PROVE  TypeOK'
  BY <1>19, SegmentAssumption DEF ConfigureDecodeChainThrows, SetterFrame, TypeOK, Buffer, Chain,
     LinkState, Decls, NoFd, NoChain, bindings, linkVs, argMaxVs, stream, runVs
<1>20. CASE UNCHANGED vars
  BY <1>20 DEF TypeOK, Buffer, Chain, LinkState, Decls, NoFd, NoChain, vars, bindings, linkVs,
     argMaxVs, chainVs, stream, runVs, history
<1> QED
  BY <1>1, <1>2, <1>3, <1>4, <1>5, <1>6, <1>7, <1>8, <1>9, <1>10, <1>11, <1>12, <1>13,
     <1>14, <1>15, <1>16, <1>17, <1>18, <1>19, <1>20 DEF Next, Setter, Run

\* A recording that is not stale encodes the current bindings, and all that no flag is pending for.
LEMMA StreamInvStep ==
  ASSUME ~AllocFails, TypeOK, PhaseInv, StreamInv, [Next]_vars
  PROVE  StreamInv'
<1>1. ASSUME NEW l \in Links, AddResidentLink(l)
      PROVE  StreamInv'
  BY <1>1, SegmentAssumption DEF AddResidentLink, SetterFrame, StreamInv, Recorded, linkVs,
     argMaxVs, bindings, linkVs, argMaxVs, chainVs, stream, runVs, history
<1>2. ASSUME NEW l \in Links, NEW n \in 1 .. MaxCapacity, GrowRanges(l, n)
      PROVE  StreamInv'
  BY <1>2, SegmentAssumption DEF GrowRanges, SetterFrame, StreamInv, Recorded, linkVs, argMaxVs,
     bindings, linkVs, argMaxVs, chainVs, stream, runVs, history
<1>3. ASSUME ClearResidentLinks
      PROVE  StreamInv'
  BY <1>3, SegmentAssumption DEF ClearResidentLinks, SetterFrame, StreamInv, Recorded, linkVs,
     argMaxVs, bindings, linkVs, argMaxVs, chainVs, stream, runVs, history
<1>4. ASSUME NEW o \in Outs, SetOutputArgMax(o)
      PROVE  StreamInv'
  BY <1>4, SegmentAssumption DEF SetOutputArgMax, SetterFrame, StreamInv, Recorded, linkVs,
     argMaxVs, bindings, linkVs, argMaxVs, chainVs, stream, runVs, history
<1>5. ASSUME NEW o \in Outs, NEW n \in 1 .. StepsMax, ConfigureDecodeChain(o, n)
      PROVE  StreamInv'
  BY <1>5, SegmentAssumption DEF ConfigureDecodeChain, SetterFrame, StreamInv, Recorded, linkVs,
     argMaxVs, bindings, linkVs, argMaxVs, chainVs, stream, runVs, history
<1>6. ASSUME NEW t \in Tensors, Rebind(t)
      PROVE  StreamInv'
  <2>1. CASE recordingStale'
    BY <2>1 DEF StreamInv
  <2>2. CASE ~recordingStale'
    <3>1. PICK want : buffers' = [buffers EXCEPT ![t] = want]
                      /\ recordingStale' = (recordingStale \/ want # buffers[t])
      BY <1>6 DEF Rebind
    <3>2. ~recordingStale /\ want = buffers[t]
      BY <2>2, <3>1
    <3>3. buffers' = buffers
      BY <3>1, <3>2 DEF TypeOK
    <3> QED
      BY <1>6, <3>2, <3>3 DEF Rebind, StreamInv, Recorded, linkVs, argMaxVs, chainVs, stream
  <2> QED
    BY <2>1, <2>2
<1>7. ASSUME Stage
      PROVE  StreamInv'
  BY <1>7, SegmentAssumption DEF Stage, StreamInv, Recorded, linkVs, argMaxVs, bindings, linkVs,
     argMaxVs, chainVs, stream, runVs, history
<1>8. ASSUME Record
      PROVE  StreamInv'
  <2>1. chain.steps \in 1 .. StepsMax
    BY ChainSteps
  <2>2. chain.steps * BodyChunks \in Nat \ {0}
    BY ChainSteps
  <2>3. cmds' = Chunks(Encoding, chain.steps * BodyChunks)
    BY <1>8 DEF Record
  <2>4. cmds' # <<>> /\ cmds'[1].enc = Encoding
    BY <2>2, <2>3, ChunksIsSeq
  <2>5. Encoding.chain = chain
    BY DEF Encoding
  <2>6. ~linksChanged /\ ~argMaxChanged /\ ~chainChanged
    BY <1>8 DEF Record, PhaseInv
  <2>7. Encoding = [buffers |-> buffers', convert |-> recordedConvert', links |-> links',
                    argMax |-> argMaxOutputs', chain |-> chain']
    BY <1>8 DEF Record, Encoding, bindings, linkVs, argMaxVs, chainVs
  <2>8. cmds' = Chunks(cmds'[1].enc, cmds'[1].enc.chain.steps * BodyChunks)
    BY <2>3, <2>4, <2>5
  <2>9. iterationFirstChunk' = Starts(cmds'[1].enc.chain.steps)
    BY <1>8, <2>4, <2>5 DEF Record
  <2>10. ~linksChanged' /\ ~argMaxChanged' /\ ~chainChanged'
    BY <1>8, <2>6 DEF Record, linkVs, argMaxVs, chainVs
  <2> QED
    BY <2>1, <2>4, <2>5, <2>7, <2>8, <2>9, <2>10 DEF StreamInv, Recorded
<1>9. ASSUME NEW n \in 0 .. chain.steps * BodyChunks - 1, RecordThrows(n)
      PROVE  StreamInv'
  <2>1. recordingStale'
    BY <1>9 DEF RecordThrows, PhaseInv
  <2> QED
    BY <2>1 DEF StreamInv
<1>10. CASE UNCHANGED <<recordingStale, cmds, iterationFirstChunk, buffers, recordedConvert, linkVs, argMaxVs, chain, chainChanged>>
  BY <1>10 DEF StreamInv, Recorded, linkVs, argMaxVs
<1>11.
     \/ \E l \in Links : AddResidentLink(l)
     \/ \E l \in Links, n \in 1 .. MaxCapacity : GrowRanges(l, n)
     \/ ClearResidentLinks
     \/ \E o \in Outs : SetOutputArgMax(o)
     \/ \E o \in Outs, n \in 1 .. StepsMax : ConfigureDecodeChain(o, n)
     \/ \E t \in Tensors : Rebind(t)
     \/ Stage
     \/ Record
     \/ \E n \in 0 .. chain.steps * BodyChunks - 1 : RecordThrows(n)
     \/ UNCHANGED <<recordingStale, cmds, iterationFirstChunk, buffers, recordedConvert, linkVs, argMaxVs, chain, chainChanged>>
  BY DEF Next, Setter, Run, GrowRangesThrows, SetOutputArgMaxThrows, ConfigureDecodeChainThrows, Recycle,
     SetDecodeChainWindow, BeginRun, Submit, RunThrows, EndRun, Rethrow, SetterFrame, vars,
     bindings, linkVs, argMaxVs, chainVs, stream, runVs, history
<1> QED
  BY <1>1, <1>2, <1>3, <1>4, <1>5, <1>6, <1>7, <1>8, <1>9, <1>10, <1>11

\* The staging step consumes the flags, the recording the staleness.
LEMMA PhaseInvStep ==
  ASSUME TypeOK, PhaseInv, [Next]_vars
  PROVE  PhaseInv'
<1>1. ASSUME NEW l \in Links, AddResidentLink(l)
      PROVE  PhaseInv'
  BY <1>1 DEF AddResidentLink, SetterFrame, PhaseInv, bindings, linkVs, argMaxVs, chainVs,
     stream, runVs, history
<1>2. ASSUME NEW l \in Links, NEW n \in 1 .. MaxCapacity, GrowRanges(l, n)
      PROVE  PhaseInv'
  BY <1>2 DEF GrowRanges, SetterFrame, PhaseInv, bindings, linkVs, argMaxVs, chainVs, stream,
     runVs, history
<1>3. ASSUME ClearResidentLinks
      PROVE  PhaseInv'
  BY <1>3 DEF ClearResidentLinks, SetterFrame, PhaseInv, bindings, linkVs, argMaxVs, chainVs,
     stream, runVs, history
<1>4. ASSUME NEW o \in Outs, SetOutputArgMax(o)
      PROVE  PhaseInv'
  BY <1>4 DEF SetOutputArgMax, SetterFrame, PhaseInv, bindings, linkVs, argMaxVs, chainVs,
     stream, runVs, history
<1>5. ASSUME NEW o \in Outs, NEW n \in 1 .. StepsMax, ConfigureDecodeChain(o, n)
      PROVE  PhaseInv'
  BY <1>5 DEF ConfigureDecodeChain, SetterFrame, PhaseInv, bindings, linkVs, argMaxVs, chainVs,
     stream, runVs, history
<1>6. ASSUME NEW d \in [Tensors -> Decls], BeginRun(d)
      PROVE  PhaseInv'
  BY <1>6 DEF BeginRun, PhaseInv, bindings, linkVs, argMaxVs, chainVs, stream, runVs, history
<1>7. ASSUME NEW t \in Tensors, Rebind(t)
      PROVE  PhaseInv'
  BY <1>7 DEF Rebind, PhaseInv, bindings, linkVs, argMaxVs, chainVs, stream, runVs, history
<1>8. ASSUME Stage
      PROVE  PhaseInv'
  BY <1>8 DEF Stage, PhaseInv, bindings, linkVs, argMaxVs, chainVs, stream, runVs, history
<1>9. ASSUME Record
      PROVE  PhaseInv'
  BY <1>9 DEF Record, PhaseInv, bindings, linkVs, argMaxVs, chainVs, stream, runVs, history
<1>10. ASSUME NEW n \in 0 .. chain.steps * BodyChunks - 1, RecordThrows(n)
      PROVE  PhaseInv'
  BY <1>10 DEF RecordThrows, PhaseInv, bindings, linkVs, argMaxVs, chainVs, stream, runVs,
     history
<1>11. ASSUME Submit
      PROVE  PhaseInv'
  BY <1>11 DEF Submit, PhaseInv, bindings, linkVs, argMaxVs, chainVs, stream, runVs, history
<1>12. ASSUME RunThrows
      PROVE  PhaseInv'
  BY <1>12 DEF RunThrows, PhaseInv, bindings, linkVs, argMaxVs, chainVs, stream, runVs, history
<1>13. ASSUME EndRun
      PROVE  PhaseInv'
  BY <1>13 DEF EndRun, PhaseInv, bindings, linkVs, argMaxVs, chainVs, stream, runVs, history
<1>14. ASSUME Rethrow
      PROVE  PhaseInv'
  BY <1>14 DEF Rethrow, PhaseInv, bindings, linkVs, argMaxVs, chainVs, stream, runVs, history
<1>15. CASE UNCHANGED <<recordingStale, convert, recordedConvert, linksChanged, argMaxChanged, chainChanged, pc, todo>>
  BY <1>15 DEF PhaseInv
<1>16.
     \/ \E l \in Links : AddResidentLink(l)
     \/ \E l \in Links, n \in 1 .. MaxCapacity : GrowRanges(l, n)
     \/ ClearResidentLinks
     \/ \E o \in Outs : SetOutputArgMax(o)
     \/ \E o \in Outs, n \in 1 .. StepsMax : ConfigureDecodeChain(o, n)
     \/ \E d \in [Tensors -> Decls] : BeginRun(d)
     \/ \E t \in Tensors : Rebind(t)
     \/ Stage
     \/ Record
     \/ \E n \in 0 .. chain.steps * BodyChunks - 1 : RecordThrows(n)
     \/ Submit
     \/ RunThrows
     \/ EndRun
     \/ Rethrow
     \/ UNCHANGED <<recordingStale, convert, recordedConvert, linksChanged, argMaxChanged, chainChanged, pc, todo>>
  BY DEF Next, Setter, Run, GrowRangesThrows, SetOutputArgMaxThrows, ConfigureDecodeChainThrows, Recycle,
     SetDecodeChainWindow, SetterFrame, vars, bindings, linkVs, argMaxVs, chainVs, stream,
     runVs, history
<1> QED
  BY <1>1, <1>2, <1>3, <1>4, <1>5, <1>6, <1>7, <1>8, <1>9, <1>10, <1>11, <1>12, <1>13,
     <1>14, <1>15, <1>16

\* A recording is complete and encodes the bindings until something marks it stale.
LEMMA EncodedInvStep ==
  ASSUME TypeOK, PhaseInv, EncodedInv, [Next]_vars
  PROVE  EncodedInv'
<1>1. ASSUME NEW o \in Outs, NEW n \in 1 .. StepsMax, ConfigureDecodeChain(o, n)
      PROVE  EncodedInv'
  BY <1>1 DEF ConfigureDecodeChain, SetterFrame, EncodedInv, Recorded, Chunks, Starts, bindings, stream
<1>2. ASSUME NEW t \in Tensors, Rebind(t)
      PROVE  EncodedInv'
  <2>1. CASE recordingStale'
    BY <2>1 DEF EncodedInv
  <2>2. CASE ~recordingStale'
    <3>1. PICK want : buffers' = [buffers EXCEPT ![t] = want]
                      /\ recordingStale' = (recordingStale \/ want # buffers[t])
      BY <1>2 DEF Rebind
    <3>2. ~recordingStale /\ want = buffers[t]
      BY <2>2, <3>1
    <3>3. buffers' = buffers
      BY <3>1, <3>2 DEF TypeOK
    <3> QED
      BY <1>2, <3>2, <3>3 DEF Rebind, EncodedInv, Recorded, Chunks, Starts, chainVs, stream
  <2> QED
    BY <2>1, <2>2
<1>3. CASE Stage
  <2>1. ~recordingStale' => ~recordingStale /\ ~chainChanged
    BY <1>3 DEF Stage, TypeOK
  <2> QED
    BY <1>3, <2>1 DEF Stage, EncodedInv, Recorded, Chunks, Starts, stream
<1>4. CASE Record
  <2>1. chain.steps \in 1 .. StepsMax /\ chain.steps * BodyChunks \in Nat \ {0}
    BY ChainSteps
  <2>2. cmds' = Chunks(Encoding, chain.steps * BodyChunks)
    BY <1>4 DEF Record
  <2>3. cmds' # <<>> /\ cmds'[1].enc = Encoding
    BY <2>1, <2>2, ChunksIsSeq
  <2>4. /\ Encoding.chain = chain' /\ Encoding.buffers = buffers'
        /\ Encoding.convert = recordedConvert'
    BY <1>4 DEF Record, Encoding, bindings, chainVs
  <2>5. chain' = chain /\ iterationFirstChunk' = Starts(chain.steps)
    BY <1>4 DEF Record, chainVs
  <2>6. IF chainState' THEN cmds'[1].enc.chain = chain' ELSE cmds'[1].enc.chain.steps = 1
    BY <1>4, <2>3, <2>4, <2>5 DEF Record, chainVs
  <2> QED
    BY <2>1, <2>2, <2>3, <2>4, <2>5, <2>6 DEF EncodedInv, Recorded, Chunks, Starts
<1>5. ASSUME NEW n \in 0 .. chain.steps * BodyChunks - 1, RecordThrows(n)
      PROVE  EncodedInv'
  BY <1>5 DEF RecordThrows, PhaseInv, EncodedInv
<1>6. CASE UNCHANGED <<recordingStale, cmds, iterationFirstChunk, buffers, recordedConvert, chain, chainChanged, chainState>>
  BY <1>6 DEF EncodedInv, Recorded, Chunks, Starts
<1>7. ASSUME NEW o \in Outs, NEW n \in 1 .. StepsMax, ConfigureDecodeChainThrows(o, n)
      PROVE  EncodedInv'
  BY <1>7 DEF ConfigureDecodeChainThrows, SetterFrame, EncodedInv, Recorded, Chunks, Starts, bindings, stream
<1>8. \/ \E o \in Outs, n \in 1 .. StepsMax : ConfigureDecodeChain(o, n) \/ ConfigureDecodeChainThrows(o, n)
      \/ \E t \in Tensors : Rebind(t)
      \/ Stage
      \/ Record
      \/ \E n \in 0 .. chain.steps * BodyChunks - 1 : RecordThrows(n)
      \/ UNCHANGED <<recordingStale, cmds, iterationFirstChunk, buffers, recordedConvert, chain, chainChanged, chainState>>
  BY DEF Next, Setter, Run, Recycle, AddResidentLink, GrowRanges, GrowRangesThrows,
     ClearResidentLinks, SetOutputArgMax, SetOutputArgMaxThrows, SetDecodeChainWindow, BeginRun,
     Submit, RunThrows, EndRun, Rethrow, SetterFrame, vars, bindings, chainVs, stream
<1> QED
  BY <1>1, <1>2, <1>3, <1>4, <1>5, <1>6, <1>7, <1>8

\* The window widens only once the buffer is there, and the buffer stays.
LEMMA WindowInvStep ==
  ASSUME WindowInv, [Next]_vars
  PROVE  WindowInv'
  BY DEF WindowInv, Next, Setter, Run, Recycle, AddResidentLink, GrowRanges, GrowRangesThrows,
     ClearResidentLinks, SetOutputArgMax, SetOutputArgMaxThrows, ConfigureDecodeChain,
     ConfigureDecodeChainThrows, SetDecodeChainWindow, BeginRun, Rebind, Stage, Record, RecordThrows,
     Submit, RunThrows, EndRun, Rethrow, vars, chainVs

-----------------------------------------------------------------------------
\* The rebind.

\* What a run binds is read off the declarations, the imports and the buffers.
LEMMA BindingFrame ==
  ASSUME UNCHANGED <<buffers, imported, decl, fdFile>>, NEW t \in Tensors
  PROVE  /\ BoundAsDeclared(t)' <=> BoundAsDeclared(t)
         /\ ConvertOf(t)' = ConvertOf(t)
         /\ UNCHANGED links => (HostBytes(t)' <=> HostBytes(t))
  BY DEF BoundAsDeclared, ConvertOf, HostBytes, Bound, BoundFd, FileOf, LinkedInputs, Linked

\* Rebind binds its tensor as declared, whether or not the import of its dma-buf succeeds.
LEMMA RebindBinds ==
  ASSUME TypeOK, NEW t \in Tensors, Rebind(t)
  PROVE  /\ BoundAsDeclared(t)' /\ convert'[t] = ConvertOf(t)'
         /\ \A s \in Tensors \ {t} : /\ buffers'[s] = buffers[s] /\ imported'[s] = imported[s]
                                     /\ convert'[s] = convert[s]
<1>1. PICK imp \in IF BoundFd(t) THEN Imports(t) ELSE {imported[t]} :
        /\ imported' = [imported EXCEPT ![t] = imp]
        /\ convert' = [convert EXCEPT ![t] =
                         IF BoundFd(t) /\ imp # None /\ decl[t].mode = "convert"
                         THEN Import(imp.file) ELSE None]
        /\ buffers' = [buffers EXCEPT ![t] =
                         IF BoundFd(t) /\ imp # None /\ decl[t].mode = "direct"
                         THEN Import(imp.file) ELSE Own]
  BY DEF Rebind
<1>2. BoundFd(t) /\ imp # None => imp.file = FileOf(t) /\ imp.mode = decl[t].mode
  BY <1>1 DEF Imports
<1>3. /\ imported'[t] = imp
      /\ convert'[t] = IF BoundFd(t) /\ imp # None /\ decl[t].mode = "convert"
                       THEN Import(imp.file) ELSE None
      /\ buffers'[t] = IF BoundFd(t) /\ imp # None /\ decl[t].mode = "direct"
                       THEN Import(imp.file) ELSE Own
  BY <1>1 DEF TypeOK
<1>4. /\ BoundFd(t)' <=> BoundFd(t)
      /\ FileOf(t)' = FileOf(t) /\ decl' = decl
  BY DEF Rebind, BoundFd, FileOf
<1>5. \A s \in Tensors \ {t} : /\ buffers'[s] = buffers[s] /\ imported'[s] = imported[s]
                               /\ convert'[s] = convert[s]
  BY <1>1 DEF TypeOK
<1> QED
  BY <1>2, <1>3, <1>4, <1>5 DEF BoundAsDeclared, ConvertOf, Bound

LEMMA RebindInvStep ==
  ASSUME TypeOK, PhaseInv, RebindInv, [Next]_vars
  PROVE  RebindInv'
<1>1. CASE pc' \in {"idle", "refused", "failed"}
  BY <1>1 DEF RebindInv
<1>2. ASSUME NEW d \in [Tensors -> Decls], BeginRun(d)
      PROVE  RebindInv'
  BY <1>2 DEF BeginRun, RebindInv
<1>3. ASSUME NEW t \in Tensors, Rebind(t)
      PROVE  RebindInv'
  <2>1. pc = "rebinding" /\ pc' = "rebinding" /\ todo' = todo \ {t}
    BY <1>3 DEF Rebind
  <2>2. BoundAsDeclared(t)' /\ convert'[t] = ConvertOf(t)'
    BY <1>3, RebindBinds
  <2>3. ASSUME NEW s \in Tensors, s # t
        PROVE  IF s \in todo' THEN convert'[s] = None
               ELSE BoundAsDeclared(s)' /\ convert'[s] = ConvertOf(s)'
    <3>1. /\ buffers'[s] = buffers[s] /\ imported'[s] = imported[s]
          /\ convert'[s] = convert[s]
      BY <1>3, <2>3, RebindBinds
    <3>2. decl' = decl /\ fdFile' = fdFile
      BY <1>3 DEF Rebind
    <3>3. (BoundAsDeclared(s)' <=> BoundAsDeclared(s)) /\ ConvertOf(s)' = ConvertOf(s)
      BY <3>1, <3>2 DEF BoundAsDeclared, ConvertOf, Bound, BoundFd, FileOf
    <3>4. IF s \in todo THEN convert[s] = None
          ELSE BoundAsDeclared(s) /\ convert[s] = ConvertOf(s)
      BY <2>1 DEF RebindInv
    <3> QED
      BY <2>1, <2>3, <3>1, <3>3, <3>4
  <2>4. \A s \in Tensors : IF s \in todo' THEN convert'[s] = None
                           ELSE BoundAsDeclared(s)' /\ convert'[s] = ConvertOf(s)'
    BY <2>1, <2>2, <2>3
  <2> QED
    BY <2>1, <2>4 DEF RebindInv
<1>4. CASE Stage
  <2>1. pc = "rebinding" /\ todo = {} /\ pc' \in {"recording", "ready"}
    BY <1>4 DEF Stage
  <2>2. UNCHANGED <<buffers, imported, decl, fdFile, links>>
    BY <1>4 DEF Stage
  <2>3. ASSUME NEW t \in Tensors
        PROVE  BoundAsDeclared(t)' /\ convert'[t] = IF HostBytes(t)' THEN Staging ELSE ConvertOf(t)'
    <3>1. BoundAsDeclared(t) /\ convert[t] = ConvertOf(t)
      BY <2>1 DEF RebindInv
    <3>2. convert'[t] = IF Staged(t) THEN Staging ELSE convert[t]
      BY <1>4 DEF Stage
    <3>3. decl[t] = NoFd => ConvertOf(t) = None
      BY DEF ConvertOf, Bound, BoundFd
    <3>4. Staged(t) <=> HostBytes(t)
      BY <3>1, <3>3 DEF Staged, HostBytes
    <3>5. (BoundAsDeclared(t)' <=> BoundAsDeclared(t)) /\ ConvertOf(t)' = ConvertOf(t)
          /\ (HostBytes(t)' <=> HostBytes(t))
      BY <2>2, BindingFrame
    <3> QED
      BY <3>1, <3>2, <3>4, <3>5
  <2> QED
    BY <2>1, <2>3 DEF RebindInv
<1>5. CASE /\ pc \in {"recording", "ready", "submitted"}
           /\ pc' \in {"recording", "ready", "submitted"}
           /\ UNCHANGED <<buffers, imported, convert, decl, fdFile, links>>
  <2>1. ASSUME NEW t \in Tensors
        PROVE  BoundAsDeclared(t)' /\ convert'[t] = IF HostBytes(t)' THEN Staging ELSE ConvertOf(t)'
    <3>1. BoundAsDeclared(t) /\ convert[t] = IF HostBytes(t) THEN Staging ELSE ConvertOf(t)
      BY <1>5 DEF RebindInv
    <3>2. (BoundAsDeclared(t)' <=> BoundAsDeclared(t)) /\ ConvertOf(t)' = ConvertOf(t)
          /\ (HostBytes(t)' <=> HostBytes(t))
      BY <1>5, BindingFrame
    <3> QED
      BY <1>5, <3>1, <3>2
  <2> QED
    BY <1>5, <2>1 DEF RebindInv
<1>6. CASE UNCHANGED vars
  <2>1. UNCHANGED <<buffers, imported, convert, decl, fdFile, links, pc, todo>>
    BY <1>6 DEF vars, bindings, linkVs, runVs
  <2>2. \A t \in Tensors : /\ BoundAsDeclared(t)' <=> BoundAsDeclared(t)
                           /\ ConvertOf(t)' = ConvertOf(t)
                           /\ HostBytes(t)' <=> HostBytes(t)
    BY <2>1, BindingFrame
  <2> QED
    BY <2>1, <2>2 DEF RebindInv
<1>7. \/ pc' \in {"idle", "refused", "failed"}
      \/ \E d \in [Tensors -> Decls] : BeginRun(d)
      \/ \E t \in Tensors : Rebind(t)
      \/ Stage
      \/ /\ pc \in {"recording", "ready", "submitted"}
         /\ pc' \in {"recording", "ready", "submitted"}
         /\ UNCHANGED <<buffers, imported, convert, decl, fdFile, links>>
      \/ UNCHANGED vars
  BY DEF Next, Setter, Run, Recycle, AddResidentLink, GrowRanges, GrowRangesThrows,
     ClearResidentLinks, SetOutputArgMax, SetOutputArgMaxThrows, ConfigureDecodeChain,
     ConfigureDecodeChainThrows, SetDecodeChainWindow, Record, RecordThrows, Submit, RunThrows, EndRun, Rethrow, SetterFrame,
     bindings, linkVs, runVs
<1> QED
  BY <1>1, <1>2, <1>3, <1>4, <1>5, <1>6, <1>7

-----------------------------------------------------------------------------
\* What a served run found.

\* Whether a recording serves a is read off the stream, the bindings and the links.
LEMMA ServesFrame ==
  ASSUME NEW a, Serves(a),
         UNCHANGED <<recordingStale, linkVs, argMaxChanged, chainChanged, buffers, imported, recordedConvert>>
  PROVE  Serves(a)'
  BY DEF Serves, ServesTensor, BoundIn, StagedIn, LinkedInputs, Linked, linkVs

LEMMA AskedOf ==
  ASSUME NEW t \in Tensors
  PROVE  /\ Asked[t][1] = decl[t]
         /\ BoundFd(t) => Asked[t][2] = FileOf(t)
         /\ BoundIn(Asked, t) <=> BoundFd(t)
         /\ StagedIn(Asked, t) <=> HostBytes(t)
<1>1. Asked[t] = IF BoundFd(t) THEN <<decl[t], FileOf(t)>> ELSE <<decl[t], None>>
  BY DEF Asked
<1>2. Asked[t][1] = decl[t]
  BY <1>1
<1> QED
  BY <1>1, <1>2 DEF BoundIn, StagedIn, BoundFd, HostBytes

\* A run that asks for what the recording serves rebinds nothing.
LEMMA RebindKeeps ==
  ASSUME TypeOK, NEW t \in Tensors, Rebind(t), Serves(Asked)
  PROVE  UNCHANGED <<buffers, imported, recordingStale>>
<1>1. PICK imp \in IF BoundFd(t) THEN Imports(t) ELSE {imported[t]} :
        /\ imported' = [imported EXCEPT ![t] = imp]
        /\ buffers' = [buffers EXCEPT ![t] =
                         IF BoundFd(t) /\ imp # None /\ decl[t].mode = "direct"
                         THEN Import(imp.file) ELSE Own]
        /\ recordingStale' = (recordingStale \/
                                (IF BoundFd(t) /\ imp # None /\ decl[t].mode = "direct"
                                 THEN Import(imp.file) ELSE Own) # buffers[t])
  BY DEF Rebind
<1>2. ServesTensor(Asked, t)
  BY DEF Serves
<1>3. BoundFd(t) => /\ imported[t] # None /\ imported[t].file = FileOf(t)
                    /\ imported[t].mode = decl[t].mode
  BY <1>2, AskedOf DEF ServesTensor
<1>4. imp = imported[t]
  BY <1>1, <1>3 DEF Imports
<1>5. (IF BoundFd(t) /\ imp # None /\ decl[t].mode = "direct" THEN Import(imp.file) ELSE Own) = buffers[t]
  BY <1>2, <1>3, <1>4, AskedOf DEF ServesTensor
<1> QED
  BY <1>1, <1>4, <1>5 DEF TypeOK

\* And its staging step finds the converts the recording has.
LEMMA StageKeeps ==
  ASSUME TypeOK, Stage, Serves(Asked), RebindInv'
  PROVE  pc' = "ready" /\ ~recordingStale'
<1>1. UNCHANGED <<buffers, imported, decl, fdFile, links>> /\ pc' \in {"recording", "ready"}
  BY DEF Stage
<1>2. ASSUME NEW t \in Tensors
      PROVE  convert'[t] = recordedConvert[t]
  <2>1. convert'[t] = IF HostBytes(t)' THEN Staging ELSE ConvertOf(t)'
    BY <1>1 DEF RebindInv
  <2>2. convert'[t] = IF HostBytes(t) THEN Staging ELSE ConvertOf(t)
    BY <1>1, <2>1, BindingFrame
  <2>3. ServesTensor(Asked, t)
    BY DEF Serves
  <2>4. HostBytes(t) => ~BoundFd(t)
    BY DEF HostBytes, BoundFd
  <2>5. ConvertOf(t) = IF BoundFd(t) /\ decl[t].mode = "convert" THEN Import(FileOf(t)) ELSE None
    BY <2>3, AskedOf DEF ServesTensor, ConvertOf, Bound
  <2> QED
    BY <2>2, <2>3, <2>4, <2>5, AskedOf DEF ServesTensor
<1>3. convert' \in [Tensors -> Buffer \cup {None}]
  BY DEF Stage, TypeOK, Buffer
<1>4. convert' = recordedConvert
  BY <1>2, <1>3 DEF TypeOK
<1> QED
  BY <1>4 DEF Stage, Serves

\* A run that completes leaves a recording that serves what it asked for, if every import worked.
LEMMA EndServes ==
  ASSUME TypeOK, PhaseInv, RebindInv, pc = "submitted",
         \A t \in Tensors : BoundFd(t) => imported[t] # None
  PROVE  Serves(Asked)
<1>1. /\ ~recordingStale /\ convert = recordedConvert
      /\ ~linksChanged /\ ~argMaxChanged /\ ~chainChanged
  BY DEF PhaseInv
<1>2. ASSUME NEW t \in Tensors
      PROVE  ServesTensor(Asked, t)
  <2>1. BoundAsDeclared(t) /\ convert[t] = IF HostBytes(t) THEN Staging ELSE ConvertOf(t)
    BY DEF RebindInv
  <2>2. HostBytes(t) => ~BoundFd(t)
    BY DEF HostBytes, BoundFd
  <2> QED
    BY <1>1, <2>1, <2>2, AskedOf DEF ServesTensor, BoundAsDeclared, ConvertOf, Bound
<1> QED
  BY <1>1, <1>2 DEF Serves

LEMMA ServedInvStep ==
  ASSUME TypeOK, PhaseInv, RebindInv, RebindInv', ServedInv, [Next]_vars
  PROVE  ServedInv'
<1>1. CASE served' = {}
  BY <1>1 DEF ServedInv
<1>2. CASE pc' = "failed"
  BY <1>2 DEF ServedInv, Between, Running
<1>3. CASE /\ Between /\ served' = served /\ pc' # "recording"
           /\ UNCHANGED <<recordingStale, linkVs, argMaxChanged, chainChanged, buffers, imported, recordedConvert>>
  <2>1. \A a \in served : Serves(a)
    BY <1>3 DEF ServedInv
  <2>2. \A a \in served : Serves(a)'
    BY <1>3, <2>1, ServesFrame
  <2> QED
    BY <1>3, <2>2 DEF ServedInv
<1>4. ASSUME NEW t \in Tensors, Rebind(t)
      PROVE  ServedInv'
  <2>1. /\ pc = "rebinding" /\ pc' = "rebinding" /\ Asked' = Asked /\ served' = served
        /\ UNCHANGED <<linkVs, argMaxChanged, chainChanged, recordedConvert>>
    BY <1>4 DEF Rebind, Asked, BoundFd, FileOf, linkVs, argMaxVs, chainVs, stream, history
  <2>2. ASSUME NEW a \in served, Asked = a
        PROVE  Serves(a)'
    <3>1. Serves(Asked)
      BY <2>1, <2>2 DEF ServedInv, Running
    <3>2. UNCHANGED <<buffers, imported, recordingStale>>
      BY <1>4, <3>1, RebindKeeps
    <3> QED
      BY <2>1, <2>2, <3>1, <3>2, ServesFrame
  <2> QED
    BY <2>1, <2>2 DEF ServedInv, Between, Running
<1>5. CASE Stage
  <2>1. /\ pc = "rebinding" /\ pc' \in {"recording", "ready"} /\ Asked' = Asked
        /\ served' = served
        /\ UNCHANGED <<links, buffers, imported, recordedConvert>>
    BY <1>5 DEF Stage, Asked, BoundFd, FileOf, stream, history
  <2>2. ASSUME NEW a \in served, Asked = a
        PROVE  pc' # "recording" /\ Serves(a)'
    <3>1. Serves(Asked)
      BY <2>1, <2>2 DEF ServedInv, Running
    <3>2. pc' = "ready" /\ ~recordingStale'
      BY <1>5, <3>1, StageKeeps
    <3>3. UNCHANGED <<recordingStale, linkVs, argMaxChanged, chainChanged>>
      BY <1>5, <3>1, <3>2 DEF Stage, Serves, TypeOK, linkVs
    <3> QED
      BY <2>1, <2>2, <3>1, <3>2, <3>3, ServesFrame
  <2> QED
    BY <2>1, <2>2 DEF ServedInv, Between
<1>6. CASE Record
  <2>1. \A a \in served : Asked # a
    BY <1>6 DEF Record, ServedInv, Running
  <2>2. Asked' = Asked /\ served' = served /\ ~Between'
    BY <1>6 DEF Record, Asked, BoundFd, FileOf, history, Between
  <2> QED
    BY <2>1, <2>2 DEF ServedInv
<1>7. CASE Submit
  <2>1. /\ Running /\ ~Between' /\ pc' # "recording" /\ Asked' = Asked /\ served' = served
        /\ UNCHANGED <<recordingStale, linkVs, argMaxChanged, chainChanged, buffers, imported, recordedConvert>>
    BY <1>7 DEF Submit, Asked, BoundFd, FileOf, bindings, linkVs, argMaxVs, chainVs, stream, Running, Between
  <2>2. \A a \in served : Asked = a => Serves(a)'
    BY <2>1, ServesFrame DEF ServedInv
  <2> QED
    BY <2>1, <2>2 DEF ServedInv
<1>8. CASE EndRun
  <2>1. CASE \E t \in Tensors : BoundFd(t) /\ imported[t] = None
    BY <1>1, <1>8, <2>1 DEF EndRun
  <2>2. CASE \A t \in Tensors : BoundFd(t) => imported[t] # None
    <3>1. served' = {Asked} /\ pc' = "idle" /\ pc = "submitted"
      BY <1>8, <2>2 DEF EndRun
    <3>2. UNCHANGED <<recordingStale, linkVs, argMaxChanged, chainChanged, buffers, imported, recordedConvert>>
      BY <1>8 DEF EndRun, bindings, linkVs, argMaxVs, chainVs, stream
    <3>3. Serves(Asked)
      BY <2>2, <3>1, EndServes
    <3>4. ASSUME NEW a \in served'
          PROVE  Serves(a)'
      <4>1. a = Asked
        BY <3>1, <3>4
      <4>2. Serves(a)
        BY <3>3, <4>1
      <4> QED
        BY <3>2, <4>2, ServesFrame
    <3> QED
      BY <3>1, <3>4 DEF ServedInv
  <2> QED
    BY <2>1, <2>2
<1>9. CASE UNCHANGED vars
  <2>1. /\ (Between' <=> Between) /\ (Running' <=> Running) /\ pc' = pc /\ Asked' = Asked /\ served' = served
        /\ UNCHANGED <<recordingStale, linkVs, argMaxChanged, chainChanged, buffers, imported, recordedConvert>>
    BY <1>9 DEF vars, bindings, linkVs, argMaxVs, chainVs, stream, runVs, history, Between, Running,
       Asked, BoundFd, FileOf
  <2>2. \A a \in served : Serves(a) => Serves(a)'
    BY <2>1, ServesFrame
  <2> QED
    BY <2>1, <2>2 DEF ServedInv
<1>10. \/ served' = {}
       \/ pc' = "failed"
       \/ /\ Between /\ served' = served /\ pc' # "recording"
          /\ UNCHANGED <<recordingStale, linkVs, argMaxChanged, chainChanged, buffers, imported, recordedConvert>>
       \/ \E t \in Tensors : Rebind(t)
       \/ Stage \/ Record \/ Submit \/ EndRun
       \/ UNCHANGED vars
  BY DEF Next, Setter, Run, Recycle, AddResidentLink, GrowRanges, GrowRangesThrows,
     ClearResidentLinks, SetOutputArgMax, SetOutputArgMaxThrows, ConfigureDecodeChain,
     ConfigureDecodeChainThrows, SetDecodeChainWindow, BeginRun, RecordThrows, RunThrows, Rethrow, SetterFrame, Between,
     bindings, linkVs, argMaxVs, chainVs, stream, runVs, history
<1> QED
  BY <1>1, <1>2, <1>3, <1>4, <1>5, <1>6, <1>7, <1>8, <1>9, <1>10

-----------------------------------------------------------------------------
\* The submitted stream.

\* The chunks submitted are the recording's, up to the active iterations of the chain in force.
LEMMA ActiveWindow ==
  ASSUME TypeOK, PhaseInv, EncodedInv, WindowInv, pc = "ready"
  PROVE  SubSeq(cmds, 1, SubmitChunks) = Chunks(Recorded, chainActiveSteps * BodyChunks)
<1>0. BodyChunks \in Nat \ {0}
  BY SegmentAssumption
<1>1. /\ cmds = Chunks(Recorded, Recorded.chain.steps * BodyChunks)
      /\ iterationFirstChunk = Starts(Recorded.chain.steps)
      /\ Recorded.chain.steps = IF chainState THEN chain.steps ELSE 1
  BY DEF PhaseInv, EncodedInv
<1>2. /\ chain.steps \in Nat \ {0} /\ chain.steps * BodyChunks \in Nat \ {0}
      /\ chainActiveSteps * BodyChunks \in 0 .. chain.steps * BodyChunks
  BY ChainSteps
<1>3. chainActiveSteps \in 1 .. chain.steps
  BY DEF TypeOK
<1>4. Len(cmds) = Recorded.chain.steps * BodyChunks
  BY <1>0, <1>1, <1>2, ChunksIsSeq
<1>5. Len(iterationFirstChunk) = Recorded.chain.steps
  BY <1>1, <1>2 DEF Starts
<1>6. CASE ~chainState
  <2>1. Recorded.chain.steps = 1 /\ chainActiveSteps = 1
    BY <1>1, <1>6 DEF WindowInv
  <2>2. 1 * BodyChunks = BodyChunks
    BY <1>0
  <2>3. SubmitChunks = BodyChunks
    BY <1>2, <1>4, <1>5, <2>1, <2>2 DEF SubmitChunks
  <2>4. cmds = Chunks(Recorded, BodyChunks) /\ BodyChunks \in 0 .. BodyChunks
    BY <1>0, <1>1, <2>1, <2>2
  <2>5. SubSeq(Chunks(Recorded, BodyChunks), 1, BodyChunks) = Chunks(Recorded, BodyChunks)
    BY <1>0, <2>4, ChunksPrefix
  <2> QED
    BY <2>1, <2>2, <2>3, <2>4, <2>5
<1>7. CASE chainState
  <2>0. Recorded.chain.steps = chain.steps
    BY <1>1, <1>7
  <2>1. SubmitChunks = chainActiveSteps * BodyChunks
    <3>1. CASE chainActiveSteps = chain.steps
      BY <1>2, <1>4, <2>0, <3>1 DEF SubmitChunks
    <3>2. CASE chainActiveSteps < chain.steps
      <4>1. chainActiveSteps + 1 \in 1 .. chain.steps /\ (chainActiveSteps + 1) - 1 = chainActiveSteps
        BY <1>2, <1>3, <3>2
      <4>2. Starts(chain.steps)[chainActiveSteps + 1] = chainActiveSteps * BodyChunks
        BY <4>1 DEF Starts
      <4>3. ~(chainActiveSteps >= chain.steps \/ Len(iterationFirstChunk) < chain.steps)
        BY <1>2, <1>3, <1>5, <2>0, <3>2
      <4> QED
        BY <1>1, <2>0, <4>2, <4>3 DEF SubmitChunks
    <3> QED
      BY <1>2, <1>3, <3>1, <3>2
  <2> QED
    BY <1>1, <1>2, <2>0, <2>1, ChunksPrefix
<1> QED
  BY <1>6, <1>7

\* Only Submit submits.
LEMMA OnlySubmit ==
  ASSUME [Next]_vars, pc' = "submitted"
  PROVE  Submit \/ UNCHANGED vars
<1>1. CASE UNCHANGED vars
  BY <1>1
<1>2. CASE Next /\ ~UNCHANGED vars
  BY <1>2 DEF Next, Setter, Run, Recycle, AddResidentLink, GrowRanges, GrowRangesThrows,
     ClearResidentLinks, SetOutputArgMax, SetOutputArgMaxThrows, ConfigureDecodeChain,
     ConfigureDecodeChainThrows, SetDecodeChainWindow, SetterFrame, BeginRun, Rebind, Stage, Record, RecordThrows,
     RunThrows, EndRun, Rethrow, runVs
<1> QED
  BY <1>1, <1>2

LEMMA ExecutedInvStep ==
  ASSUME TypeOK, PhaseInv, EncodedInv, WindowInv, ExecutedInv, [Next]_vars
  PROVE  ExecutedInv'
<1>1. CASE pc' = "submitted" /\ Submit
  <2>1. executed' = Chunks(Recorded, chainActiveSteps * BodyChunks)
    BY <1>1, ActiveWindow DEF Submit
  <2>2. cmds' = cmds /\ chainActiveSteps' = chainActiveSteps
    BY <1>1 DEF Submit, stream, chainVs
  <2> QED
    BY <2>1, <2>2 DEF ExecutedInv, Recorded, Chunks
<1>2. CASE UNCHANGED vars
  BY <1>2 DEF ExecutedInv, Recorded, Chunks, vars, stream, chainVs, runVs, history
<1> QED
  BY <1>1, <1>2, OnlySubmit DEF ExecutedInv

\* A submission has a first chunk, and it encodes the bindings the run ended up with.
LEMMA FirstChunk ==
  ASSUME TypeOK, PhaseInv, EncodedInv, ExecutedInv, pc = "submitted"
  PROVE  executed[1].enc.buffers = buffers /\ executed[1].enc.convert = convert
<1>1. chainActiveSteps * BodyChunks \in Nat \ {0}
  <2>1. \A a, b \in Nat \ {0} : a * b \in Nat \ {0}
    BY SMT
  <2>2. chainActiveSteps \in Nat \ {0} /\ BodyChunks \in Nat \ {0}
    BY ChainSteps, SegmentAssumption DEF TypeOK
  <2> QED
    BY <2>1, <2>2
<1>2. executed[1].enc = Recorded
  BY <1>1, ChunksIsSeq DEF ExecutedInv
<1> QED
  BY <1>2 DEF PhaseInv, EncodedInv

LEMMA DeclaredBufferFollows ==
  ASSUME TypeOK, PhaseInv, EncodedInv, RebindInv, ExecutedInv
  PROVE  DeclaredBufferIsUsed
<1> SUFFICES ASSUME pc = "submitted", NEW t \in Tensors
             PROVE  IF BoundFd(t) /\ imported[t] # None
                    THEN /\ decl[t].mode = "direct" =>
                              executed[1].enc.buffers[t] = Import(FileOf(t))
                         /\ decl[t].mode = "convert" =>
                              /\ executed[1].enc.convert[t] = Import(FileOf(t))
                              /\ executed[1].enc.buffers[t] = Own
                    ELSE executed[1].enc.buffers[t] = Own
  BY DEF DeclaredBufferIsUsed
<1>1. executed[1].enc.buffers = buffers /\ executed[1].enc.convert = convert
  BY FirstChunk
<1>2. BoundAsDeclared(t) /\ convert[t] = IF HostBytes(t) THEN Staging ELSE ConvertOf(t)
  BY DEF RebindInv
<1> QED
  BY <1>1, <1>2 DEF BoundAsDeclared, ConvertOf, HostBytes, Bound, BoundFd

LEMMA LinkedStateFollows ==
  ASSUME TypeOK, PhaseInv, EncodedInv, RebindInv, ExecutedInv
  PROVE  LinkedStateKept
<1> SUFFICES ASSUME pc = "submitted", NEW t \in LinkedInputs
             PROVE  executed[1].enc.convert[t] # Staging
  BY DEF LinkedStateKept
<1>1. executed[1].enc.convert = convert
  BY FirstChunk
<1>2. t \in Tensors /\ ~HostBytes(t)
  BY SegmentAssumption DEF LinkedInputs, HostBytes, Tensors
<1>3. convert[t] = ConvertOf(t)
  BY <1>2 DEF RebindInv
<1>4. ConvertOf(t) # Staging
  BY SegmentAssumption DEF ConvertOf, Import, Staging
<1> QED
  BY <1>1, <1>3, <1>4

\* A run that re-records was not asked for what the last one was given.
LEMMA RecordsFollows ==
  ASSUME ServedInv
  PROVE  RecordsOnlyOnChange
  BY DEF ServedInv, Running, RecordsOnlyOnChange

\* With no flag pending, what the recording encodes is all that a recording would encode now.
LEMMA CurrentFollows ==
  ASSUME PhaseInv, StreamInv, ExecutedInv
  PROVE  SubmittedIsCurrent
<1> SUFFICES ASSUME pc = "submitted"
             PROVE  executed = Chunks(Encoding, chainActiveSteps * BodyChunks)
  BY DEF SubmittedIsCurrent
<1>1. Recorded = Encoding
  BY DEF PhaseInv, StreamInv, Encoding
<1> QED
  BY <1>1 DEF ExecutedInv

-----------------------------------------------------------------------------
LEMMA InitIInv ==
  ASSUME Init
  PROVE  IInv /\ StreamInv
<1>1. TypeOK
  <2>1. Own \in Buffer \ {Staging}
    BY DEF Buffer, Own, Staging
  <2>2. buffers \in [Tensors -> Buffer \ {Staging}]
    BY <2>1 DEF Init
  <2>3. NoFd \in Decls /\ decl \in [Tensors -> Decls]
    BY DEF Init, Decls
  <2>4. chain \in Chain /\ chain.steps = 1 /\ chainActiveSteps \in 1 .. chain.steps
    BY DEF Init, Chain, NoChain
  <2>5. links \in [Links -> LinkState]
    BY DEF Init, LinkState
  <2> QED
    BY <2>2, <2>3, <2>4, <2>5 DEF Init, TypeOK
<1>2. EncodedInv /\ StreamInv
  BY DEF Init, EncodedInv, StreamInv
<1>3. PhaseInv /\ WindowInv /\ RebindInv /\ ServedInv /\ ExecutedInv
  BY DEF Init, PhaseInv, WindowInv, RebindInv, ServedInv, ExecutedInv
<1> QED
  BY <1>1, <1>2, <1>3 DEF IInv

LEMMA NextIInv ==
  ASSUME IInv, [Next]_vars
  PROVE  IInv'
<1>1. TypeOK /\ PhaseInv /\ EncodedInv /\ WindowInv /\ RebindInv /\ ServedInv /\ ExecutedInv
  BY DEF IInv
<1>2. TypeOK' /\ PhaseInv' /\ EncodedInv' /\ WindowInv' /\ ExecutedInv'
  BY <1>1, TypeOKStep, PhaseInvStep, EncodedInvStep, WindowInvStep, ExecutedInvStep
<1>3. RebindInv'
  BY <1>1, RebindInvStep
<1>4. ServedInv'
  BY <1>1, <1>3, ServedInvStep
<1> QED
  BY <1>2, <1>3, <1>4 DEF IInv

-----------------------------------------------------------------------------
\* The results.

\* The inductive invariant holds in every behaviour of a segment's calls and runs, those whose
\* allocations throw included.
THEOREM Invariance == Spec => []IInv
<1>1. Init => IInv
  BY InitIInv
<1> QED
  BY <1>1, NextIInv, PTL DEF Spec

\* Type correctness: in particular the active window never exceeds the chain that is configured.
THEOREM TypeCorrect == Spec => []TypeOK
<1>1. IInv => TypeOK
  BY DEF IInv
<1> QED
  BY <1>1, Invariance, PTL

\* Every submitted stream reads and writes the dma-bufs the descriptors denote now (run()'s
\* rebind of the boundary buffers and converts).
THEOREM BuffersAreDeclared == Spec => []DeclaredBufferIsUsed
<1>1. IInv => DeclaredBufferIsUsed
  BY DeclaredBufferFollows DEF IInv
<1> QED
  BY <1>1, Invariance, PTL

\* No submitted stream overwrites the state a resident link keeps on the device (the staging
\* converts of run()).
THEOREM LinksAreKept == Spec => []LinkedStateKept
<1>1. IInv => LinkedStateKept
  BY LinkedStateFollows DEF IInv
<1> QED
  BY <1>1, Invariance, PTL

\* run() records again only when something changed: a run that asks for what the last completed
\* one was given submits the recording in hand, whatever window of the chain it runs and
\* whatever refused runs and recycled descriptors lie between.
THEOREM RecordingIsReused == Spec => []RecordsOnlyOnChange
<1>1. IInv => RecordsOnlyOnChange
  BY RecordsFollows DEF IInv
<1> QED
  BY <1>1, Invariance, PTL

\* Every run submits the stream a recording made at that moment would contain, however setters,
\* rebinds, recycled descriptors, failed recordings and failed runs interleaved before it.  An
\* allocation that throws in setOutputArgMax or configureDecodeChain would break it: the output stays
\* registered, or the chain configured, and argMaxChanged_ or chainChanged_ is never set.
THEOREM StreamIsCurrent ==
  ASSUME ~AllocFails
  PROVE  Spec => []SubmittedIsCurrent
<1>1. Init => StreamInv
  BY InitIInv
<1>2. IInv /\ StreamInv /\ [Next]_vars => StreamInv'
  BY StreamInvStep DEF IInv
<1>3. IInv /\ StreamInv => SubmittedIsCurrent
  BY CurrentFollows DEF IInv
<1> QED
  BY <1>1, <1>2, <1>3, Invariance, PTL DEF Spec
=============================================================================
