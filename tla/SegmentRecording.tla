--------------------------- MODULE SegmentRecording ---------------------------
(***************************************************************************)
(* What a Vulkan segment has recorded against what it is about to submit   *)
(* (backend/vulkan/vk_segment.cpp, boundary_rebind_rule.h).                *)
(*                                                                         *)
(* A segment records its command chunks once and submits them on every     *)
(* run.  Between runs, and at the head of each run, the buffers, converts, *)
(* links, reductions and the decode chain that the stream encodes may      *)
(* change, and any call may throw half way.  A run is split where an       *)
(* exception can leave it, so a failed run leaves what the code leaves.    *)
(*                                                                         *)
(* History variables: executed, the chunks the last run submitted; served, *)
(* what the last run completed with, as long as nothing has changed since. *)
(***************************************************************************)
EXTENDS Integers, Sequences

CONSTANTS
  Ins, Outs,      \* boundaryInputs and boundaryOutputs that have a device buffer
  ImageIns,       \* inputs whose host bytes a GPU convert unpacks (ioGpuConvert staging)
  KvqIns,         \* inputs that are int8 KV caches
  Links,          \* <<source output, destination input>> pairs a session may link
  Fds, Files,     \* dma-buf descriptors, and the dma-bufs they can denote
  Modes,          \* the kinds of layout a caller declares a dma-buf with
  StepsMax,       \* Config::decodeChainSteps (chainStepsMax_)
  BodyChunks,     \* command chunks one pass over the nodes is split into
  MaxCapacity,    \* bound on the ranges a caller asks of a link
  None,           \* no buffer, link or descriptor
  AllocFails      \* TRUE: the allocations made by the setters may throw

\* A tensor's pooled buffer, its staging buffer, its import of a file.  Importing the same
\* file twice at one size gives the same memory, so the two are not told apart.
Own       == <<"own">>
Staging   == <<"staging">>
Import(f) == <<"dmabuf", f>>

ASSUME SegmentAssumption ==
  /\ Ins \cap Outs = {}
  /\ ImageIns \subseteq Ins /\ KvqIns \subseteq Ins /\ Links \subseteq Outs \X Ins
  /\ Modes \subseteq {"direct", "convert", "refused"}
  /\ StepsMax \in Nat \ {0} /\ BodyChunks \in Nat \ {0} /\ MaxCapacity \in Nat \ {0}
  /\ AllocFails \in BOOLEAN
  /\ None # Staging

Tensors == Ins \cup Outs

\* What the caller's RtTensor says of a boundary tensor: no fd, or an fd whose declared layout
\* is device-native, convertible on this device, or not convertible.
NoFd  == [fd |-> None, mode |-> "none"]
Decls == {NoFd} \cup [fd : Fds, mode : Modes]

VARIABLES
  buffers, imported, convert, recordedConvert,
  links, linksChanged,                           \* residentLinks_ by pair
  argMaxOutputs, argMaxResults, argMaxChanged,
  chain, chainActiveSteps, chainChanged,
  chainState,                                    \* chainStateBuf_ is allocated
  recordingStale, cmds, iterationFirstChunk,
  fdFile,               \* the dma-buf each descriptor denotes now
  pc, decl, todo,       \* where the run is, its declarations, the tensors left to rebind
  executed, served

bindings == <<buffers, imported, convert>>
linkVs   == <<links, linksChanged>>
argMaxVs == <<argMaxOutputs, argMaxResults, argMaxChanged>>
chainVs  == <<chain, chainActiveSteps, chainChanged, chainState>>
stream   == <<recordedConvert, cmds, iterationFirstChunk>>
runVs    == <<pc, decl, todo>>
history  == <<executed, served>>
vars == <<bindings, linkVs, argMaxVs, chainVs, stream, recordingStale, fdFile, runVs, history>>

NoChain == [on |-> FALSE, out |-> None, steps |-> 1]

Init ==
  /\ buffers = [t \in Tensors |-> Own]
  /\ imported = [t \in Tensors |-> None]
  /\ convert = [t \in Tensors |-> None] /\ recordedConvert = convert
  /\ links = [l \in Links |-> None] /\ linksChanged = FALSE
  /\ argMaxOutputs = {} /\ argMaxResults = {} /\ argMaxChanged = FALSE
  /\ chain = NoChain /\ chainActiveSteps = 1 /\ chainChanged = FALSE /\ chainState = FALSE
  /\ recordingStale = TRUE /\ cmds = <<>> /\ iterationFirstChunk = <<>>
  /\ fdFile \in [Fds -> Files]
  /\ pc = "idle" /\ decl = [t \in Tensors |-> NoFd] /\ todo = {}
  /\ executed = <<>> /\ served = {}

-----------------------------------------------------------------------------
\* Between runs.

\* The caller closes a descriptor and the system gives its number to another dma-buf.
Recycle(fd, f) ==
  /\ pc = "idle"
  /\ fdFile' = [fdFile EXCEPT ![fd] = f]
  /\ UNCHANGED <<bindings, linkVs, argMaxVs, chainVs, stream, recordingStale, runVs, history>>

\* What a setter leaves alone; one that changes what a stream encodes ends a served period.
SetterFrame == UNCHANGED <<bindings, stream, recordingStale, fdFile, runVs, executed>>
Linked(l)     == links[l] # None
LinkedInputs  == {l[2] : l \in {k \in Links : Linked(k)}}
LinkedOutputs == {l[1] : l \in {k \in Links : Linked(k)}}

\* addResidentLink of an unregistered pair.  held is what the ranges buffer was allocated for
\* (and so its identity), capacity what the segment believes it holds.
AddResidentLink(l) ==
  /\ pc = "idle" /\ ~Linked(l)
  /\ links' = [links EXCEPT ![l] = [held |-> 1, capacity |-> 1]]
  /\ linksChanged' = TRUE
  /\ served' = {}
  /\ SetterFrame /\ UNCHANGED <<argMaxVs, chainVs>>

Grown(l, needed) ==
  IF 2 * links[l].capacity > needed THEN 2 * links[l].capacity ELSE needed

\* setResidentLinkRangeSets with more ranges than fit: capacity at least doubles, then the buffer is
\* replaced.  With ranges that fit it only writes the buffer's contents.
GrowRanges(l, needed) ==
  /\ pc = "idle" /\ Linked(l) /\ needed > links[l].capacity
  /\ links' = [links EXCEPT ![l] = [held |-> Grown(l, needed), capacity |-> Grown(l, needed)]]
  /\ linksChanged' = TRUE
  /\ served' = {}
  /\ SetterFrame /\ UNCHANGED <<argMaxVs, chainVs>>

\* The same when the allocation throws.
GrowRangesThrows(l, needed) ==
  /\ AllocFails
  /\ pc = "idle" /\ Linked(l) /\ needed > links[l].capacity
  /\ links' = [links EXCEPT ![l].capacity = Grown(l, needed)]
  /\ served' = {}
  /\ SetterFrame /\ UNCHANGED <<linksChanged, argMaxVs, chainVs>>

ClearResidentLinks ==
  /\ pc = "idle" /\ \E l \in Links : Linked(l)
  /\ links' = [l \in Links |-> None]
  /\ linksChanged' = TRUE
  /\ served' = {}
  /\ SetterFrame /\ UNCHANGED <<argMaxVs, chainVs>>

\* setOutputArgMax of a flat boundary output that is not registered yet.
SetOutputArgMax(o) ==
  /\ pc = "idle" /\ o \notin argMaxOutputs
  /\ argMaxOutputs' = argMaxOutputs \cup {o}
  /\ argMaxResults' = argMaxResults \cup {o}
  /\ argMaxChanged' = TRUE
  /\ served' = {}
  /\ SetterFrame /\ UNCHANGED <<linkVs, chainVs>>

\* The same when the result buffer's allocation throws: the output is already registered.
SetOutputArgMaxThrows(o) ==
  /\ AllocFails
  /\ pc = "idle" /\ o \notin argMaxOutputs
  /\ argMaxOutputs' = argMaxOutputs \cup {o}
  /\ served' = {}
  /\ SetterFrame /\ UNCHANGED <<argMaxResults, argMaxChanged, linkVs, chainVs>>

\* MUTANT of ConfigureDecodeChain: the stream in hand is taken to carry the new chain.
ConfigureDecodeChainSilently(o, steps) ==
  /\ pc = "idle" /\ o \in argMaxOutputs
  /\ chain' = [on |-> TRUE, out |-> o, steps |-> steps]
  /\ chainActiveSteps' = 1 /\ chainState' = TRUE
  /\ served' = {}
  /\ SetterFrame /\ UNCHANGED <<chainChanged, linkVs, argMaxVs>>

\* The first one allocates the buffer of the chain's state.
ConfigureDecodeChain(o, steps) ==
  /\ pc = "idle" /\ o \in argMaxOutputs
  /\ chain' = [on |-> TRUE, out |-> o, steps |-> steps]
  /\ chainActiveSteps' = 1 /\ chainState' = TRUE
  /\ chainChanged' = TRUE
  /\ served' = {}
  /\ SetterFrame /\ UNCHANGED <<linkVs, argMaxVs>>

\* The same when that allocation throws: the chain is configured, and no change is noted.
ConfigureDecodeChainThrows(o, steps) ==
  /\ AllocFails
  /\ pc = "idle" /\ o \in argMaxOutputs /\ ~chainState
  /\ chain' = [on |-> TRUE, out |-> o, steps |-> steps]
  /\ chainActiveSteps' = 1
  /\ served' = {}
  /\ SetterFrame /\ UNCHANGED <<chainChanged, chainState, linkVs, argMaxVs>>

\* MUTANT of SetDecodeChainWindow: the window is checked against the buffers' size, not
\* against the recorded chain.
SetDecodeChainWindowUnchecked(n) ==
  /\ pc = "idle" /\ chain.on /\ chainState
  /\ chainActiveSteps' = n
  /\ SetterFrame /\ UNCHANGED <<chain, chainChanged, chainState, linkVs, argMaxVs, served>>

\* setDecodeChainWindow: host-written state only, no re-record.  The process does not survive the
\* write when the state's buffer is missing.
SetDecodeChainWindow(n) ==
  /\ pc = "idle" /\ chain.on /\ n <= chain.steps /\ chainState
  /\ chainActiveSteps' = n
  /\ SetterFrame /\ UNCHANGED <<chain, chainChanged, chainState, linkVs, argMaxVs, served>>

-----------------------------------------------------------------------------
\* run(): refuse, rebind, stage, re-record, submit.

\* An int8 KV cache binds no descriptor.
BoundFd(t)  == decl[t] # NoFd /\ t \notin KvqIns
FileOf(t)   == fdFile[decl[t].fd]

BeginRun(d) ==
  /\ pc = "idle"
  /\ decl' = d
  /\ convert' = [t \in Tensors |-> None]
  /\ IF \E t \in Tensors \ KvqIns : d[t].mode = "refused"
     THEN pc' = "refused" /\ todo' = {}
     ELSE pc' = "rebinding" /\ todo' = Tensors
  /\ UNCHANGED <<buffers, imported, linkVs, argMaxVs, chainVs, stream, recordingStale, fdFile, history>>

\* The Error of a refusal, or of any later step of the run, reaches the caller.
Rethrow ==
  /\ pc \in {"refused", "failed"}
  /\ pc' = "idle"
  /\ decl' = [t \in Tensors |-> NoFd] /\ todo' = {}
  /\ served' = IF pc = "failed" THEN {} ELSE served
  /\ UNCHANGED <<bindings, linkVs, argMaxVs, chainVs, stream, recordingStale, fdFile, executed>>


\* MUTANT of Imports: the import is keyed on the descriptor's number.
ImportsByFd(t) ==
  IF imported[t] # None /\ imported[t].fd = decl[t].fd /\ imported[t].mode = decl[t].mode
  THEN {imported[t]}
  ELSE {None, [file |-> FileOf(t), mode |-> decl[t].mode, fd |-> decl[t].fd]}

\* The import a tensor keeps is reused while this run's dma-buf (its dmaBufId, an inode number)
\* and size are the ones it was made for; a fresh import may fail (the device cannot import), which leaves none.
Imports(t) ==
  IF imported[t] # None /\ imported[t].file = FileOf(t) /\ imported[t].mode = decl[t].mode
  THEN {imported[t]}
  ELSE {None, [file |-> FileOf(t), mode |-> decl[t].mode, fd |-> decl[t].fd]}

\* Inputs come first, then outputs.
NextToRebind(t) == t \in todo /\ (t \in Outs => todo \subseteq Outs)

\* MUTANT of Rebind: a change is noted only at the end of the pass, which a throw skips.
RebindNotedLate(t) ==
  /\ pc = "rebinding" /\ NextToRebind(t)
  /\ \E imp \in IF BoundFd(t) THEN Imports(t) ELSE {imported[t]} :
       LET bound == BoundFd(t) /\ imp # None
           want  == IF bound /\ decl[t].mode = "direct" THEN Import(imp.file) ELSE Own
       IN  /\ imported' = [imported EXCEPT ![t] = imp]
           /\ convert' = [convert EXCEPT ![t] = IF bound /\ decl[t].mode = "convert"
                                                THEN Import(imp.file) ELSE None]
           /\ buffers' = [buffers EXCEPT ![t] = want]
           /\ recordingStale' = (recordingStale \/ (want # buffers[t] /\ todo = {t}))
  /\ todo' = todo \ {t}
  /\ UNCHANGED <<linkVs, argMaxVs, chainVs, stream, fdFile, pc, decl, history>>

\* The rebind of one tensor: the fd itself, a convert between it and the pooled buffer, or the
\* pooled buffer alone.  A changed buffer marks the recording stale at once.
Rebind(t) ==
  /\ pc = "rebinding" /\ NextToRebind(t)
  /\ \E imp \in IF BoundFd(t) THEN Imports(t) ELSE {imported[t]} :
       LET bound == BoundFd(t) /\ imp # None
           want  == IF bound /\ decl[t].mode = "direct" THEN Import(imp.file) ELSE Own
       IN  /\ imported' = [imported EXCEPT ![t] = imp]
           /\ convert' = [convert EXCEPT ![t] = IF bound /\ decl[t].mode = "convert"
                                                THEN Import(imp.file) ELSE None]
           /\ buffers' = [buffers EXCEPT ![t] = want]
           /\ recordingStale' = (recordingStale \/ want # buffers[t])
  /\ todo' = todo \ {t}
  /\ UNCHANGED <<linkVs, argMaxVs, chainVs, stream, fdFile, pc, decl, history>>

\* MUTANT of Staged: a linked input's bytes are converted over its resident state.
StagedLinkedToo(t) ==
  t \in ImageIns /\ decl[t] = NoFd /\ convert[t] = None /\ t \notin KvqIns

\* The inputs whose host bytes a recorded convert unpacks from a staging buffer.
Staged(t) ==
  t \in ImageIns /\ decl[t] = NoFd /\ convert[t] = None /\ t \notin KvqIns
  /\ t \notin LinkedInputs

\* MUTANT of Stage: the pending-change flags are consumed only when they are all that changed.
StageKeepingFlags ==
  /\ pc = "rebinding" /\ todo = {}
  /\ convert' = [t \in Tensors |-> IF Staged(t) THEN Staging ELSE convert[t]]
  /\ recordingStale' = (recordingStale \/ convert' # recordedConvert
                          \/ linksChanged \/ argMaxChanged \/ chainChanged)
  /\ linksChanged' = (linksChanged /\ recordingStale)
  /\ argMaxChanged' = FALSE /\ chainChanged' = FALSE
  /\ pc' = IF recordingStale' THEN "recording" ELSE "ready"
  /\ UNCHANGED <<buffers, imported, links, argMaxOutputs, argMaxResults, chain, chainActiveSteps,
                 chainState, stream, fdFile, decl, todo, history>>

\* The staging converts, then every reason to re-record; the pending-change flags are consumed,
\* the staleness they turn into is not.
Stage ==
  /\ pc = "rebinding" /\ todo = {}
  /\ convert' = [t \in Tensors |-> IF Staged(t) THEN Staging ELSE convert[t]]
  /\ recordingStale' = (recordingStale \/ convert' # recordedConvert
                          \/ linksChanged \/ argMaxChanged \/ chainChanged)
  /\ linksChanged' = FALSE /\ argMaxChanged' = FALSE /\ chainChanged' = FALSE
  /\ pc' = IF recordingStale' THEN "recording" ELSE "ready"
  /\ UNCHANGED <<buffers, imported, links, argMaxOutputs, argMaxResults, chain, chainActiveSteps,
                 chainState, stream, fdFile, decl, todo, history>>

\* What a recording encodes, and the chunks and iteration starts it produces.
Encoding == [buffers |-> buffers, convert |-> convert, links |-> links,
             argMax |-> argMaxOutputs, chain |-> chain]
Chunks(e, n) == [i \in 1 .. n |-> [step |-> (i - 1) \div BodyChunks, enc |-> e]]
Starts(steps) == [s \in 1 .. steps |-> (s - 1) * BodyChunks]

StartsUpTo(n) == [s \in 1 .. chain.steps |-> IF Starts(chain.steps)[s] <= n
                                             THEN Starts(chain.steps)[s] ELSE 0]

\* A chained recording cannot carry the convert of an output.
ChainWithOutputConvert == chain.steps > 1 /\ \E t \in Outs : convert[t] # None

\* MUTANT of RecordThrows: a recording that throws has already cleared the staleness.
RecordThrowsFresh(n) ==
  /\ pc = "recording" /\ (chainState \/ n <= BodyChunks)
  /\ cmds' = Chunks(Encoding, n)
  /\ \/ n = 0 /\ UNCHANGED iterationFirstChunk
     \/ ~ChainWithOutputConvert /\ iterationFirstChunk' = StartsUpTo(n)
  /\ recordingStale' = FALSE
  /\ pc' = "failed"
  /\ UNCHANGED <<bindings, linkVs, argMaxVs, chainVs, recordedConvert, fdFile, decl, todo, history>>

\* record(); it dereferences every registered output's result buffer, and from a chain's second
\* iteration on the buffer of its state, so the process does not survive it when one is missing.
Record ==
  /\ pc = "recording" /\ ~ChainWithOutputConvert /\ argMaxOutputs \subseteq argMaxResults
  /\ chainState \/ chain.steps = 1
  /\ cmds' = Chunks(Encoding, chain.steps * BodyChunks)
  /\ iterationFirstChunk' = Starts(chain.steps)
  /\ recordedConvert' = convert
  /\ recordingStale' = FALSE
  /\ pc' = "ready"
  /\ UNCHANGED <<bindings, linkVs, argMaxVs, chainVs, fdFile, decl, todo, history>>

\* record() when a step of it throws after n finished chunks: before the iteration starts are
\* reset, or among the iterations.
RecordThrows(n) ==
  /\ pc = "recording" /\ (chainState \/ n <= BodyChunks)
  /\ cmds' = Chunks(Encoding, n)
  /\ \/ n = 0 /\ UNCHANGED iterationFirstChunk
     \/ ~ChainWithOutputConvert /\ iterationFirstChunk' = StartsUpTo(n)
  /\ pc' = "failed"
  /\ UNCHANGED <<bindings, linkVs, argMaxVs, chainVs, recordedConvert, recordingStale, fdFile, decl,
                 todo, history>>

\* chunksForActiveSteps
SubmitChunks ==
  IF chainActiveSteps >= chain.steps \/ Len(iterationFirstChunk) < chain.steps
  THEN Len(cmds)
  ELSE iterationFirstChunk[chainActiveSteps + 1]

\* The upload, then one submit and fence wait per chunk.
Submit ==
  /\ pc = "ready"
  /\ executed' = SubSeq(cmds, 1, SubmitChunks)
  /\ pc' = "submitted"
  /\ UNCHANGED <<bindings, linkVs, argMaxVs, chainVs, stream, recordingStale, fdFile, decl, todo, served>>

\* An import, a staging buffer, an upload or a submit throws.
RunThrows ==
  /\ pc \in {"rebinding", "ready"}
  /\ pc' = "failed"
  /\ UNCHANGED <<bindings, linkVs, argMaxVs, chainVs, stream, recordingStale, fdFile, decl, todo, history>>

\* What a completed run was asked for: the declarations and the files behind them.
Asked == [t \in Tensors |-> IF BoundFd(t) THEN <<decl[t], FileOf(t)>> ELSE <<decl[t], None>>]

EndRun ==
  /\ pc = "submitted"
  /\ pc' = "idle"
  /\ served' = IF \E t \in Tensors : BoundFd(t) /\ imported[t] = None THEN {} ELSE {Asked}
  /\ decl' = [t \in Tensors |-> NoFd] /\ executed' = <<>>
  /\ UNCHANGED <<bindings, linkVs, argMaxVs, chainVs, stream, recordingStale, fdFile, todo>>

-----------------------------------------------------------------------------
Setter ==
  \/ \E l \in Links : AddResidentLink(l)
  \/ \E l \in Links, n \in 1 .. MaxCapacity : GrowRanges(l, n) \/ GrowRangesThrows(l, n)
  \/ ClearResidentLinks
  \/ \E o \in Outs : SetOutputArgMax(o) \/ SetOutputArgMaxThrows(o)
  \/ \E o \in Outs, n \in 1 .. StepsMax : ConfigureDecodeChain(o, n) \/ ConfigureDecodeChainThrows(o, n)
  \/ \E n \in 1 .. StepsMax : SetDecodeChainWindow(n)

Run ==
  \/ \E d \in [Tensors -> Decls] : BeginRun(d)
  \/ \E t \in Tensors : Rebind(t)
  \/ Stage \/ Record \/ Submit \/ EndRun
  \/ \E n \in 0 .. chain.steps * BodyChunks - 1 : RecordThrows(n)
  \/ RunThrows \/ Rethrow

Next ==
  \/ \E fd \in Fds, f \in Files : Recycle(fd, f)
  \/ Setter
  \/ Run

Spec == Init /\ [][Next]_vars

-----------------------------------------------------------------------------
\* Properties

Buffer == {Own, Staging} \cup {Import(f) : f \in Files}
Chain  == {NoChain} \cup [on : {TRUE}, out : Outs, steps : 1 .. StepsMax]
LinkState == {None} \cup [held : 1 .. 2 * MaxCapacity, capacity : 1 .. 2 * MaxCapacity]

TypeOK ==
  /\ buffers \in [Tensors -> Buffer \ {Staging}]
  /\ imported \in [Tensors -> {None} \cup [file : Files, mode : Modes, fd : Fds]]
  /\ convert \in [Tensors -> Buffer \cup {None}]
  /\ recordedConvert \in [Tensors -> Buffer \cup {None}]
  /\ links \in [Links -> LinkState] /\ linksChanged \in BOOLEAN
  /\ argMaxOutputs \subseteq Outs /\ argMaxResults \subseteq Outs /\ argMaxChanged \in BOOLEAN
  /\ chain \in Chain /\ chainActiveSteps \in 1 .. chain.steps /\ chainChanged \in BOOLEAN
  /\ chainState \in BOOLEAN
  /\ recordingStale \in BOOLEAN
  /\ fdFile \in [Fds -> Files]
  /\ pc \in {"idle", "refused", "rebinding", "recording", "ready", "submitted", "failed"}
  /\ decl \in [Tensors -> Decls] /\ todo \subseteq Tensors

\* What a run submits is what a recording made at that moment would contain, up to the last
\* active iteration of the chain: no setter, rebind, recycled descriptor, thrown recording or
\* failed run in between leaves a stale command stream in use.
SubmittedIsCurrent ==
  pc = "submitted" => executed = Chunks(Encoding, chainActiveSteps * BodyChunks)

\* Each tensor the caller gave a descriptor for is read from or written to the dma-buf the
\* descriptor denotes now, directly or through a convert, and the others use their pooled
\* buffers: a descriptor's number that was recycled does not bring its old dma-buf back.
DeclaredBufferIsUsed ==
  pc = "submitted" =>
    \A t \in Tensors :
      IF BoundFd(t) /\ imported[t] # None
      THEN /\ decl[t].mode = "direct" => executed[1].enc.buffers[t] = Import(FileOf(t))
           /\ decl[t].mode = "convert" => /\ executed[1].enc.convert[t] = Import(FileOf(t))
                                          /\ executed[1].enc.buffers[t] = Own
      ELSE executed[1].enc.buffers[t] = Own

\* A linked input keeps its device state across runs: no submitted stream overwrites it with
\* a staging convert of the bytes the caller last bound.
LinkedStateKept ==
  pc = "submitted" => \A t \in LinkedInputs : executed[1].enc.convert[t] # Staging

\* A run that asks for what the last completed run was given, with no setter other than the
\* chain window and no failed run in between, submits the recording it has: one recording
\* serves every chain length, and a reused dma-buf is recorded once.
RecordsOnlyOnChange == pc = "recording" => Asked \notin served

\* The comment on ResidentLink::capacity: the ranges rangesBuf can hold.
RangesFit == \A l \in Links : Linked(l) => links[l].capacity <= links[l].held

\* The comment on argMaxResults_: one result buffer per registered output.
EveryArgMaxHasResult == argMaxOutputs \subseteq argMaxResults

\* The comment of configureDecodeChain, "the next run re-records the chained command stream".
ChainIsRecorded == pc = "submitted" => executed[1].enc.chain = chain

=============================================================================
