# A TLA+ verification of vknn

vknn is a C++17 neural-network inference engine: it imports an ONNX graph (or a `.vxm` container),
optimises it, plans it into segments that run on Vulkan or on the CPU, and runs them, with
features for language-model decoding (resident key/value links, a decode chain, speculative
verification). An Android demo application sits on top.

This directory holds TLA+ models of the parts whose correctness depends on order, sharing and
failure, the TLC configurations that check them, and TLAPS proofs. Paths below are relative to
the repository root; `PROJECT.json` maps every definition to the source lines it stands for.

## 1. Inventory

Each component below lists the state it keeps, its operations, who it talks to, what is hard, and
what makes it correct.

**CPU worker pool** (`src/backend/cpu/parallel.{h,cpp}`). State: the published task, a claim
counter, a countdown of workers that still owe the generation a retirement, the captured
exception, a generation number, the thread-local "inside a region" flag. Operations:
`parallelFor`, `dispatch`, `ensure`, `workerLoop`, the static destructor. Every CPU operator of
every session in the process goes through the one pool, so calls overlap. Hard: two condition
variables, a lock-free claim counter, workers born in the middle of a dispatch, exceptions on
either side, re-entry. Correct when each index runs exactly once, a dispatch returns only when
nobody can still be running its closure, and errors reach the dispatch they came from.

**Vulkan segment** (`src/backend/vulkan/vk_segment.{h,cpp}`, `boundary_rebind_rule.h`). State: the
recorded command chunks, the staleness flag and the pending-change flags, boundary buffers (own,
pooled or rebound to a caller's dma-buf), the resident links with their range sets, argmax and row
selections, the decode chain's window, the liveness-pooled activation buffers and the barrier
hazard sets. Operations: the constructor (allocation, pooling), `record`, `run` (rebind, stage,
re-record, upload, submit, download), `addResidentLink`, `setResidentLinkRangeSets`,
`setOutputArgMax`, `configureDecodeChain`, `setDecodeChainWindow` and the read-backs. Hard: what
is recorded once is replayed many times while the session changes its inputs; a call may fail
half way. Correct when every stream that is submitted encodes the current bindings, and barriers
order every pair of conflicting accesses.

**Session** (`src/core/session.cpp`, `include/vknn/session_class.h`). State: the graph and its
shape buckets, per-bucket plans and segments, boundary tensors with a host and a device copy, link
registrations, argmax/row/chain registrations. Operations: `create`, `prepareShapes`, `run`,
`linkOutputToInput`, `readResident`, `setOutputArgMax`, `configureDecodeChain` and friends. Hard:
a rejected or failed call must leave a session that can be used; which of two copies of a tensor is
current; the same registration applied to a plan built later.

**Planner** (`buildBucket` and `foldTinyGpuIslands` in `session.cpp`, `src/core/graph.cpp`). Nodes
are assigned a backend, tiny GPU islands are folded into the CPU, maximal runs become segments,
and every value crossing a segment is a boundary. Correct when every value is produced before it is
read, across segments and devices.

**Speculative and chained decoding** (`include/vknn/spec_decode.h`, `io_link.h`,
`examples/llm`). Rules that decide how many drafted tokens are kept and which key/value rows are
folded. Correct when the emitted stream is the one plain greedy decoding would emit.

**Tuning and kernel caches** (`vk_backend.cpp`, `vk_weight_cache.*`, `vk_tune_race.*`,
`src/core/cache_codec.*`, `mapped_file.cpp`). A cache file is read at start-up and merged and
renamed into place at shutdown; a tuning race picks a kernel variant. Hard: a crash between the
write and the rename, several processes sharing a directory, a corrupt file.

**Device-weight pool** (`vk_weight_pool.h`). Sessions of one device share uploaded weights through
weak references.

**Importer** (`src/import`). State: one graph, rewritten in place by about forty passes, in the
order `runStandardPasses` gives them; at load the session sorts it again, and
`planFlatLayoutAndStorage` (`insert_layout_converts.cpp`, `mark_fp32.cpp`) chooses a device layout and
a storage precision for every tensor. Hard: each pass matches a pattern in the graph the passes
before it left, and forgets or keeps names, outputs, initializers, types and the order of nodes; one
wrong guard changes what the model computes, only for graphs no test has. Correct when every output
computes what it did, every kernel meets the layout and precision it was written for, and integers
stay exact where a node needs them.

**Android application** (`app-demo/app`). State: `ModelResidency`'s holder, busy flag, release phase
and waiters; of every view model its phase, its native handle and its jobs; the chosen variant and
what is on the device. Operations: load, turn, release, variant switch, deletion and download,
`onCleared`. Everything runs on the main thread between suspensions, so the hazards are what changes
across a suspension. Correct when there is at most one native session, none is freed under a call,
none leaks, the screens are true and every deferred release completes.

**JNI bridge** (`app-demo/native/vknn_jni.cpp`). State: the host's past buffers, the engine's resident
inputs, which of them is ahead, the stored and the decoded logits, the position. Operations: prefill
in whole windows and token by token, a decode step, reset, read-backs. Correct when the past holds
the conversation wherever it is, and the view model and the decoder agree on its length.

**Model container** (`src/core/model_io.cpp`, `model.cpp`, `convert/compile.cpp`). Serialisation and
streaming of `.vxm`. **Numeric helpers** (`kv_quant.h`, `quant_*.{h,cpp}`, `conv_geom.*`, `slice_bounds.h`,
`matmul_tile.h`, `wino_*.h`), **operators and shaders** (`backend/*/ops`, `shaders/`),
**Vulkan objects** (`vk_buffer`, `vk_command`, `vk_context`, `vk_pipeline`, `vk_image`).

**Chat driver** (`examples/llm/chat.cpp`). State: the position, the host past buffers, three flags
about the resident cache, the decode, chunk and verification buckets. It prefills and decodes turns
and switches the session's one set of links between buckets. Hard: five ways to advance the same
cache, every one of which may be cut off by a failed link, the context edge, an end of stream or the
token budget. Correct when the cache holds the conversation at every hand-over, and the printed
tokens are those of one step per token.

How they interact: the driver calls the session; the session runs its plan's segments in order,
copying boundary tensors between host and device; a Vulkan segment plans its memory once, records
once and submits on every run; a CPU segment runs operators that open regions in the one worker
pool. Everything but the pool runs on the caller's thread.

## 2. Modules

| Module | Models | Status |
| --- | --- | --- |
| `ParallelRegion` | what one `parallelFor` promises | abstract specification |
| `WorkerPool` | the pool, one action per critical section or shared access; implements `ParallelRegion` | checked, proved (`WorkerPoolProofs`) |
| `SegmentRecording` | what a segment recorded against what it submits: rebinding, converts, links, argmax, the decode chain | checked, proved (`SegmentRecordingProofs`) |
| `SegmentBarriers` | the barriers between recorded nodes and what Vulkan makes of them | checked, proved (`SegmentBarriersProofs`) |
| `SegmentPlan` | the memory plan: aliases, views, rescues, elisions, pooled slots | checked |
| `Residency` | host and device copies of a session's tensors over whole runs, links, argmax, dma-bufs, failures | checked, proved (`ResidencyProofs`) |
| `ChatDecode` | turns of a conversation over the three caches | checked, proved (`ChatDecodeProofs`) |
| `AppResidency` | the application's one model slot and the view models that compete for it | checked, proved (`AppResidencyProofs`) |
| `KvConversation` | what a decoder with a cache promises its caller | abstract specification |
| `KvBridge` | the two decoders of the JNI bridge over turns; implements `KvConversation` | checked, proved (`KvBridgeProofs`) |
| `ImportGraph` | the graph the passes rewrite, and its meaning as terms | library |
| `ImportPasses` | the passes that remove, lower, fold and fuse single nodes | library |
| `FusePointwise` | `fusePointwiseChains` | library |
| `StoragePlan` | `planFlatLayoutAndStorage` | library |
| `Elements` | what a decoder's operators compute, element by element | library |
| `LoadFolds` | the folds of a decoder's graph when a session loads it | library |
| `Import` | the exporter, the pipeline over it, the load, and its properties | checked |

`MC*` modules hold the instances. `PROJECT.json` maps each definition to its lines.

**WorkerPool.** `cpc` and `wpc` say where a caller and a worker are; the short `mu_` sections are
single actions, and `task_`, `nTasks_`, `next_` and `err_` are read and written where the code
does it. The destructor (`StopPool`, `NotifyStop`, `Join`) may run while no caller is in a region.
Condition variables have no memory: a notification wakes who sleeps, and each wait tests its
predicate on entry.

**SegmentRecording.** `cmds` is the recorded stream as a sequence of chunks, each a record of what
it encodes; `Fresh` is what a recording made now would encode. The split of a run into actions
follows the places an exception can leave it from. Every setter that allocates has a failing case
under `AllocFails`: `configureDecodeChain` has then set the chain but not the flag that re-records.

**SegmentBarriers.** The code's hazard sets are beside `pending`, the accesses Vulkan has not
ordered yet. `races` collects every access that meets a pending one it conflicts with.

**SegmentPlan.** The plan is a pure function: the module builds every segment of the given shape
node by node and evaluates the plan of the finished one. `PlanIsExact` executes it on memory and
compares every read with the graph's meaning. Nothing keeps a Pad whose data is an alias of a boundary
tensor from moving that tensor into its own pooled buffer, so the module moves it too (`Carried`); a
session input then has its value there and nowhere else. `PlanIsExact` assumes of such a tensor that no
other tenant uses the slot before an input is read or after a read-back tensor is written, and that no
rescue counts a read-back tensor as dead (`Undisturbed`); of a rescue that its argument covers it
(`Covered`). Section 6 shows what happens without either.

**Residency.** A value is a term, so a stale copy differs from a current one. A run is split at
segment entry, upload, submit and download, with a throw possible at each. A bucket is a number; its
nodes, inputs and outputs are tensors of their own, and callers know them by names that recur in
several buckets. A run starts with the bucket the caller means and goes to the one `Selected` finds;
the contract (`want`, `made`) follows the former. `Partition` cuts the nodes into segments when the
session is created.

**ChatDecode.** The row of a cache slot is `n` when it was computed for the `n`-th token over
exactly the rows before it, otherwise 0. `Exact(cache, n)` is the cache the plain loop has after
`n` tokens, the clamp at the last slot included. Which drafts are confirmed, which token ends the
stream and which call fails are free choices.

**AppResidency.** `job` is what each coroutine of each view model is doing, one record per job; an
action is a job's run from one suspension to the next. A completed waiter resumes inline
(`Dispatchers.Main.immediate`), before any other event: `runq`. `session` holds the native sessions,
so a leak or a use after a free is a state. A waiter whose job was cancelled stays in its queue as
`None`, since `onCleared` cancels the coroutine and not the deferred. `Quick` names what may happen
while a job is still in flight.

**KvBridge.** A native call is one action, a prompt one action per forward; `host`, `device` and `row`
are the three places a row can be in, `ahead` says which is current. A row is named as in
`ChatDecode`. Both decoders refine `KvConversation` by mapping its `tokens` to their position.
Nothing locks a decoder: `ChatViewModel.reset` asks only for a handle, and its button stays active while
a reply streams. `ResetPressed` is therefore enabled in every phase between two native calls of a
turn, which goes on over the cleared cache; inside a call, or before the statement that counts its
tokens, only with `MayResetInCall` (section 6). A resync that fails part-way leaves a host copy of which
some tensors are new and some old (`Torn`); the engine's copy stays the current one.

**Import.** The exporter builds any graph of a family node by node; each pass is an operator from
graphs to graphs, and one action applies it. A value is a term; two graphs compute the same when
their terms are equal, and the few passes that change arithmetic are equations of the constructors in
`ImportGraph`. After the last pass come the session's sort and its storage plan. A decoder's graph
takes the other way into `Next`: the five folds of `Session::buildBucket` rewrite it with its hints on or
off. There a value is a sequence of elements and every node does what its CPU kernel does, so a wrong
stride, axis or row shows; the `present` outputs of a decoder may hold their new rows only, all of
them or none (`fold_kv_concat.cpp:20`).

## 3. Runs

Run `tlc -workers 2 -config X.cfg M` in this directory. Each passing run visits its whole bounded
state space.

| Run | Question | Bounds |
| --- | --- | --- |
| `worker_pool` | do overlapping, nested, throwing regions complete exactly, deliver their own error, and does the pool shut down? Does it implement `ParallelRegion`? | 2 callers, 2 workers, 2 regions |
| `segment_recording` | is every submitted stream current, with chains, throws and chunked bodies? | 1 linked pair, 1 descriptor over 2 dma-bufs, chain length 2, 2 chunks |
| `segment_alloc` | are the declared dma-bufs and the linked state used, when the setters' allocations fail and layouts are direct, convertible or refused? | chain length 1 |
| `segment_plan` | does every plan of movement nodes read what was written, and does the liveness rescue of a concat's members? | 4 nodes, every kind of view on every other; 5 nodes, the shuffle block; 5 nodes, a pad of an alias of an input or of what is read back |
| `segment_barriers` | are dispatches ordered, outputs visible, and no barrier needless? | any sequence of 1-read 1-write nodes over a slot, an arena and a slice of it; splits after 3 nodes or 6 bindings |
| `residency` | does every segment read current inputs, of the bucket the caller means, and are results, linked state and argmaxes those of the contract? | eight plans of 2 to 4 nodes, one link, one or two buckets, at most one run that throws |
| `chat_decode` | the same stream and cache whatever the mode and whatever fails; turns end | 6 slots, 3 turns, prompts to 3, 3 tokens a turn, 2 drafts, chains of 3 |
| `app` | at most one native session, none freed under a call, none leaked, screens true, releases complete? | 2 modes, one of 2 variants, of which the library can delete and download 1; failing loads, the activity finished once |
| `kv_bridge` | is the past the conversation wherever it is, do view model and decoder agree, and do both implement `KvConversation`? | 7 slots, windows to 3, prompts to 4, replies to 4, 5 turns and resets, at any moment between two calls |
| `import_passes` | do the passes and the storage plan keep meaning, float units, kernels' layouts and precisions, and exact integers? | fourteen families of 3 to 6 nodes, each position with its kinds; one further output; in two families one tensor marked fp32; decoder graphs of five kinds: 3 movements, products of moved operands, rotations, one and two layers of attention, of extents to 4 |
| `segment_barriers_copy_read` | violation, see 6 | |
| `chat_stale_reseed` | violation, see 6 | |

Why the bounds suffice. Two callers and two workers are the least with a queue for the region lock,
a worker that oversleeps a generation and one born late; two regions let something leak from one
into the next. One pair, two files and one descriptor allow a descriptor to be reused. The barrier
books hold at most a set of buffers, so the run is over every sequence, not only short ones. In
`residency` a plan has what its name says and no more: a CPU island, whose caller shares an input, an
output or tries a link that cannot stay on the device; a linked decoder with a CPU tail, with dma-bufs
or with a throw; the same on the CPU backend, with two ranges or with a throw; a step and a window in
one session; two networks in one session, one of them linked. In `chat_decode` two turns fill the cache and the third runs past its end; a prompt spans two windows,
and a turn can take two verification rounds or a chain and its tail. In `app` two modes are the least
that compete, and one of them switches between a variant put there by hand and one that comes and
goes; with every model deletable, in these two modes or in three of one variant each (`ThreeModes`,
`ThreeOffered`), the same properties hold. In `kv_bridge` two
turns fill the cache; the others clear it, go on over it or are met by a reset. A family of `import_passes` is as long as the longest pattern of the
passes it is for, and has a node before or behind the pattern where a guard looks there.

**Fairness.** `WorkerPool`: weak fairness of each thread's own steps (the system scheduler runs
every runnable thread; a task terminates) and of the destructor's steps. Opening a region, leaving
`main` and spurious wake-ups are not fair. Taking the region mutex is part of a caller's step, so a
caller that waits for others who keep taking it may starve, as with `std::mutex`; the bound on
regions leaves only finitely many others.
`ChatDecode`: weak fairness of the whole next-state relation, since the driver is one sequential
program: an enabled statement is executed.
`AppResidency`: weak fairness of each job's steps, of the resumption of completed waiters, of the
variant collectors and of clearing. The main thread serves every posted event, and a native call
returns, since a reply is bounded in tokens. User events (load, send, delete, finish) are not fair.
The other modules claim no liveness.

Deadlock is checked in `WorkerPool`, `SegmentRecording` and `Residency`. It is off where behaviours
end: the recording of a segment, the plan of one, an import, a conversation at the end of its input,
and an application nobody touches.

## 4. Proofs

`tlapm M.tla` checks each from its named constant assumption alone.

**WorkerPoolProofs** (any callers, any number of tasks and regions). `IInv` adds to the properties
where each worker can be by the generation it has seen. The heart is `CountInv`: while a
region is open `awake` is the number of workers that still owe it a retirement (`Owing`), and
`UniqueInv` with `ExhaustedInv`: claims are distinct and a worker retires only when the counter is
beyond `nTasks`. `RegionComplete` is not inductive without them: a caller that finds `awake = 0`
must know that every index was claimed and no claim is still running. From `IInv` follow
`RegionsComplete`, `NoDangling`, `ErrorsDelivered`, `NestingInline`, and the action property
`TaskIsStable`. `RefinesParallelRegion` is the safety part of `ImplementsParallelRegion`: a region
opens where `Publish` makes the task visible and closes where `Return` gives the lock back; an index
is started and finished where a thread enters and leaves its body. Whatever crosses none of these
borders is invisible to the contract (`Unmoved`). That an index is started once is `RanInv`, that its
finish is the only one `UniqueInv`.

**SegmentRecordingProofs** (any tensors, links, dma-bufs, chain length, chunking; allocations may
throw). `EncodedInv`: a recording that is not stale is complete and encodes the bindings in force;
`PhaseInv` says which flags each phase of the run may have consumed; `RebindInv` what a half-done
rebind leaves. Each is needed for the throw in the middle: an earlier phase has changed a binding, and
only the staleness flag remembers it. From them follow `BuffersAreDeclared` and `LinksAreKept`.
`ServedInv` is the converse: as long as nothing has changed since a run, the imports, buffers and
converts are those the same run would ask for, so each phase of that run leaves them and no phase
marks the recording stale (`RecordingIsReused`). That the recording also encodes the links and
reductions in force (`StreamInv`, `StreamIsCurrent`) holds only while the setters' allocations succeed
(`~AllocFails`): with a failing one an output can be registered for an argmax without a result buffer,
or a decode chain configured, without a flag (section 6). A chain without its state buffer still never
gets a window of more than one iteration (`WindowInv`).

**SegmentBarriersProofs** (any buffers and nodes, any split thresholds). `Bookkeeping` relates
`pending` to the hazard sets: an access that no barrier has ordered before later dispatches is in
the hazard set of its kind, and if it is a copy's, `copySinceBarrier` holds. Clearing a set is
harmless exactly because the barrier that clears it covers those accesses. A dispatch in conflict
with a pending access therefore finds it, and the barrier it records covers its stage:
`DispatchesAreOrdered`, and `OutputsVisible` at the end of the stream, under `~ViewFallback`. With a
refused view the first is false (section 6). `Backed` is the converse relation: with synchronization2
every entry of a hazard set stands for an access no barrier has ordered, so a full barrier always has
a conflict to order (`BarriersAreNeeded`); a barrier for a write over a read leaves it so only because
it clears the reads alone.

**KvBridgeProofs** (any cache size, windows, prompts, turns). `CacheIsConversation` says that the
copy of the past the next forward uses is right; what it needs is that the other copy is never used
too early. `Owed`: the engine is ahead of the host only while linked, never while the cache is to be
seeded, and without either only between a prompt and its first step. `Pending`: the fold the camera
coach's decoder owes is that of its last row. `Counted` ties the counters of the turn to the position. With them
`Implements` shows each action to append, clear or stutter in `KvConversation`. `Tolerated` is
what the run excludes too: a reset inside a native call, and the failures `"link-seed"`, `"step-seed"`
and `"pass-later"`; with any of them the conversation is lost (section 6). A reset between two calls of a
turn needs no such hypothesis: it clears the position with the counters, whatever the phase, and the
clauses of `Counted` and `Owed` hold in every phase the turn can go on from. A resync that failed
part-way tears the host copy only while the engine is ahead of it (`Owed`), so the past that the next
forward uses is untouched.

**AppResidencyProofs** (any modes, models, failing loads, restarts). `Exclusive`: at most one native
call, by the mode that owns the busy slot, and a free only when there is none. `Owned`: every session
is held by the one job that makes or frees it, or is the owner's handle. `Entitled`: a waiter that was
granted the slot and has not run yet finds no session, and a job resumed into its own mode's slot
finds a load there already. `Cleared`: which modes an ending activity has swept, and that a session
left to a cancelled job blocks the slot. `Shown` ties the phases of the screens to these. `Told` is what
`ScreenIsTrue` needs beyond them: a screen that is wrong about the device has a collector left to correct
it (`Faces`), one that shows a load has a load that will end or a release that will reset it
(`LoadingShown`), and a failed load, which shows the variant it was for, cannot fall behind the library
(`KeyFate`). The theorems assume `Patient` (no step of `Quick` but `"delete"`), and `ScreensAreTrue` all
of `Quick = {}`, as in the run. With any one of the other steps TLC finds two sessions, with `"delete"` a
wrong screen.
Trying to prove the slot under an earlier reading of `"restart"` showed that it was too narrow: two
loads that wait for each other, with three modes, are enough (section 6).

**ChatDecodeProofs** (any cache, windows, drafts, chains, prompts, turns). `Placed` says at every
point of a turn which copy of the past is the conversation: `Stepped` between steps, `Prefilled` and
`Chunked` between windows, with what a failed read-back may leave in the host, `Verified` between
rounds, with the rows still to fold (`Kept`). `Position` ties the position, the waiting choice and the
counters to the tokens fed; `Stopped` says why a turn is over before the links are back. Two facts
carry the steps: folding the row of the next token keeps a cache exact, at the clamped last slot too
(`FoldExact`), and a row folded behind the conversation leaves it exact (`FoldBehind`), which is why
the iterations of a chain after an end of stream and the columns after a rejected draft do no harm. A
chain is a recursive function, so its iterations need induction; it is done through the least
counterexample (`LeastNat`, from the well-ordering of the naturals). The theorems assume
`Corners = {}`, as in the run: with `"reseed"`, `"late"` or `"edge"` the cache is not the
conversation's (section 6).

**ResidencyProofs** (any buckets, nodes on either backend, links, slots, values, registrations and
failed runs, of a plan that is `Supported`). The partition comes first, since everything is said by
segment: segments are the runs of nodes on one backend and of one bucket (`SegmentIs`; induction goes
through the least counterexample), a tensor is written by one segment, and its readers are behind it (`InsAre`). So
a segment whose operands are those of the contract computes what the whole graph computes
(`SegmentComputes`). `IInv` then says for each kind of tensor where its current value is. An unlinked
input is current in every copy anybody reads (`Solid`), or in the one segment that keeps it
(`InputInv`). For a linked one, validity flags are not enough: before its owner has run, its buffer
holds the previous value, and what is current is that value with the pending copy applied
(`LoneInv`); the copy is right because the source still holds the last completed run's output, until
this bucket runs again (`OutInv`). `MadeInv` carries the boundary outputs from segment to segment,
`UpInv` what an upload has put in place, `ArgInv` what was reduced, and `FreshInv` that a buffer
nobody has written is zero. A failed run takes its bucket out of these until its linked inputs are
bound again (`sure`). One lemma per action. From `IInv` follow `InputsCurrent`, `ResultsCurrent`,
`ResidentCurrent` and `ArgMaxCurrent`. Two hypotheses: no value of a tensor is `None`, and
`Supported`, in terms of the partition, is the cases where the code keeps the contract: no CPU
segment touches a dma-buf; what is reduced, or comes down as one row, is no operand of another
segment and no dma-buf; an output linked after a run is on the GPU; and so on. `residency` checks
that its eight plans are such; without any one of its conditions TLC finds a counterexample
(section 6). Writing the hypotheses down found what the runs had not: a row of a dma-buf and the argmax of a
linked output (section 6), and a link kept by a CPU segment, which the model had allowed and
`segment.h:34` refuses.

Only model-checked: that an open region closes (`ImplementsParallelRegion` beyond its safety part)
and `ExitCompletes` of `WorkerPool`, `ReleasesComplete` of `AppResidency`, `TurnCompletes` of `ChatDecode`, and everything about
`SegmentPlan` and `Import`. Liveness under fairness is beyond the prover, and so are the folds of the plan and of the
passes over arbitrary graphs. `IInv` of `WorkerPoolProofs` is also checked by `worker_pool`, so that
the strengthening itself is known to be reached and broken by a wrong `Spawn`; the invariants of the
other proofs were checked on the instances of the runs before they were proved.

## 5. Not modelled

- Of shape buckets: what the passes make of the declared shapes, entries without a name (bound by
  position), a reshape bound to the only bucket. Node assignment and island folding: planned, below.
- Kernel and tuning caches, the weight pool, the container: most of them is I/O.
- Importer: rms and instance norm, einsum, quantisation, shape inference and constant folding; of
  the folds at load, the int8 caches of the fused attention. In the storage plan: the layout vote of standalone pointwise units, host
  epilogues, and operators the families do not have. In `fuseActivations` the default bounds of a
  Clip (0 to 6 there, unbounded in `pwClipBounds`), since a family's Clip has both bounds.
- Numeric helpers, operators, shaders: arithmetic tested against reference outputs; nothing there
  depends on order.
- Vulkan objects, capability gates, logging, converter, benchmarks: thin wrappers or tools.
- Android application: downloads and the model store, tokenizers, camera and image code, drawing.
- In the modelled parts: over several runs, a boundary tensor that a Pad has moved and that is linked,
  resident or bound to a dma-buf (`SegmentPlan` is one run of one segment); a decode chain and int8 links in `Residency`, the draft model's own cache and
  non-greedy sampling in `ChatDecode`, errors that end the program.

## 6. Where the code and its comments disagree

Two runs in `PROJECT.json` are counterexamples.

- `chat_stale_reseed`: `chat.cpp:694` calls `reseedCache` "next linked decode step re-seeds the
  resident cache from the host". A turn that ends before its first step leaves it set; when no window
  of the next prompt fits below the context edge, 1804 (or 1771) assigns `kvLink && consumed > 0`,
  which is FALSE, and the following steps run on an old resident cache.
- `segment_barriers_copy_read`: a compute barrier clears `writtenBufs`, so a later `vkCmdCopyBuffer`
  that reads the tensor records no barrier, although the compute barrier made the write visible to
  shader reads only.

The configurations below are not part of the checked list; each shows one more disagreement, or one
more case that a passing run leaves out, in the same modules.

| Configuration | What TLC shows |
| --- | --- |
| `SegmentBarriersFallback` | after a refused view, a Pad that kept its own view is no longer routed as a transfer |
| `SegmentRangesFit` | `capacity` is raised before the buffer is allocated; when that throws they disagree |
| `SegmentArgMaxResult` | an output is registered before its result buffer exists |
| `SegmentPlanCarried` | a Pad of an alias moves a boundary tensor into its own pooled buffer (`vk_segment.cpp:603-612`), although "a tensor may hold a view only when its buffer is [...] produced by a GPU node of THIS segment, and not host-read" (487-489) is asked of the pad's data (535): two session inputs padded in turn share one slot, which holds only one of them |
| `ResidencyArgMaxRead` | an output registered for an argmax is not downloaded for a CPU reader |
| `ResidencyHostValid` | an output written to a dma-buf keeps an older host copy marked valid |
| `ChatDecodeReseed` | a chain whose link update fails while a re-seed is pending copies the old resident cache over the host's |
| `AppReselect` | choosing a variant that is not on the device and the old one again, during a load, starts a second load, although at most one native model is resident (`ModelResidency.kt:6-9`) |
| `AppStuck` | a screen finished while a load waits for the release leaves `releasePhase` at RUNNING: later loads never get the slot |
| `AppTeardown` | `onCleared` frees the handle while a native call on it is still running (`VlmViewModel.kt:43-44` expects it not to) |
| `KvBridgeReset` | a reset pressed while a native call runs is undone by the call's last statements: the new conversation starts at an old position, or over an old row, although it is "position 0 and a cleared KV cache" (`vknn_jni.cpp:1212`) |
| `ImportCycle` | two units of pointwise fusion may each need the other's result: the regions are convex one by one (comment `fuse_pointwise_chains.cpp:725-731`), not together |
| `ImportTap` | folding a batch norm counts the nodes that read the convolution but not the graph outputs, which its comment names (`fold_batchnorm.cpp:43-46`); the output then has the normalised value. The two block fusions count in the same way |
| `ImportHeads` | the fusion of attention never compares the width of the keys with that of the values (`fuse_decode_attention.cpp:512` only asks for a positive one): the fused kernel sums a score over the values' width (653, `fused_attention.cpp:28`), while the core is said to be computed as before (`docs/running-an-llm.md:217-218`) |
| `ImportIndex` | a Gather's index is kept in fp32 (`passes.h:304-306`), but the walk that pins it stops at the first producer other than a layout convert (`mark_fp32.cpp:249-305`) |

More of the same kind is seen by small variations of a kept configuration:
- `Families <- MCShared` and `MayShare = TRUE` in `ImportTap`: two convolutions over one weight initializer,
  which the second fold rescales again. `Families <- MCGates` and `MayGateTwice = TRUE`: an activation
  between the second convolution of a squeeze-excite block and its gate, fused into the convolution
  before, is dropped.
- `CopyWritesAreOrdered` in `SegmentBarriersCopyRead`: a copy that overwrites what a dispatch read.
- `Shapes <- AliasPart` with `AliasedMemberIsExact`, `NestedPart` with `NestedPartIsExact`, or `InputPart`
  with `InputPartIsExact`, in `SegmentPlanCarried`: a read through an alias of a member does not count as
  a read of the member; a part that is an elided concat is dated by the concat and not by its own
  parts' producers; a part not produced in the segment is taken as never written, yet copied.
- `ChainIsRecorded` in `SegmentArgMaxResult`: `configureDecodeChain` sets the chain, then allocates its
  state, then raises the flag (`vk_segment.cpp:2738-2749`); when the allocation throws, the next run
  submits the stream recorded for the chain before.
- `Plans <- ResidualPlan` with `InputsAreCurrent`, or `CpuFdPlan` with `ResultsAreCurrent`, in a
  `Residency` configuration: a residual that another segment reads is no boundary output; on the CPU
  backend nothing writes an output's dma-buf.
- `SharedPlan` there with `rows`, `fp16` or `fds` set to `{y}`: the CPU node behind the output computes
  from one row of it, from half-precision bytes, or from what an earlier run left on the host.
- Three more with the properties of the run: `TwoNamesPlan` with `ArgMaxIsCurrent` (two buckets reduce an
  output of one name: `readOutputArgMax` answers from the first registration, whichever bucket ran),
  `RowFdPlan` with `ResultsAreCurrent` (an output with a row selection is bound to a dma-buf: the shape
  returned is one row's, `session.cpp:2303-2318`, while the descriptor holds all rows), `LinkedMaxPlan`
  with `ArgMaxIsCurrent` (a linked output that is not flat is registered for an argmax: it is reduced on
  the host copy, which a linked output does not have).
- Three plans of `MCResidency` with a property each, in a `Residency` configuration: `LateLinkPlan` with
  `ResidentIsCurrent` (an output linked after a run has been moved to the caller), `RefusedPlan` with
  the PROPERTY `RefusedRunKeepsState` (a run refused half way has cleared a linked input's host copy),
  `FailedPlan` with `ResidentIsOfLastRun` (a thrown run leaves a linked output of a run that never completed).
- `Quick = {"restart"}` or `{"download"}` in `AppResidency`: an activity finished while a load runs or
  two loads wait, or a model downloaded again while its load goes on; both let two sessions exist.
- `Quick = {"delete"}` there, with `ScreenIsTrue`: a variant is deleted, another chosen and deleted before
  the presence collector runs, whose `combine` and `distinctUntilChanged` (`ChatViewModel.kt:85-88`) then
  see no change; or a load fails after another variant was chosen and deleted, and its catch shows the state
  of the variant it was for (199). The screen offers a model that is not on the device.
- `Corners = {"late"}` in `ChatDecodeReseed`: a verification that fails after its forward has replaced
  the rows still to be read back.
- `MayResetInCall = FALSE` in `KvBridgeReset` with `Failures = {"link-seed"}`, `{"step-seed"}`, or
  `{"pass-later"}`, the last with `PositionsAgree` and `Windows = {1}`: a link update that fails while the
  cache is about to be seeded reads the old resident cache back over the host's (`vknn_jni.cpp:310`); a
  step refused at that moment; a prefill that fails behind others of its prompt.

Seen while reading, outside what is modelled: the passes over dropout, batch norm and activations
rename graph outputs, though `eliminate_identity.cpp:9-11` says callers address outputs by their
declared name.

A passing run excludes such a case by a constant (`Corners`, `ViewFallback`, `lateLinks`, `Quick`,
`Failures`, `MayResetInCall`, `AllocFails`, `MayTap`, `MayShare`, `MayGateTwice`, `MayMoveIndex`, the choice
of graph or of node kinds) or by a named condition of the property (`Covered`, `Undisturbed`), never
silently. The comment on `runShapeKey` (`session_class.h:298-302`) says that `run()` evaluates it
per candidate bucket; where all buckets have the same inputs it evaluates it once, on the first
(`session.cpp:2024-2034`). One comment is wrong without consequence for the stream: at full acceptance
the draft has not been fed the last accepted token (`chat.cpp`, "The draft fed every committed token
in this round").

## 7. Plan

Done: the core (`WorkerPool`, `SegmentRecording`, `SegmentBarriers` with proofs), the memory plan, the
residency of a session and its shape buckets, the chat driver, the application's slot, the JNI bridge,
the main line of the importer, the storage plan and the folds at load. Left, in order of importance:

1. Node assignment, island folding and the segment cut, behind the storage plan of `Import`.
2. Further passes: norms, einsum, constant folding.
3. `GreedyDecode`, the plain loop as an abstract specification implemented by `ChatDecode`.
4. `CacheFile`: load, merge, rename of the tuning cache with crashes and two processes.
5. Proofs: the routing part of `SegmentPlan`; that the sessions outside `Supported` keep `TypeOK`.
