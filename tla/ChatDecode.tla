----------------------------- MODULE ChatDecode -----------------------------
(***************************************************************************)
(* The decoding driver of examples/llm/chat.cpp with the rules it takes    *)
(* from vknn/spec_decode.h and vknn/io_link.h: the turns of one            *)
(* conversation, prefilled whole-window, in resident chunks or token by    *)
(* token, and decoded step by step, in device chains or in speculative     *)
(* rounds, over key/value caches in the host and in each plan bucket.      *)
(*                                                                         *)
(* The model weights are abstracted to what greedy decoding depends on.    *)
(* The row of a cache slot is n when it was computed for the n-th token of *)
(* the conversation over exactly the n - 1 rows before it, and 0 when it   *)
(* is anything else.  A token the target chooses is [of, eos]: of is the   *)
(* number of conversation tokens its forward had seen, 0 when it had seen  *)
(* something else; whether it is the end of stream is a free choice.       *)
(***************************************************************************)
EXTENDS Integers, Sequences, FiniteSetsExt

CONSTANTS
  C,             \* slots of the compiled cache
  MaxTokens,     \* tokens a turn may generate
  Drafts,        \* kSpecDraftTokens
  ChainSteps,    \* --chain
  PrefillS,      \* the window of the whole-window bucket
  ChunkS,        \* the window of the chunk bucket
  MaxPrompt,     \* the longest prompt to try
  MaxTurns,      \* turns in a conversation
  Corners        \* cases to include that the code mishandles: see BeginTurn, ChainFails, VerifyFails

ASSUME ChatDecodeAssumption ==
  /\ C \in Nat \ {0} /\ MaxTokens \in Nat \ {0} /\ Drafts \in Nat \ {0} /\ ChainSteps \in Nat \ {0, 1}
  /\ PrefillS \in Nat \ {0, 1} /\ ChunkS \in Nat \ {0, 1} /\ MaxPrompt \in Nat \ {0}
  /\ MaxTurns \in Nat /\ Corners \subseteq {"edge", "reseed", "late"}

VARIABLES
  mode,          \* "plain", "chain" (chainActive) or "spec" (specActive)
  prefill,       \* prefillBucket >= 0
  chunk,         \* chunkBucket >= 0
  kvLink,        \* the decode cache is engine-resident; FALSE: the host loop
  host,          \* the host past buffers
  decode,        \* the decode bucket: [past, present], its resident cache and its last row
  wide,          \* the chunk or verification bucket: [past, present], present a sequence of rows
  prev,          \* the rows of the last wide pass still to fold: [slot, rows]; rows = 0 before the first
  p,             \* absolute position across the conversation
  residentDirty, reseedCache, pendingResidentFold,
  pc,            \* where the turn is
  prompt,        \* the length of the turn's prompt
  consumed,      \* prompt tokens fed so far
  next,          \* the target's last choice, not yet fed
  generated,     \* as the code counts it
  turn,          \* turns begun
  \* What the plain loop is compared with: the tokens of the conversation, those of the turn
  \* printed so far, and the token that ended the turn early.
  fed, stream, ended

driver == <<mode, prefill, chunk, turn>>
caches == <<host, decode, wide, prev>>
flags  == <<residentDirty, reseedCache, pendingResidentFold>>
ghosts == <<fed, stream, ended>>
vars   == <<driver, kvLink, caches, p, flags, pc, prompt, consumed, next, generated, ghosts>>

MaxLen   == MaxTurns * (MaxPrompt + MaxTokens)
Slots    == 0 .. C - 1
Cache    == [Slots -> 0 .. MaxLen]
Token    == [of : 0 .. MaxLen, eos : BOOLEAN]
NoToken  == [of |-> 0, eos |-> FALSE]
Empty    == [j \in Slots |-> 0]
NonePrev == [slot |-> -1, rows |-> 0]
Smaller(a, b) == Min({a, b})

-----------------------------------------------------------------------------
\* Caches and forwards.

\* The slot a step at position n folds the row before it into.
kvFoldSlot(n) == IF n <= 0 THEN -1 ELSE Smaller(n - 1, C - 1)

\* cache with rows from slot on; no rows are folded at slot -1.
FoldRows(cache, slot, rows) ==
  [j \in Slots |-> IF slot >= 0 /\ j - slot + 1 \in DOMAIN rows THEN rows[j - slot + 1] ELSE cache[j]]
Fold(cache, slot, row) == FoldRows(cache, slot, <<row>>)

\* What a forward at position n attends is what the plain loop has there after n tokens: each
\* row in its slot, and past the context edge the newest row in the last slot.
Exact(cache, n) == \A j \in 0 .. Smaller(n, C) - 1 : cache[j] = IF j < C - 1 THEN j + 1 ELSE n

\* The row of, and the choice after, the token at position n of the conversation.
RowAt(cache, n)  == IF Exact(cache, n) THEN n + 1 ELSE 0
StepChoices(cache, n) == {[of |-> RowAt(cache, n), eos |-> e] : e \in BOOLEAN}

\* The last decode run's row is still to be folded.
PendingSlot == IF pendingResidentFold THEN kvFoldSlot(p) ELSE -1
\* syncResidentToHost: the resident rows and the pending one.
Resident == Fold(decode.past, PendingSlot, decode.present)

Init ==
  /\ kvLink \in BOOLEAN /\ prefill \in BOOLEAN /\ chunk \in (IF kvLink THEN BOOLEAN ELSE {FALSE})
  /\ mode \in (IF kvLink THEN {"plain", "chain", "spec"} ELSE {"plain"})
  /\ host = Empty /\ decode = [past |-> Empty, present |-> 0]
  /\ wide = [past |-> Empty, present |-> <<>>] /\ prev = NonePrev
  /\ p = 0 /\ fed = 0 /\ turn = 0 /\ consumed = 0 /\ prompt = 0 /\ generated = 0
  /\ residentDirty = FALSE /\ reseedCache = FALSE /\ pendingResidentFold = TRUE
  /\ pc = "idle" /\ next = NoToken /\ stream = <<>> /\ ended = NoToken

\* step(): one token at p, on the resident cache, on the host cache after a refused link update,
\* or on the host cache.  A range list that is empty is never refused.
LinkedStep ==
  LET past == IF reseedCache THEN host ELSE Resident
  IN  /\ kvLink
      /\ decode' = [past |-> past, present |-> RowAt(past, p)]
      /\ next' \in StepChoices(past, p)
      /\ residentDirty' = TRUE /\ reseedCache' = FALSE /\ pendingResidentFold' = TRUE
      /\ UNCHANGED <<kvLink, host>>
HostStep(past) ==
  /\ host' = Fold(past, Smaller(p, C - 1), RowAt(past, p))
  /\ next' \in StepChoices(past, p)
  /\ kvLink' = FALSE
  /\ UNCHANGED <<decode, flags>>
Step ==
  /\ p' = p + 1
  /\ \/ LinkedStep
     \/ kvLink /\ ~reseedCache /\ PendingSlot >= 0 /\ HostStep(Resident)
     \/ ~kvLink /\ HostStep(host)

\* A token of the target is printed.
Emit(tokens) == stream' = stream \o tokens /\ fed' = fed + Len(tokens)

-----------------------------------------------------------------------------
\* The prompt.

\* A batched pass over cache: the rows of n of its w columns, whose tokens are the conversation's.
Rows(cache, n, w) == [t \in 1 .. w |-> IF t <= n /\ Exact(cache, p) THEN p + t ELSE 0]
WideChoices(cache, n) == {[of |-> IF Exact(cache, p) THEN p + n ELSE 0, eos |-> e] : e \in BOOLEAN}
\* The cache of the bucket of the pass: bound from the host, or the resident one with the rows of
\* the pass before folded in.
WidePast == IF prev.rows = 0 THEN host ELSE FoldRows(wide.past, prev.slot, SubSeq(wide.present, 1, prev.rows))

\* A line of prompt ids arrives.  In the corner "edge" the first batched window may not fit below
\* the context edge although the resident cache still has to be seeded from the host.
BeginTurn(n) ==
  LET chunked == chunk /\ kvLink /\ ~(prefill /\ n <= PrefillS)
  IN  /\ pc = "idle" /\ turn < MaxTurns
      /\ \/ "edge" \in Corners \/ ~reseedCache \/ ~(prefill \/ chunk)
         \/ p + Smaller(n, IF PrefillS > ChunkS THEN PrefillS ELSE ChunkS) <= C
      /\ turn' = turn + 1 /\ prompt' = n /\ fed' = fed + n
      /\ consumed' = 0 /\ generated' = 0 /\ stream' = <<>> /\ ended' = NoToken /\ prev' = NonePrev
      /\ pc' = IF chunked THEN "chunk" ELSE IF prefill THEN "prefill" ELSE "prompt"
      /\ IF (chunked \/ prefill) /\ kvLink /\ residentDirty
         THEN host' = Resident /\ residentDirty' = FALSE
         ELSE UNCHANGED <<host, residentDirty>>
      /\ UNCHANGED <<mode, prefill, chunk, kvLink, decode, wide, p, reseedCache, pendingResidentFold, next>>

NextWindow(s) == Smaller(prompt - consumed, s)
Fits(s)       == consumed < prompt /\ p + NextWindow(s) <= C

\* runChunk: one pass over the chunk bucket.
ChunkPass ==
  /\ pc = "chunk" /\ Fits(ChunkS)
  /\ wide' = [past |-> WidePast, present |-> Rows(WidePast, NextWindow(ChunkS), ChunkS)]
  /\ next' \in WideChoices(WidePast, NextWindow(ChunkS))
  /\ prev' = [slot |-> p, rows |-> NextWindow(ChunkS)]
  /\ p' = p + NextWindow(ChunkS) /\ consumed' = consumed + NextWindow(ChunkS)
  /\ UNCHANGED <<driver, kvLink, host, decode, flags, pc, prompt, generated, ghosts>>

\* No further chunk fits, or none is left: the cache comes to the host, the decode links back.
ChunkDone ==
  /\ pc = "chunk" /\ ~Fits(ChunkS) /\ pc' = "prompt"
  /\ IF prev.rows > 0
     THEN host' = WidePast /\ kvLink' \in BOOLEAN
     ELSE UNCHANGED <<host, kvLink>>
  /\ reseedCache' = (kvLink' /\ consumed > 0)
  /\ UNCHANGED <<driver, decode, wide, prev, p, residentDirty, pendingResidentFold, prompt, consumed, next,
                 generated, ghosts>>

\* A link, a pass or the read-back failed: the turn starts over without the chunk bucket.  A
\* read-back may have replaced some host tensors by then.
ChunkFails ==
  /\ pc = "chunk" /\ (prev.rows > 0 \/ Fits(ChunkS))
  /\ host' \in {host} \cup (IF prev.rows > 0 /\ ~Fits(ChunkS) THEN {wide.past, WidePast} ELSE {})
  /\ p' = p - consumed /\ consumed' = 0 /\ prev' = NonePrev
  /\ chunk' = FALSE /\ kvLink' \in BOOLEAN
  /\ pc' = IF prefill THEN "prefill" ELSE "prompt"
  /\ UNCHANGED <<mode, prefill, turn, decode, wide, flags, prompt, next, generated, ghosts>>

\* prefillPass: one pass over the whole-window bucket on the host cache.
PrefillPass ==
  /\ pc = "prefill" /\ Fits(PrefillS)
  /\ host' = FoldRows(host, p, Rows(host, NextWindow(PrefillS), NextWindow(PrefillS)))
  /\ next' \in WideChoices(host, NextWindow(PrefillS))
  /\ p' = p + NextWindow(PrefillS) /\ consumed' = consumed + NextWindow(PrefillS)
  /\ UNCHANGED <<driver, kvLink, decode, wide, prev, flags, pc, prompt, generated, ghosts>>

\* MUTANT of PrefillDone: the windows end only with the prompt, not at the context edge.
PrefillDoneWithPrompt ==
  /\ pc = "prefill" /\ consumed = prompt /\ pc' = "prompt"
  /\ reseedCache' = kvLink
  /\ UNCHANGED <<driver, kvLink, caches, p, residentDirty, pendingResidentFold, prompt, consumed, next, generated,
                 ghosts>>

\* No further window fits, or none is left.
PrefillDone ==
  /\ pc = "prefill" /\ ~Fits(PrefillS) /\ pc' = "prompt"
  /\ reseedCache' = (kvLink /\ consumed > 0)
  /\ UNCHANGED <<driver, kvLink, caches, p, residentDirty, pendingResidentFold, prompt, consumed, next, generated,
                 ghosts>>

\* What the batched passes left is fed token by token.
PromptStep ==
  /\ pc = "prompt" /\ consumed < prompt /\ Step /\ consumed' = consumed + 1
  /\ UNCHANGED <<driver, wide, prev, pc, prompt, generated, ghosts>>
PromptDone ==
  /\ pc = "prompt" /\ consumed = prompt
  /\ pc' = IF kvLink /\ mode # "plain" THEN mode ELSE "decode"
  /\ UNCHANGED <<driver, kvLink, caches, p, flags, prompt, consumed, next, generated, ghosts>>

-----------------------------------------------------------------------------
\* Decoding.

EndTurn == pc' = "idle" /\ ended' = IF next.eos THEN next ELSE NoToken

\* The single-step loop.
DecodeStep ==
  /\ pc = "decode" /\ generated < MaxTokens /\ ~next.eos
  /\ Emit(<<next>>) /\ generated' = generated + 1 /\ Step
  /\ UNCHANGED <<driver, wide, prev, pc, prompt, consumed, ended>>
DecodeDone ==
  /\ pc = "decode" /\ (generated >= MaxTokens \/ next.eos) /\ EndTurn
  /\ UNCHANGED <<driver, kvLink, caches, p, flags, prompt, consumed, next, generated, fed, stream>>

\* The length of the next chain: it stays below the context edge and the budget.
ChainIterations ==
  Smaller(IF p < C THEN Smaller(ChainSteps, C - p) ELSE 1, MaxTokens - (generated + 1))

\* The iterations of a chain whose first end of stream is chosen by iteration k.
Chain(k) ==
  LET run[i \in 0 .. ChainIterations - 1] ==
        LET past == IF i > 0 THEN Fold(run[i - 1].past, kvFoldSlot(p + i), run[i - 1].present)
                    ELSE IF reseedCache THEN host ELSE Resident
        IN  [past |-> past, present |-> IF i <= k THEN RowAt(past, p + i) ELSE 0]
  IN  run

\* MUTANT of PendingAfterChain: the row of the last iteration is always the next to fold.
PendingAlways(k, steps) == TRUE

\* After an end of stream in iteration k only the last iteration's row is unfolded and live.
PendingAfterChain(k, steps) == k >= steps - 1

\* A chain of more than one token, or its last token alone.
ChainRun ==
  /\ pc = "chain" /\ generated + 1 < MaxTokens /\ ~next.eos
  /\ \E k \in 0 .. ChainIterations :
       LET steps == ChainIterations
           ids   == [i \in 1 .. steps |-> [of |-> Chain(k)[i - 1].present, eos |-> i = k + 1]]
       IN  /\ decode' = Chain(k)[steps - 1]
           /\ pendingResidentFold' = PendingAfterChain(k, steps)
           /\ Emit(<<next>> \o SubSeq(ids, 1, Smaller(k, steps - 1)))
           /\ generated' = generated + 1 + Smaller(k, steps - 1)
           /\ p' = p + Smaller(k + 1, steps)
           /\ IF k < steps THEN pc' = "idle" /\ ended' = ids[k + 1] /\ UNCHANGED next
                           ELSE next' = ids[steps] /\ UNCHANGED <<pc, ended>>
  /\ residentDirty' = TRUE /\ reseedCache' = FALSE
  /\ UNCHANGED <<driver, kvLink, host, wide, prev, prompt, consumed>>
ChainLast ==
  /\ pc = "chain" /\ generated + 1 = MaxTokens /\ ~next.eos
  /\ Emit(<<next>>) /\ generated' = generated + 1 /\ Step /\ pc' = "idle" /\ ended' = NoToken
  /\ UNCHANGED <<driver, wide, prev, prompt, consumed>>
ChainDone ==
  /\ pc = "chain" /\ next.eos /\ EndTurn
  /\ UNCHANGED <<driver, kvLink, caches, p, flags, prompt, consumed, next, generated, fed, stream>>

\* The update of a chain's ranges is refused: next was printed, and is fed on the host loop.  In
\* the corner "reseed" the chain was to seed the resident cache from the host.
ChainFails ==
  /\ pc = "chain" /\ generated + 1 < MaxTokens /\ ~next.eos
  /\ ChainIterations > 1 \/ (PendingSlot >= 0 /\ ~reseedCache)
  /\ "reseed" \in Corners \/ ~reseedCache
  /\ Emit(<<next>>) /\ generated' = generated + 1
  /\ HostStep(Resident) /\ p' = p + 1 /\ pc' = "decode"
  /\ UNCHANGED <<driver, wide, prev, prompt, consumed, ended>>

-----------------------------------------------------------------------------
\* Speculative decoding.

\* MUTANT of specAcceptedDrafts: every confirmed draft counts, also after a rejected one.
specAcceptedAnywhere(match) == Cardinality({i \in DOMAIN match : match[i]})

\* The longest prefix of the drafts the target confirms; match[i]: draft i is the target's choice.
specAcceptedDrafts(match) == Max({j \in 0 .. Drafts : \A i \in 1 .. j : match[i]})

\* MUTANT of specEmittedCount: only the end of stream is looked for.
specEmittedPastBudget(committed, budget) ==
  Min({Len(committed)} \cup {i - 1 : i \in {n \in DOMAIN committed : committed[n].eos}})

\* The committed tokens a turn prints: up to the first end of stream, within the budget.
specEmittedCount(committed, budget) ==
  LET most == Smaller(Len(committed), budget)
  IN  Min({most} \cup {i - 1 : i \in {n \in 1 .. most : committed[n].eos}})

\* MUTANT of WindowFits: the column of the token the drafts extend is forgotten.
WindowFitsDrafts == p + Drafts <= C

\* A round needs its whole window below the context edge.
WindowFits == p + Drafts + 1 <= C

\* The draft model cannot follow the conversation.
DraftBehind ==
  /\ pc = "spec" /\ pc' = "handoff"
  /\ UNCHANGED <<driver, kvLink, caches, p, flags, prompt, consumed, next, generated, ghosts>>

SyncDecode == host' = IF residentDirty THEN Resident ELSE host

\* The links move to the verification bucket.
SpecBegin ==
  /\ pc = "spec" /\ pc' = "round"
  /\ SyncDecode /\ residentDirty' = FALSE /\ prev' = NonePrev
  /\ UNCHANGED <<driver, kvLink, decode, wide, p, reseedCache, pendingResidentFold, prompt, consumed, next,
                 generated, ghosts>>

\* restoreDecodeLinks: they move back, or the host loop takes over.
RestoreDecodeLinks ==
  /\ kvLink' \in BOOLEAN
  /\ reseedCache' = kvLink' /\ residentDirty' = FALSE /\ pendingResidentFold' = TRUE

SpecLinkFails ==
  /\ pc = "spec" /\ pc' = "handoff"
  /\ SyncDecode /\ RestoreDecodeLinks
  /\ UNCHANGED <<driver, decode, wide, prev, p, prompt, consumed, next, generated, ghosts>>

\* The rows a verification of next and the drafts produces, and the target's choice after each: a
\* column is the conversation's while every draft up to it was confirmed; e is the first end of stream.
Confirmed(match, i)   == Exact(WidePast, p) /\ \A j \in 1 .. i - 1 : match[j]
VerifyRows(match)     == [i \in 1 .. Drafts + 1 |-> IF Confirmed(match, i) THEN p + i ELSE 0]
rowArgMax(match, e)   == [i \in 1 .. Drafts + 1 |-> [of |-> VerifyRows(match)[i], eos |-> i = e]]

\* One round: verify, accept, print, and leave the accepted rows to the next fold.
Round ==
  /\ pc = "round" /\ generated < MaxTokens /\ ~next.eos /\ WindowFits
  /\ \E match \in [1 .. Drafts -> BOOLEAN], e \in 0 .. Drafts + 1 :
       LET target    == rowArgMax(match, e)
           accepted  == specAcceptedDrafts(match)
           committed == <<next>> \o [i \in 1 .. accepted |-> IF match[i] THEN target[i] ELSE NoToken]
           count     == specEmittedCount(committed, MaxTokens - generated)
       IN  /\ wide' = [past |-> WidePast, present |-> VerifyRows(match)]
           /\ Emit(SubSeq(committed, 1, count)) /\ generated' = generated + count
           /\ prev' = [slot |-> p, rows |-> count] /\ p' = p + count
           /\ IF count < Len(committed)
              THEN /\ pc' = "rounded" /\ UNCHANGED next
                   /\ ended' = IF committed[count + 1].eos THEN committed[count + 1] ELSE NoToken
              ELSE next' = target[accepted + 1] /\ UNCHANGED <<pc, ended>>
  /\ UNCHANGED <<driver, kvLink, host, decode, flags, prompt, consumed>>

\* The cache after the last round.  In the corner "late" a later verification failed only after
\* its forward had replaced the rows still to be read back.
RoundCaches ==
  {WidePast} \cup
    IF "late" \in Corners /\ pc = "round" /\ WindowFits
    THEN {FoldRows(WidePast, prev.slot, SubSeq(VerifyRows([i \in 1 .. Drafts |-> TRUE]), 1, prev.rows))}
    ELSE {}

\* The rounds end: the turn is complete, the window no longer fits, or the draft or the
\* verification failed.  The cache comes to the host, the links go back.
RoundsEnd ==
  /\ pc \in {"round", "rounded"}
  /\ IF prev.rows > 0 THEN host' \in RoundCaches ELSE UNCHANGED host
  /\ RestoreDecodeLinks
  /\ IF pc = "rounded" \/ generated >= MaxTokens \/ next.eos
     THEN pc' = "idle" /\ ended' = IF pc = "round" /\ next.eos THEN next ELSE ended
     ELSE pc' = "handoff" /\ UNCHANGED ended
  /\ UNCHANGED <<driver, decode, wide, prev, p, prompt, consumed, next, generated, fed, stream>>

\* The pending token goes to the single-step loop.
Handoff ==
  /\ pc = "handoff" /\ generated < MaxTokens /\ ~next.eos /\ pc' = "decode"
  /\ Emit(<<next>>) /\ generated' = generated + 1 /\ Step
  /\ UNCHANGED <<driver, wide, prev, prompt, consumed, ended>>
HandoffDone ==
  /\ pc = "handoff" /\ (generated >= MaxTokens \/ next.eos) /\ EndTurn
  /\ UNCHANGED <<driver, kvLink, caches, p, flags, prompt, consumed, next, generated, fed, stream>>

Next ==
  \/ \E n \in 1 .. MaxPrompt : BeginTurn(n)
  \/ ChunkPass \/ ChunkDone \/ ChunkFails \/ PrefillPass \/ PrefillDone \/ PromptStep \/ PromptDone
  \/ DecodeStep \/ DecodeDone \/ ChainRun \/ ChainLast \/ ChainDone \/ ChainFails
  \/ DraftBehind \/ SpecBegin \/ SpecLinkFails \/ Round \/ RoundsEnd \/ Handoff \/ HandoffDone

\* The driver is one thread: while a turn runs, something is always next.
Spec == Init /\ [][Next]_vars /\ WF_vars(Next)

-----------------------------------------------------------------------------
\* Every variable has its type, and the rows still to fold lie inside the cache.
TypeOK ==
  /\ mode \in {"plain", "chain", "spec"} /\ prefill \in BOOLEAN /\ chunk \in BOOLEAN /\ kvLink \in BOOLEAN
  /\ host \in Cache /\ decode \in [past : Cache, present : 0 .. MaxLen]
  /\ wide.past \in Cache /\ wide.present \in Seq(0 .. MaxLen + Drafts)
  /\ prev.slot \in -1 .. C - 1 /\ prev.rows \in 0 .. C - prev.slot
  /\ p \in 0 .. MaxLen /\ residentDirty \in BOOLEAN /\ reseedCache \in BOOLEAN /\ pendingResidentFold \in BOOLEAN
  /\ pc \in {"idle", "chunk", "prefill", "prompt", "decode", "chain", "spec", "round", "rounded", "handoff"}
  /\ prompt \in 0 .. MaxPrompt /\ consumed \in 0 .. prompt /\ next \in Token /\ generated \in 0 .. MaxTokens
  /\ turn \in 0 .. MaxTurns /\ fed \in 0 .. MaxLen /\ stream \in Seq(Token) /\ ended \in Token

\* However a turn was prefilled and decoded, and whatever failed on the way, it prints what one
\* step per token prints: each token is the target's choice after exactly the tokens before it,
\* and never an end of stream.
StreamIsGreedy == \A i \in DOMAIN stream : stream[i] = [of |-> fed - Len(stream) + i - 1, eos |-> FALSE]

\* The cache the next step will use holds the conversation: its rows are those of the tokens fed,
\* each over exactly the rows before it, wherever the cache lives at that point.
CacheIsConversation ==
  CASE pc \in {"idle", "prompt", "decode", "chain", "spec", "handoff"} ->
         Exact(IF kvLink /\ ~reseedCache THEN Resident ELSE host, p)
    [] pc = "prefill" -> Exact(host, p)
    [] pc = "chunk"   -> Exact(host, p - consumed) /\ Exact(WidePast, p)
    [] OTHER          -> Exact(WidePast, p)

\* A turn stops where the plain loop stops: at the budget, or before the first end of stream the
\* target chooses after exactly the tokens fed.
TurnStops ==
  /\ Len(stream) <= MaxTokens
  /\ pc = "idle" /\ turn > 0 =>
       /\ p = fed
       /\ Len(stream) = MaxTokens \/ ended = [of |-> fed, eos |-> TRUE]

\* A turn that begins comes to its end, whatever fails.
TurnCompletes == pc # "idle" ~> pc = "idle"
=============================================================================
