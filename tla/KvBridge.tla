------------------------------ MODULE KvBridge ------------------------------
(***************************************************************************)
(* The decoders behind the Android application (app-demo/native/           *)
(* vknn_jni.cpp, Decoder and Vlm) and the turns that drive them            *)
(* (ChatViewModel.send, VlmViewModel.onCapture).  The past of a            *)
(* conversation is in the host's past buffers or, while the links of the   *)
(* decode bucket stand, in the engine's resident inputs and the present    *)
(* row of the last run.                                                    *)
(*                                                                         *)
(* The row of a cache slot is n when it was computed for the n-th token    *)
(* over exactly the rows before it, otherwise 0: zeros, or what another    *)
(* conversation left.  A native call is one action, a prompt one per       *)
(* forward.  Nothing locks the decoder: the reset button is never disabled *)
(* and its call runs on the main thread, between two calls of a running    *)
(* turn or inside one.                                                     *)
(***************************************************************************)
EXTENDS Integers, Sequences

CONSTANTS
  Drivers,    \* of "chat" (Decoder) and "vlm" (Vlm)
  C,          \* the slots of the cache
  Windows,    \* the widths a prefill bucket may have, 0 for no bucket
  Prompts,    \* the lengths of prompts
  MaxNew,     \* how many tokens a reply may have
  MaxTurns,
  MayResetInCall, \* the reset button may take effect inside a native call of a turn, or between
              \* the call and the statement that counts its tokens
  Failures    \* what may fail: "link", an update of the ranges; "read", readResident; "pass", a
              \* prefill; "step", a decode run that is refused; and, in the chat, "link-seed" and
              \* "step-seed", the same while the cache is about to be seeded, and "pass-later", a
              \* prefill after others of its prompt

ASSUME KvBridgeAssumption ==
  /\ Drivers \subseteq {"chat", "vlm"} /\ C \in Nat \ {0, 1} /\ Windows \subseteq Nat
  /\ Prompts \subseteq Nat \ {0} /\ MaxNew \in Nat /\ MaxTurns \in Nat
  /\ MayResetInCall \in BOOLEAN
  /\ Failures \subseteq {"link", "read", "pass", "step", "link-seed", "step-seed", "pass-later"}

VARIABLES
  driver,
  prefillS,                   \* the window of the prefill bucket
  argMaxEngaged,
  host, device, row,          \* the past buffers, the resident inputs, and the last present row
  linked,                     \* kvLinked, decodeLinked
  rebindPastNextStep,
  ahead,                      \* residentDirty, cacheOnDevice
  pendingSlot,                \* of the Vlm
  p,
  logits, logitsValid,        \* the token of the stored row
  lastFromDecode, decoded,    \* and the token of the last decode run's logits
  phase, left, fed,           \* where the turn is: tokens to feed, and fed by this prompt
  position, gen, turns        \* what the view model counts

engine == <<device, row, decoded>>
cache  == <<host, linked, rebindPastNextStep, ahead, pendingSlot>>
result == <<logits, logitsValid, lastFromDecode>>
turn   == <<phase, left, fed, position, gen, turns>>
setup  == <<driver, prefillS, argMaxEngaged>>
vars == <<setup, engine, cache, p, result, turn>>

Slots  == 0 .. C - 1
Zeros  == [s \in Slots |-> 0]
Least(a, b) == IF a < b THEN a ELSE b

\* The row of a token computed at position n over a cache: its mask shows the slots below n.
RowOver(c, n) == IF \A s \in Slots : s < n => c[s] = s + 1 THEN n + 1 ELSE 0
\* A cache after rows r of tokens n + 1 .. n + len were folded into it.
Folded(c, n, len, r) == [s \in Slots |-> IF s \in n .. n + len - 1 THEN (IF r = 0 THEN 0 ELSE s + 1) ELSE c[s]]

\* nativeInit and nativeVlmInit, and the reset that follows: the buckets and what the session grants.
Init ==
  /\ driver \in Drivers
  /\ prefillS \in IF driver = "vlm" THEN Windows \ {0} ELSE Windows
  /\ argMaxEngaged \in IF driver = "vlm" THEN {FALSE} ELSE BOOLEAN
  /\ linked \in BOOLEAN /\ rebindPastNextStep = linked
  /\ host = Zeros /\ device = Zeros /\ row = 0 /\ decoded = 0
  /\ ahead = FALSE /\ pendingSlot = -1 /\ p = 0
  /\ logits = 0 /\ logitsValid = FALSE /\ lastFromDecode = FALSE
  /\ phase = "idle" /\ left = 0 /\ fed = 0 /\ position = 0 /\ gen = 0 /\ turns = 0

-----------------------------------------------------------------------------
\* The slot the engine folds the last present row into at the start of the next run, -1 for none.
NextFold == IF driver = "vlm" THEN pendingSlot ELSE Least(p - 1, C - 1)

\* The engine's cache with its pending fold: resyncHostCache and materializeDeviceCache.
Resident == [s \in Slots |-> IF s = NextFold THEN row ELSE device[s]]

\* nativeReset, nativeVlmReset: rows of the conversation that ends are of no use to the next.
Reset ==
  /\ p' = 0 /\ host' = Zeros
  /\ device' = Zeros /\ row' = 0
  /\ rebindPastNextStep' = linked /\ ahead' = FALSE
  /\ pendingSlot' = IF driver = "vlm" THEN -1 ELSE pendingSlot
  /\ logitsValid' = (driver = "vlm" /\ logitsValid) /\ logits' = 0
  /\ lastFromDecode' = FALSE /\ decoded' = 0
  /\ UNCHANGED <<setup, linked>>

\* MUTANT of TooLong: no slot is kept for the reply.
TooLongByOne == p + left > C

\* prefill refuses a prompt that leaves no slot for the reply.
TooLong == p + left > C - 1

\* prefill's first statement with a bucket: the resident cache comes back to the host, once.
MustResync == linked /\ ahead /\ fed = 0 /\ prefillS > 0

\* The reset lands inside a forward, which has read the position and the past of the conversation that
\* ends; its last statements, and the count of its tokens, come after those of the reset.  Of the race
\* on the buffers this is one outcome, enough to show that the reset is lost.
ResetInForward ==
  LET len   == IF prefillS > 0 THEN Least(left, prefillS) ELSE 1
      first == IF p = 0 THEN 1 ELSE 0
  IN  /\ UNCHANGED <<setup, linked, pendingSlot>> /\ device' = Zeros
      /\ \/ /\ phase = "prefill" /\ left > 0 /\ prefillS > 0 /\ ~MustResync /\ (fed = 0 => ~TooLong)
            /\ host' = Folded(Zeros, 0, len, first) /\ row' = 0 /\ decoded' = 0
            /\ rebindPastNextStep' = linked /\ ahead' = FALSE
            /\ logits' = first * len /\ logitsValid' = TRUE /\ lastFromDecode' = FALSE
         \/ /\ \/ phase = "step" /\ gen < MaxNew /\ position < C - 1
               \/ phase = "prefill" /\ left > 0 /\ prefillS = 0 /\ (fed = 0 => ~TooLong)
            /\ host' = (IF linked THEN Zeros ELSE [Zeros EXCEPT ![0] = first])
            /\ row' = first /\ decoded' = row'
            /\ rebindPastNextStep' = FALSE /\ ahead' = linked
            /\ logits' = (IF argMaxEngaged THEN 0 ELSE row') /\ logitsValid' = ~argMaxEngaged
            /\ lastFromDecode' = TRUE
      /\ p' = len
      /\ IF phase = "step" THEN /\ phase' = "sample" /\ gen' = gen + 1 /\ position' \in {0, 1}
                              /\ UNCHANGED <<left, fed>>
         ELSE /\ left' = left - len /\ fed' = fed + len /\ position' = 0 /\ UNCHANGED <<phase, gen>>

\* Between two native calls: before the first forward of a prompt, or where a reply samples and steps.
BetweenCalls == phase = "prefill" => fed = 0

\* The reset button.
ResetPressed ==
  /\ driver = "chat" /\ turns < MaxTurns /\ turns' = turns + 1
  /\ \/ /\ BetweenCalls \/ MayResetInCall
        /\ Reset /\ position' = 0 /\ UNCHANGED <<phase, left, fed, gen>>
     \/ MayResetInCall /\ ResetInForward

\* A turn of n tokens starts: on a cleared cache when it is a templated message or a photo.
BeginTurn(n, clear) ==
  /\ phase = "idle" /\ turns < MaxTurns
  /\ driver = "vlm" => clear /\ n <= prefillS
  /\ turns' = turns + 1 /\ gen' = 0 /\ fed' = 0 /\ left' = n
  /\ \/ clear /\ Reset /\ position' = 0 /\ phase' = "prefill"
     \/ ~clear /\ phase' = "prefill" /\ UNCHANGED <<setup, engine, cache, p, result, position>>

EndTurn == phase' = "idle" /\ left' = 0 /\ fed' = 0 /\ UNCHANGED turns

\* prefill returns -2.
PromptRefused ==
  /\ phase = "prefill" /\ fed = 0 /\ TooLong
  /\ EndTurn /\ UNCHANGED <<setup, engine, cache, p, result, position, gen>>

\* Two copies of which some tensors come from the one and some from the other.
Torn(a, b) == [s \in Slots |-> IF a[s] = b[s] THEN a[s] ELSE 0]

\* A resync that fails part-way: some tensors of the host's past are the engine's already, and the
\* last one of them may lack its pending row.
ResyncTorn ==
  /\ "read" \in Failures
  /\ \E a, b \in {host, Resident}, c \in {host, device} : host' = Torn(Torn(a, b), c)

\* Resynced, or the prompt ends there.
Resync ==
  /\ phase = "prefill" /\ ~TooLong /\ MustResync
  /\ \/ /\ host' = Resident /\ ahead' = FALSE
        /\ rebindPastNextStep' = (rebindPastNextStep \/ driver = "vlm")
        /\ pendingSlot' = IF driver = "vlm" THEN -1 ELSE pendingSlot
        /\ UNCHANGED <<setup, engine, linked, p, result, turn>>
     \/ /\ ResyncTorn /\ EndTurn
        /\ UNCHANGED <<setup, engine, linked, rebindPastNextStep, ahead, pendingSlot, p, result, position, gen>>

\* MUTANT of PrefillPass: its logits are taken for a decode's.
PrefillPassAsDecode ==
  LET len == Least(left, prefillS)
      r   == RowOver(host, p)
  IN  /\ phase = "prefill" /\ left > 0 /\ (fed = 0 => ~TooLong) /\ prefillS > 0 /\ ~MustResync
      /\ host' = Folded(host, p, len, r) /\ p' = p + len
      /\ logits' = (IF r = 0 THEN 0 ELSE p + len) /\ logitsValid' = TRUE
      /\ left' = left - len /\ fed' = fed + len
      /\ UNCHANGED <<setup, engine, linked, rebindPastNextStep, ahead, pendingSlot, lastFromDecode, phase,
                     position, gen, turns>>

\* prefillPass: a forward over the host's past; its rows are folded into the host's past.
PrefillPass ==
  LET len == Least(left, prefillS)
      r   == RowOver(host, p)
  IN  /\ phase = "prefill" /\ left > 0 /\ (fed = 0 => ~TooLong) /\ prefillS > 0 /\ ~MustResync
      /\ \/ /\ host' = Folded(host, p, len, r) /\ p' = p + len
            /\ logits' = (IF r = 0 THEN 0 ELSE p + len) /\ logitsValid' = TRUE /\ lastFromDecode' = FALSE
            /\ left' = left - len /\ fed' = fed + len
            /\ UNCHANGED <<setup, engine, linked, rebindPastNextStep, ahead, pendingSlot, phase, position,
                           gen, turns>>
         \/ /\ (IF fed = 0 THEN "pass" ELSE "pass-later") \in Failures
            /\ EndTurn /\ UNCHANGED <<setup, engine, cache, p, result, position, gen>>

\* MUTANT of PromptFed: the next step does not seed the cache.
PromptFedNoSeed ==
  /\ phase = "prefill" /\ left = 0 /\ position' = position + fed /\ phase' = "sample"
  /\ UNCHANGED <<setup, engine, cache, p, result, left, fed, gen, turns>>

\* The end of prefill and of the view model's call to it: the next step seeds the cache anew.
PromptFed ==
  /\ phase = "prefill" /\ left = 0
  /\ rebindPastNextStep' = IF driver = "chat" /\ prefillS > 0 THEN linked ELSE rebindPastNextStep
  /\ position' = position + fed
  /\ phase' = "sample"
  /\ UNCHANGED <<setup, engine, host, linked, ahead, pendingSlot, p, result, left, fed, gen, turns>>

-----------------------------------------------------------------------------
\* step.  What each kind of run does to the engine, the cache and the result.

Rebinds == rebindPastNextStep \/ (driver = "vlm" /\ ~ahead)

\* A run with the links: the pending fold or the bound past, then the forward.
LinkedRun ==
  LET seen == IF Rebinds THEN host ELSE IF p = 0 THEN device ELSE Resident
      r    == RowOver(seen, p)
  IN  /\ linked
      /\ device' = seen /\ row' = r /\ decoded' = r
      /\ rebindPastNextStep' = FALSE /\ ahead' = TRUE
      /\ pendingSlot' = IF driver = "vlm" THEN Least(p, C - 1) ELSE pendingSlot
      /\ UNCHANGED <<host, linked>>

\* A run on the host's past, which then takes the row.
HostRun(past) ==
  LET r == RowOver(past, p)
  IN  /\ host' = [past EXCEPT ![Least(p, C - 1)] = r]
      /\ row' = r /\ decoded' = r

\* The ranges cannot be updated.  In the chat, where the cache waits to be seeded, the resident one is
\* read back all the same.
LinksFail == linked /\ (IF driver = "chat" /\ rebindPastNextStep THEN "link-seed" ELSE "link") \in Failures
Reads     == driver = "chat" \/ ahead

\* The resident cache comes back to the host and the links are dropped for good.
Unlink ==
  /\ LinksFail /\ linked' = FALSE /\ ahead' = FALSE /\ rebindPastNextStep' = FALSE
  /\ pendingSlot' = IF driver = "vlm" /\ ahead THEN -1 ELSE pendingSlot
  /\ UNCHANGED device
Regained == IF Reads THEN Resident ELSE host

\* A forward over one token: the logits row, or only its argmax, is there to sample.
Forward ==
  /\ \/ LinkedRun
     \/ ~linked /\ HostRun(host) /\ UNCHANGED <<device, linked, rebindPastNextStep, ahead, pendingSlot>>
     \/ Unlink /\ HostRun(Regained)
  /\ logitsValid' = ~argMaxEngaged
  /\ logits' = IF argMaxEngaged THEN logits ELSE decoded'
  /\ lastFromDecode' = TRUE /\ p' = p + 1
  /\ UNCHANGED setup

\* A step that fails: the run is refused, with the links, without them or after they were dropped, or
\* the links fail and the resident cache cannot be read.
Fails ==
  \/ /\ (IF driver = "chat" /\ linked /\ rebindPastNextStep THEN "step-seed" ELSE "step") \in Failures
     /\ rebindPastNextStep' = (driver = "vlm" /\ rebindPastNextStep)
     /\ ahead' = (ahead \/ (driver = "chat" /\ linked))
     /\ UNCHANGED <<setup, engine, host, linked, pendingSlot, p, result>>
  \/ /\ "step" \in Failures /\ Unlink /\ host' = Regained
     /\ UNCHANGED <<setup, row, decoded, p, result>>
  \/ /\ LinksFail /\ Reads /\ ResyncTorn
     /\ UNCHANGED <<setup, engine, linked, rebindPastNextStep, ahead, pendingSlot, p, result>>

\* Without a prefill bucket the prompt is fed by steps.
PromptStep ==
  /\ phase = "prefill" /\ left > 0 /\ (fed = 0 => ~TooLong) /\ prefillS = 0
  /\ \/ Forward /\ left' = left - 1 /\ fed' = fed + 1 /\ UNCHANGED <<phase, position, gen, turns>>
     \/ Fails /\ (fed > 0 => "pass-later" \in Failures) /\ EndTurn /\ UNCHANGED <<position, gen>>

\* The token whose logits sample() would read, if there is one: -1 ends the reply.
Sampleable == IF argMaxEngaged /\ lastFromDecode THEN decoded ELSE IF logitsValid THEN logits ELSE 0
CanSample  == (argMaxEngaged /\ lastFromDecode) \/ logitsValid
Sampled ==
  /\ phase = "sample"
  /\ \/ CanSample /\ phase' = "step" /\ UNCHANGED <<left, fed, turns>>
     \/ ~CanSample /\ EndTurn
  /\ UNCHANGED <<setup, engine, cache, p, result, position, gen>>

\* The reply: the sampled token is fed, unless it ends the reply or there is no room.
Step ==
  /\ phase = "step"
  /\ \/ EndTurn /\ UNCHANGED <<setup, engine, cache, p, result, position, gen>>
     \/ /\ gen < MaxNew /\ position < C - 1 /\ gen' = gen + 1
        /\ \/ /\ driver = "vlm" => p + 1 <= C - 1
              /\ Forward /\ phase' = "sample" /\ position' = position + 1 /\ UNCHANGED <<left, fed, turns>>
           \/ Fails /\ EndTurn /\ UNCHANGED position

Next ==
  \/ ResetPressed \/ \E n \in Prompts, clear \in BOOLEAN : BeginTurn(n, clear)
  \/ PromptRefused \/ Resync \/ PrefillPass \/ PromptFed \/ PromptStep \/ Sampled \/ Step
Spec == Init /\ [][Next]_vars

-----------------------------------------------------------------------------
\* Every variable has its type.
TypeOK ==
  /\ driver \in Drivers /\ prefillS \in Windows /\ argMaxEngaged \in BOOLEAN
  /\ host \in [Slots -> 0 .. C] /\ device \in [Slots -> 0 .. C]
  /\ row \in 0 .. C + 1 /\ decoded \in 0 .. C + 1 /\ logits \in 0 .. C + 1
  /\ linked \in BOOLEAN /\ rebindPastNextStep \in BOOLEAN /\ ahead \in BOOLEAN
  /\ pendingSlot \in -1 .. C - 1 /\ p \in 0 .. C
  /\ logitsValid \in BOOLEAN /\ lastFromDecode \in BOOLEAN
  /\ phase \in {"idle", "prefill", "sample", "step"} /\ left \in Nat /\ fed \in Nat
  /\ position \in 0 .. C /\ gen \in 0 .. MaxNew /\ turns \in 0 .. MaxTurns

\* The copy of the past that the next forward will use, the pending fold included.
Past  == IF linked /\ ahead THEN Resident ELSE host
\* It holds the first n tokens of the conversation.
Holds(n) == \A s \in Slots : s < n => Past[s] = s + 1
\* Whichever copy is the current one, it holds a row for every token fed: a switch between the host
\* and the engine (a prompt, a reset, a lost link) neither drops nor repeats one (vknn_jni.cpp:306-308
\* "same tokens, no lost state").
CacheIsConversation == Holds(p)

\* The view model and the decoder agree how long the conversation is, and it never outgrows the cache:
\* the one guards the context edge for the other.
PositionsAgree == (phase # "prefill" => position = p) /\ p < C

\* A decoder is a conversation: each call appends its tokens, clears it or changes nothing, and what
\* sample() reads is the last token's logits, be they a prefill's, a decode's or the device's argmax.
Conversation == INSTANCE KvConversation WITH
  Room <- C - 1, tokens <- IF Holds(p) THEN p ELSE 0, readable <- Sampleable
ImplementsConversation == Conversation!Spec
=============================================================================
