-------------------------- MODULE ChatDecodeProofs ---------------------------
(***************************************************************************)
(* Proofs about ChatDecode, for every length of the cache, of the windows, *)
(* the drafts, the chains, the prompts and the conversation, outside the   *)
(* corners the code mishandles (Corners = {}; the run chat_stale_reseed    *)
(* shows one of them).                                                     *)
(*                                                                         *)
(* The argument: at every point of a turn one copy of the past is the      *)
(* conversation's (Placed), and reseedCache, residentDirty, kvLink and     *)
(* prev say which.  A step, a window, a chain or a round that runs on that *)
(* copy computes the rows of the tokens it is fed, so the copy it leaves   *)
(* is the longer conversation's (FoldExact, FoldRowsExact); the iterations *)
(* of a chain after an end of stream and the columns after a rejected      *)
(* draft only write behind it (FoldBehind).  Each change of hands (seed,   *)
(* read-back, lost link) reads the current copy.                           *)
(*                                                                         *)
(* A chain is a recursive function.  Its iterations are shown right by     *)
(* induction in the form of a least counterexample (LeastNat).             *)
(***************************************************************************)
EXTENDS ChatDecode, TLAPS, WellFoundedInduction

\* Where the phases of a turn are.
Prompting == pc \in {"chunk", "prefill", "prompt"}
Stepping  == pc \in {"idle", "prompt", "decode", "chain", "spec", "handoff"}
Rounds    == pc \in {"round", "rounded"}
Chosen    == pc \in {"decode", "chain", "spec", "round", "handoff"} \/ (Prompting /\ consumed > 0)

\* Where the conversation stands: the position, the choice that waits, and what the turn printed.
Position ==
  /\ p = IF Prompting THEN fed - (prompt - consumed) ELSE fed
  /\ pc # "idle" => prompt > 0 /\ turn > 0
  /\ Prompting => generated = 0 /\ prompt <= fed
  /\ Chosen => next.of = p
  /\ Len(stream) = generated
  /\ IF turn = 0 THEN fed = 0
     ELSE fed + (MaxPrompt - prompt) + (MaxTokens - generated) <= turn * (MaxPrompt + MaxTokens)

Over == Len(stream) = MaxTokens \/ ended = [of |-> fed, eos |-> TRUE]
Stopped == (pc = "idle" /\ turn > 0) \/ pc = "rounded" => Over

\* The resident rows and the pending one, when the conversation was n tokens long.
ResidentAt(n) == Fold(decode.past, IF pendingResidentFold THEN kvFoldSlot(n) ELSE -1, decode.present)
Begin == p - consumed
MaxWindow == IF PrefillS > ChunkS THEN PrefillS ELSE ChunkS

\* The rows of the last wide pass that are still to fold, right below the position.
Kept ==
  prev.rows > 0 =>
    /\ prev.slot + prev.rows = p /\ prev.slot >= 0 /\ p <= C /\ prev.rows <= Len(wide.present)
    /\ \A t \in 1 .. prev.rows : wide.present[t] = prev.slot + t

\* Which of the three copies of the past is the conversation.
Stepped ==
  /\ ~(kvLink /\ residentDirty) => Exact(host, p)
  /\ kvLink /\ ~reseedCache => Exact(ResidentAt(p), p)
  /\ ~(kvLink /\ residentDirty /\ reseedCache)
Batched ==
  /\ ~(kvLink /\ residentDirty)
  /\ kvLink /\ reseedCache => Begin + Smaller(prompt, MaxWindow) <= C
  /\ consumed > 0 => p <= C
Prefilled ==
  /\ Batched /\ Exact(host, p)
  /\ kvLink /\ ~reseedCache /\ consumed = 0 => Exact(ResidentAt(p), p)
Chunked ==
  /\ Batched /\ kvLink /\ Kept
  /\ Exact(host, Begin) /\ Exact(WidePast, p)
  /\ ~reseedCache => Exact(ResidentAt(Begin), Begin)
  /\ (prev.rows > 0 <=> consumed > 0)
  /\ prev.rows > 0 => Exact(wide.past, Begin)
Verified ==
  /\ kvLink /\ ~residentDirty /\ Kept /\ Exact(WidePast, p)
  /\ prev.rows = 0 => prev = NonePrev

Placed ==
  /\ Stepping => Stepped
  /\ pc = "prefill" => Prefilled
  /\ pc = "chunk" => Chunked
  /\ Rounds => Verified
  /\ pc \in {"chain", "spec"} => kvLink

IInv == TypeOK /\ Position /\ StreamIsGreedy /\ Stopped /\ Placed

-----------------------------------------------------------------------------
\* Numbers.

\* A set of naturals has a least element: the induction the proofs below use.
LEMMA LeastNat ==
  ASSUME NEW T, T \subseteq Nat, T # {}
  PROVE  \E x \in T : \A y \in T : x <= y
<1> DEFINE R == OpToRel(<, Nat)
<1>1. \E x \in T : \A y \in T : ~ (<<y, x>> \in R)
  <2>1. IsWellFoundedOn(R, Nat)
    BY NatLessThanWellFounded
  <2> HIDE DEF R
  <2> QED
    BY <2>1, WFMin
<1>2. \A x, y \in Nat : <<y, x>> \in R <=> y < x
  BY DEF OpToRel
<1> HIDE DEF R
<1>3. PICK x \in T : \A y \in T : ~ (<<y, x>> \in R)
  BY <1>1
<1>4. \A y \in T : ~ (y < x)
  BY <1>2, <1>3
<1>5. \A y \in T : x <= y
  BY <1>4
<1> QED
  BY <1>5

\* Min is the least element.
LEMMA MinIs ==
  ASSUME NEW T, T \subseteq Nat, T # {}
  PROVE  Min(T) \in T /\ \A y \in T : Min(T) <= y
<1>1. \E x \in T : \A y \in T : x <= y
  BY LeastNat
<1> QED
  BY <1>1, Zenon DEF Min

\* Max is the greatest element.
LEMMA MaxIs ==
  ASSUME NEW n \in Nat, NEW T, T \subseteq 0 .. n, T # {}
  PROVE  Max(T) \in T /\ \A y \in T : Max(T) >= y
<1> DEFINE U == {n - y : y \in T}
<1>0. \A y \in T : n - y \in Nat
  OBVIOUS
<1>1. U \subseteq Nat /\ U # {}
  BY <1>0
<1>2. PICK u \in U : \A y \in U : u <= y
  BY <1>1, LeastNat
<1>3. PICK x \in T : u = n - x
  BY <1>2
<1>4. \A y \in T : x >= y
  <2> SUFFICES ASSUME NEW y \in T PROVE x >= y
    OBVIOUS
  <2>1. n - x <= n - y
    BY <1>2, <1>3
  <2> QED
    BY <2>1
<1>5. \E z \in T : \A y \in T : z >= y
  BY <1>4
<1> QED
  BY <1>5, Zenon DEF Max

\* The smaller of two numbers.
LEMMA SmallerIs ==
  ASSUME NEW a \in Int, NEW b \in Int
  PROVE  Smaller(a, b) = IF a <= b THEN a ELSE b
<1>1. \E x \in {a, b} : \A y \in {a, b} : x <= y
  OBVIOUS
<1>2. Min({a, b}) \in {a, b} /\ \A y \in {a, b} : Min({a, b}) <= y
  BY <1>1, Zenon DEF Min
<1> QED
  BY <1>2 DEF Smaller

\* No slot before the first row, then one behind the other up to the last.
LEMMA FoldSlotIs ==
  ASSUME NEW n \in Nat
  PROVE  kvFoldSlot(n) = IF n = 0 THEN -1 ELSE IF n <= C THEN n - 1 ELSE C - 1
<1>1. C - 1 \in Int
  BY ChatDecodeAssumption
<1>2. Smaller(n - 1, C - 1) = IF n - 1 <= C - 1 THEN n - 1 ELSE C - 1
  BY <1>1, SmallerIs
<1> QED
  BY <1>1, <1>2, ChatDecodeAssumption DEF kvFoldSlot

-----------------------------------------------------------------------------
\* Caches.

\* Fold replaces one slot.
LEMMA FoldIs ==
  ASSUME NEW cache, NEW slot \in Int, NEW row
  PROVE  Fold(cache, slot, row) = [j \in Slots |-> IF j = slot THEN row ELSE cache[j]]
<1>1. ASSUME NEW j \in Slots
      PROVE  (IF slot >= 0 /\ j - slot + 1 \in DOMAIN <<row>> THEN <<row>>[j - slot + 1] ELSE cache[j])
               = IF j = slot THEN row ELSE cache[j]
  <2>1. j \in Nat
    BY ChatDecodeAssumption DEF Slots
  <2>2. DOMAIN <<row>> = 1 .. 1 /\ <<row>>[1] = row
    OBVIOUS
  <2> QED
    BY <2>1, <2>2
<1> QED
  BY <1>1 DEF Fold, FoldRows

\* Exact, slot by slot.
LEMMA ExactIs ==
  ASSUME NEW cache, NEW n \in Nat
  PROVE  Exact(cache, n) <=>
           \A j \in Slots : j < n => cache[j] = IF j < C - 1 THEN j + 1 ELSE n
<1>1. Smaller(n, C) = IF n <= C THEN n ELSE C
  BY SmallerIs, ChatDecodeAssumption
<1> QED
  BY <1>1, ChatDecodeAssumption DEF Exact, Slots

\* Below the context edge a cache is exact for every shorter conversation.
LEMMA ExactPrefix ==
  ASSUME NEW cache, NEW m \in Nat, NEW n \in 0 .. m, m <= C, Exact(cache, m)
  PROVE  Exact(cache, n)
  BY ExactIs, ChatDecodeAssumption DEF Slots

\* Folding the row of the next token keeps a cache exact, at the context edge too.
LEMMA FoldExact ==
  ASSUME NEW cache, NEW n \in Nat, Exact(cache, n)
  PROVE  Exact(Fold(cache, kvFoldSlot(n + 1), n + 1), n + 1)
<1>1. kvFoldSlot(n + 1) = IF n + 1 <= C THEN n ELSE C - 1
  BY FoldSlotIs
<1>2. kvFoldSlot(n + 1) \in Int
  BY <1>1, ChatDecodeAssumption
<1>3. \A j \in Slots : j < n => cache[j] = IF j < C - 1 THEN j + 1 ELSE n
  BY ExactIs
<1> DEFINE folded == Fold(cache, kvFoldSlot(n + 1), n + 1)
<1>4. ASSUME NEW j \in Slots, j < n + 1
      PROVE  folded[j] = IF j < C - 1 THEN j + 1 ELSE n + 1
  <2>1. folded[j] = IF j = kvFoldSlot(n + 1) THEN n + 1 ELSE cache[j]
    BY <1>2, FoldIs
  <2> QED
    BY <1>1, <1>3, <1>4, <2>1, ChatDecodeAssumption DEF Slots
<1> HIDE DEF folded
<1>5. Exact(folded, n + 1)
  BY <1>4, ExactIs
<1> QED
  BY <1>5 DEF folded

\* A row folded behind the conversation leaves it alone.
LEMMA FoldBehind ==
  ASSUME NEW cache, NEW n \in Nat, NEW slot \in Nat, n <= slot, NEW row, Exact(cache, n)
  PROVE  Exact(Fold(cache, slot, row), n)
<1> DEFINE folded == Fold(cache, slot, row)
<1>1. ASSUME NEW j \in Slots, j < n
      PROVE  folded[j] = cache[j]
  BY <1>1, FoldIs, ChatDecodeAssumption DEF Slots
<1>2. \A j \in Slots : j < n => cache[j] = IF j < C - 1 THEN j + 1 ELSE n
  BY ExactIs
<1> HIDE DEF folded
<1>3. Exact(folded, n)
  BY <1>1, <1>2, ExactIs
<1> QED
  BY <1>3 DEF folded

\* The rows of the next w tokens keep a cache exact below the context edge.
LEMMA FoldRowsExact ==
  ASSUME NEW cache, NEW n \in Nat, NEW w \in Nat, n + w <= C, Exact(cache, n),
         NEW rows, DOMAIN rows = 1 .. w, \A i \in 1 .. w : rows[i] = n + i
  PROVE  Exact(FoldRows(cache, n, rows), n + w)
<1> DEFINE folded == FoldRows(cache, n, rows)
<1>1. \A j \in Slots : j < n => cache[j] = IF j < C - 1 THEN j + 1 ELSE n
  BY ExactIs
<1>2. ASSUME NEW j \in Slots, j < n + w
      PROVE  folded[j] = IF j < C - 1 THEN j + 1 ELSE n + w
  <2>1. folded[j] = IF j - n + 1 \in 1 .. w THEN rows[j - n + 1] ELSE cache[j]
    BY DEF FoldRows
  <2>2. j \in 0 .. C - 1
    BY DEF Slots
  <2>3. CASE j < n
    BY <1>1, <1>2, <2>1, <2>2, <2>3, ChatDecodeAssumption
  <2>4. CASE j >= n
    <3>1. j - n + 1 \in 1 .. w
      BY <1>2, <2>2, <2>4, ChatDecodeAssumption
    <3>2. rows[j - n + 1] = n + (j - n + 1)
      BY <3>1
    <3> QED
      BY <1>2, <2>1, <2>2, <3>1, <3>2, ChatDecodeAssumption
  <2> QED
    BY <2>2, <2>3, <2>4, ChatDecodeAssumption
<1> HIDE DEF folded
<1>3. Exact(folded, n + w)
  BY <1>2, ExactIs
<1> QED
  BY <1>3 DEF folded

\* A forward over the conversation computes the row of the next token.
LEMMA RowAtExact ==
  ASSUME NEW cache, NEW n \in Nat, Exact(cache, n)
  PROVE  RowAt(cache, n) = n + 1
  BY DEF RowAt

\* A fold leaves a cache.
LEMMA FoldType ==
  ASSUME NEW cache \in Cache, NEW slot \in Int, NEW row \in 0 .. MaxLen
  PROVE  Fold(cache, slot, row) \in Cache
  BY FoldIs DEF Cache

\* A fold of several rows leaves a cache.
LEMMA FoldRowsType ==
  ASSUME NEW cache \in Cache, NEW slot \in Int, NEW rows, \A i \in DOMAIN rows : rows[i] \in 0 .. MaxLen
  PROVE  FoldRows(cache, slot, rows) \in Cache
  BY DEF Cache, FoldRows

\* The elements of a prefix.
LEMMA PrefixIs ==
  ASSUME NEW S, NEW s \in Seq(S), NEW m \in 0 .. Len(s)
  PROVE  DOMAIN SubSeq(s, 1, m) = 1 .. m /\ \A i \in 1 .. m : SubSeq(s, 1, m)[i] = s[i]
  OBVIOUS

-----------------------------------------------------------------------------
\* The parts a step is made of.

\* The constants and the bound on the conversation are numbers.
LEMMA Constants ==
  /\ C \in Nat \ {0} /\ MaxTokens \in Nat \ {0} /\ Drafts \in Nat \ {0} /\ ChainSteps \in Nat \ {0}
  /\ PrefillS \in Nat \ {0} /\ ChunkS \in Nat \ {0} /\ MaxPrompt \in Nat \ {0} /\ MaxTurns \in Nat
  /\ MaxLen \in Nat
<1>1. \A a, b \in Nat : a * b \in Nat
  BY SMT
<1>2. MaxPrompt + MaxTokens \in Nat /\ MaxTurns \in Nat
  BY ChatDecodeAssumption
<1> QED
  BY <1>1, <1>2, ChatDecodeAssumption DEF MaxLen

\* The conversation never outgrows its bound.
LEMMA BoundIs ==
  ASSUME TypeOK, Position, turn > 0
  PROVE  fed + (MaxPrompt - prompt) + (MaxTokens - generated) <= MaxLen
<1>1. \A a, b, k \in Nat : a <= b => a * k <= b * k
  BY SMT
<1>2. turn \in Nat /\ turn <= MaxTurns /\ MaxTurns \in Nat /\ MaxPrompt + MaxTokens \in Nat
  BY Constants DEF TypeOK
<1>3. turn * (MaxPrompt + MaxTokens) <= MaxTurns * (MaxPrompt + MaxTokens)
  BY <1>1, <1>2
<1>4. turn * (MaxPrompt + MaxTokens) \in Int /\ MaxTurns * (MaxPrompt + MaxTokens) \in Int
  BY <1>2
<1>5. fed \in Int /\ prompt \in Int /\ generated \in Int /\ MaxPrompt \in Int /\ MaxTokens \in Int
  BY Constants DEF TypeOK
<1> QED
  BY <1>2, <1>3, <1>4, <1>5 DEF Position, MaxLen

\* What syncResidentToHost reads is a cache.
LEMMA ResidentIs ==
  ASSUME TypeOK
  PROVE  Resident = ResidentAt(p) /\ Resident \in Cache
<1>1. p \in Nat /\ kvFoldSlot(p) \in Int
  BY FoldSlotIs, Constants DEF TypeOK
<1>2. PendingSlot \in Int
  BY <1>1 DEF PendingSlot
<1>3. Resident \in Cache
  BY <1>2, FoldType DEF Resident, TypeOK
<1> QED
  BY <1>3 DEF Resident, ResidentAt, PendingSlot

\* One token at p on the host loop.
LEMMA HostStepFacts ==
  ASSUME TypeOK, p + 1 <= MaxLen, p' = p + 1, NEW past \in Cache, Exact(past, p), HostStep(past)
  PROVE  /\ next' \in Token /\ next'.of = p + 1
         /\ host' \in Cache /\ decode' \in [past : Cache, present : 0 .. MaxLen] /\ kvLink' = FALSE
         /\ UNCHANGED flags /\ Stepped'
<1>1. p \in Nat /\ p + 1 \in 0 .. MaxLen
  BY Constants DEF TypeOK
<1>2. RowAt(past, p) = p + 1 /\ next' \in Token /\ next'.of = p + 1
  BY <1>1, RowAtExact DEF StepChoices, Token, HostStep
<1>3. Smaller(p, C - 1) = kvFoldSlot(p + 1)
  BY <1>1, SmallerIs, FoldSlotIs, Constants
<1>4. host' = Fold(past, kvFoldSlot(p + 1), p + 1)
  BY <1>2, <1>3 DEF HostStep
<1>5. kvFoldSlot(p + 1) \in Int
  BY <1>1, FoldSlotIs, Constants
<1>6. host' \in Cache /\ Exact(host', p + 1)
  BY <1>1, <1>4, <1>5, FoldExact, FoldType
<1>7. kvLink' = FALSE /\ decode' = decode /\ UNCHANGED flags
  BY DEF HostStep
<1> QED
  BY <1>2, <1>6, <1>7 DEF Stepped, Exact, TypeOK

\* One token at p: the cache it runs on is the conversation's, and so is the one it leaves.
LEMMA StepFacts ==
  ASSUME TypeOK, Stepped, Step, p + 1 <= MaxLen
  PROVE  /\ p' = p + 1 /\ next' \in Token /\ next'.of = p + 1
         /\ host' \in Cache /\ decode' \in [past : Cache, present : 0 .. MaxLen] /\ kvLink' \in BOOLEAN
         /\ residentDirty' \in BOOLEAN /\ reseedCache' \in BOOLEAN /\ pendingResidentFold' \in BOOLEAN
         /\ Stepped'
<1>1. p \in Nat /\ p + 1 \in 0 .. MaxLen /\ p' = p + 1
  BY Constants DEF TypeOK, Step
<1>2. ASSUME NEW past, Exact(past, p), next' \in StepChoices(past, p)
      PROVE  RowAt(past, p) = p + 1 /\ next' \in Token /\ next'.of = p + 1
  BY <1>1, <1>2, RowAtExact DEF StepChoices, Token
<1>3. Exact(host, p) \/ (kvLink /\ residentDirty)
  BY DEF Stepped
<1>4. kvLink /\ ~reseedCache => Exact(Resident, p)
  BY ResidentIs DEF Stepped
<1>5. CASE LinkedStep
  <2> DEFINE past == IF reseedCache THEN host ELSE Resident
  <2>1. Exact(past, p) /\ past \in Cache
    BY <1>3, <1>4, <1>5, ResidentIs DEF LinkedStep, Stepped, TypeOK
  <2>2. /\ decode' = [past |-> past, present |-> RowAt(past, p)]
        /\ next' \in StepChoices(past, p)
        /\ kvLink /\ kvLink' = kvLink /\ host' = host
        /\ residentDirty' = TRUE /\ reseedCache' = FALSE /\ pendingResidentFold' = TRUE
    BY <1>5 DEF LinkedStep
  <2> HIDE DEF past
  <2>3. RowAt(past, p) = p + 1 /\ next' \in Token /\ next'.of = p + 1
    BY <1>2, <2>1, <2>2
  <2>4. ResidentAt(p)' = Fold(past, kvFoldSlot(p + 1), p + 1)
    BY <1>1, <2>2, <2>3 DEF ResidentAt, kvFoldSlot
  <2>5. Exact(ResidentAt(p)', p')
    BY <1>1, <2>1, <2>4, FoldExact
  <2>6. Stepped'
    BY <2>2, <2>5 DEF Stepped, ResidentAt, Exact
  <2> QED
    BY <1>1, <2>1, <2>2, <2>3, <2>6 DEF TypeOK
<1>6. flags' = flags => /\ residentDirty' \in BOOLEAN /\ reseedCache' \in BOOLEAN
                        /\ pendingResidentFold' \in BOOLEAN
  BY DEF TypeOK, flags
<1>7. CASE kvLink /\ ~reseedCache /\ HostStep(Resident)
  <2>1. Exact(Resident, p) /\ Resident \in Cache
    BY <1>4, <1>7, ResidentIs
  <2> QED
    BY <1>1, <1>6, <1>7, <2>1, HostStepFacts
<1>8. CASE ~kvLink /\ HostStep(host)
  <2>1. Exact(host, p) /\ host \in Cache
    BY <1>3, <1>8 DEF TypeOK
  <2> QED
    BY <1>1, <1>6, <1>8, <2>1, HostStepFacts
<1> QED
  BY <1>5, <1>7, <1>8 DEF Step

\* Printing what the target chose after exactly the tokens fed.
LEMMA EmitFacts ==
  ASSUME TypeOK, StreamIsGreedy, NEW tokens \in Seq(Token), Emit(tokens),
         \A i \in 1 .. Len(tokens) : tokens[i] = [of |-> fed + i - 1, eos |-> FALSE]
  PROVE  /\ StreamIsGreedy' /\ stream' \in Seq(Token)
         /\ Len(stream') = Len(stream) + Len(tokens) /\ fed' = fed + Len(tokens)
<1>1. stream \in Seq(Token) /\ fed \in Nat
  BY DEF TypeOK
<1>2. stream' = stream \o tokens /\ fed' = fed + Len(tokens)
  BY DEF Emit
<1>3. stream' \in Seq(Token) /\ Len(stream') = Len(stream) + Len(tokens)
  BY <1>1, <1>2
<1>4. ASSUME NEW i \in 1 .. Len(stream')
      PROVE  stream'[i] = [of |-> fed' - Len(stream') + i - 1, eos |-> FALSE]
  <2>1. fed' - Len(stream') = fed - Len(stream)
    BY <1>1, <1>2, <1>3
  <2>2. CASE i <= Len(stream)
    <3>1. stream'[i] = stream[i] /\ i \in DOMAIN stream
      BY <1>1, <1>2, <2>2
    <3> QED
      BY <2>1, <3>1 DEF StreamIsGreedy
  <2>3. CASE i > Len(stream)
    <3>1. i - Len(stream) \in 1 .. Len(tokens) /\ stream'[i] = tokens[i - Len(stream)]
      BY <1>1, <1>2, <1>3, <2>3
    <3> QED
      BY <1>1, <2>1, <3>1
  <2> QED
    BY <1>1, <2>2, <2>3
<1> QED
  BY <1>2, <1>3, <1>4 DEF StreamIsGreedy

\* The choice that waits is the token to print.
LEMMA NextIs ==
  ASSUME TypeOK, Position, Chosen, ~Prompting, ~next.eos
  PROVE  next = [of |-> fed, eos |-> FALSE] /\ p = fed
  BY DEF TypeOK, Position, Chosen, Token

-----------------------------------------------------------------------------
\* The prompt.

\* BeginTurn: the copy the prompt starts on is the current one; a reseed that is still owed
\* leaves room for the first window (Corners).
LEMMA BeginTurnStep ==
  ASSUME IInv, Corners = {}, NEW n \in 1 .. MaxPrompt, BeginTurn(n)
  PROVE  IInv'
<1> USE Constants
<1>1. TypeOK /\ Position /\ Stepped /\ pc = "idle" /\ turn < MaxTurns
  BY DEF IInv, Placed, Stepping, BeginTurn
<1>2. /\ p \in Nat /\ fed \in Nat /\ turn \in Nat /\ prompt \in Nat /\ generated \in Nat /\ n \in Nat
      /\ prompt <= MaxPrompt /\ generated <= MaxTokens
  BY <1>1 DEF TypeOK
<1>3. p = fed
  BY <1>1 DEF Position, Prompting
<1>4. /\ turn' = turn + 1 /\ prompt' = n /\ fed' = fed + n
      /\ consumed' = 0 /\ generated' = 0 /\ stream' = <<>> /\ ended' = NoToken /\ prev' = NonePrev
      /\ pc' \in {"chunk", "prefill", "prompt"}
      /\ UNCHANGED <<mode, prefill, chunk, kvLink, decode, wide, p, reseedCache, pendingResidentFold, next>>
  BY DEF BeginTurn
<1>5. Prompting' /\ ~Chosen' /\ ~Rounds' /\ (Stepping' <=> pc' = "prompt")
  BY <1>4 DEF Prompting, Chosen, Rounds, Stepping
<1>6. /\ host' \in Cache /\ residentDirty' \in BOOLEAN
      /\ pc' \in {"chunk", "prefill"} => ~(kvLink /\ residentDirty')
      /\ ~(kvLink /\ residentDirty') => Exact(host', p)
      /\ ~(kvLink /\ residentDirty' /\ reseedCache)
  <2>1. CASE kvLink /\ residentDirty /\ pc' \in {"chunk", "prefill"}
    <3>1. host' = Resident /\ residentDirty' = FALSE
      BY <2>1 DEF BeginTurn
    <3>2. Exact(Resident, p)
      BY <1>1, <2>1, ResidentIs DEF Stepped
    <3> QED
      BY <1>1, <3>1, <3>2, ResidentIs
  <2>2. CASE ~(kvLink /\ residentDirty /\ pc' \in {"chunk", "prefill"})
    <3>1. host' = host /\ residentDirty' = residentDirty
      BY <2>2 DEF BeginTurn
    <3> QED
      BY <1>1, <2>2, <3>1 DEF Stepped, TypeOK
  <2> QED
    BY <2>1, <2>2
<1>7. Position'
  <2>1. fed <= turn * (MaxPrompt + MaxTokens)
    <3>1. CASE turn = 0
      BY <1>1, <1>2, <3>1 DEF Position
    <3>2. CASE turn # 0
      <4>1. fed + (MaxPrompt - prompt) + (MaxTokens - generated) <= turn * (MaxPrompt + MaxTokens)
        BY <1>1, <3>2 DEF Position
      <4>2. turn * (MaxPrompt + MaxTokens) \in Int
        BY <1>2
      <4> QED
        BY <1>2, <4>1, <4>2
    <3> QED
      BY <3>1, <3>2
  <2>2. (turn + 1) * (MaxPrompt + MaxTokens) = turn * (MaxPrompt + MaxTokens) + (MaxPrompt + MaxTokens)
    BY <1>2
  <2>3. fed + n + (MaxPrompt - n) + (MaxTokens - 0) <= (turn + 1) * (MaxPrompt + MaxTokens)
    <3>1. turn * (MaxPrompt + MaxTokens) \in Int
      BY <1>2
    <3> QED
      BY <1>2, <2>1, <2>2, <3>1
  <2> QED
    BY <1>2, <1>3, <1>4, <1>5, <2>3 DEF Position
<1>8. TypeOK'
  <2>1. fed' <= MaxLen
    <3>1. \A a, b, k \in Nat : a <= b => a * k <= b * k
      BY SMT
    <3>2. turn + 1 \in Nat /\ turn + 1 <= MaxTurns /\ MaxPrompt + MaxTokens \in Nat
      BY <1>1, <1>2
    <3>3. (turn + 1) * (MaxPrompt + MaxTokens) <= MaxLen
      BY <3>1, <3>2 DEF MaxLen
    <3>4. fed' + (MaxPrompt - n) + MaxTokens <= (turn + 1) * (MaxPrompt + MaxTokens)
      BY <1>2, <1>4, <1>7 DEF Position
    <3>5. (turn + 1) * (MaxPrompt + MaxTokens) \in Int
      BY <3>2
    <3> QED
      BY <1>2, <1>4, <3>3, <3>4, <3>5
  <2>2. stream' \in Seq(Token) /\ ended' \in Token
    BY <1>4 DEF NoToken, Token
  <2>3. prev'.slot \in -1 .. C - 1 /\ prev'.rows \in 0 .. C - prev'.slot
    BY <1>4 DEF NonePrev
  <2>4. turn' \in 0 .. MaxTurns /\ fed' \in 0 .. MaxLen /\ prompt' \in 0 .. MaxPrompt /\ consumed' \in 0 .. prompt'
        /\ generated' \in 0 .. MaxTokens
    BY <1>1, <1>2, <1>4, <2>1
  <2> QED
    BY <1>1, <1>4, <1>6, <2>2, <2>3, <2>4 DEF TypeOK
<1>9. StreamIsGreedy' /\ Stopped'
  BY <1>4, <1>5 DEF StreamIsGreedy, Stopped, Rounds
<1>10. kvLink /\ ~reseedCache => Exact(ResidentAt(p)', p)
  <2>1. ResidentAt(p)' = ResidentAt(p)
    BY <1>4 DEF ResidentAt
  <2> QED
    BY <1>1, <2>1 DEF Stepped
<1>11. pc' \in {"chunk", "prefill"} => (reseedCache => p + Smaller(n, MaxWindow) <= C)
  BY DEF BeginTurn, MaxWindow
<1>12. Begin' = p /\ prompt' = n
  BY <1>2, <1>4 DEF Begin
<1>13. CASE pc' = "prompt"
  <2>1. Stepped'
    BY <1>4, <1>6, <1>10 DEF Stepped, Exact
  <2> QED
    BY <1>5, <1>7, <1>8, <1>9, <1>13, <2>1 DEF IInv, Placed
<1>14. CASE pc' = "prefill"
  <2>1. Batched'
    BY <1>4, <1>6, <1>11, <1>12, <1>14 DEF Batched, MaxWindow
  <2>2. Prefilled'
    BY <1>4, <1>6, <1>10, <1>14, <2>1 DEF Prefilled, Exact
  <2> QED
    BY <1>5, <1>7, <1>8, <1>9, <1>14, <2>2 DEF IInv, Placed
<1>15. CASE pc' = "chunk"
  <2>1. Batched'
    BY <1>4, <1>6, <1>11, <1>12, <1>15 DEF Batched, MaxWindow
  <2>2. kvLink' /\ prev'.rows = 0 /\ WidePast' = host'
    BY <1>4, <1>15 DEF BeginTurn, WidePast, NonePrev
  <2>3. Kept'
    BY <2>2, <1>8 DEF Kept, TypeOK
  <2>4. ~reseedCache' => Exact(ResidentAt(Begin)', Begin')
    BY <1>4, <1>10, <1>12, <2>2 DEF ResidentAt, Exact
  <2>5. Exact(host', p) /\ ~(prev'.rows > 0) /\ ~(consumed' > 0)
    BY <1>4, <1>6, <1>15, <2>2
  <2>6. Exact(host', Begin') /\ Exact(WidePast', p')
    BY <1>4, <1>12, <2>2, <2>5
  <2>7. Chunked'
    BY <2>1, <2>2, <2>3, <2>4, <2>5, <2>6 DEF Chunked, Exact
  <2> QED
    BY <1>5, <1>7, <1>8, <1>9, <1>15, <2>7 DEF IInv, Placed
<1> QED
  BY <1>4, <1>13, <1>14, <1>15

\* The next window of a batched pass, and the cache a wide pass runs on.
LEMMA WindowFacts ==
  ASSUME TypeOK, NEW s \in Nat \ {0}, Fits(s)
  PROVE  /\ NextWindow(s) \in 1 .. s /\ NextWindow(s) <= prompt - consumed
         /\ p + NextWindow(s) <= C /\ consumed < prompt
         /\ prompt \in Nat /\ consumed \in Nat /\ p \in Nat
<1>1. prompt \in Nat /\ consumed \in Nat /\ p \in Nat /\ consumed < prompt /\ p + NextWindow(s) <= C
  BY DEF TypeOK, Fits
<1>2. NextWindow(s) = IF prompt - consumed <= s THEN prompt - consumed ELSE s
  BY <1>1, SmallerIs DEF NextWindow
<1> QED
  BY <1>1, <1>2

\* The cache a wide pass runs on is a cache.
LEMMA WidePastType ==
  ASSUME TypeOK, Kept
  PROVE  WidePast \in Cache
<1>1. CASE prev.rows = 0
  BY <1>1 DEF WidePast, TypeOK
<1>2. CASE prev.rows > 0
  <2>1. /\ prev.slot + prev.rows = p /\ prev.slot \in Nat /\ prev.rows \in 0 .. Len(wide.present)
        /\ p \in 0 .. MaxLen
    BY <1>2, Constants DEF Kept, TypeOK
  <2>2. wide.present \in Seq(0 .. MaxLen + Drafts) /\ wide.past \in Cache
    BY DEF TypeOK
  <2>3. /\ DOMAIN SubSeq(wide.present, 1, prev.rows) = 1 .. prev.rows
        /\ \A i \in 1 .. prev.rows : SubSeq(wide.present, 1, prev.rows)[i] = wide.present[i]
    BY <2>1, <2>2, PrefixIs
  <2>4. \A i \in 1 .. prev.rows : wide.present[i] = prev.slot + i
    BY <1>2 DEF Kept
  <2>5. \A i \in 1 .. prev.rows : SubSeq(wide.present, 1, prev.rows)[i] \in 0 .. MaxLen
    BY SMTT(20), <2>1, <2>3, <2>4, Constants
  <2>6. WidePast = FoldRows(wide.past, prev.slot, SubSeq(wide.present, 1, prev.rows))
    BY <1>2 DEF WidePast
  <2> DEFINE rows == SubSeq(wide.present, 1, prev.rows)
  <2>7. \A i \in DOMAIN rows : rows[i] \in 0 .. MaxLen
    BY <2>3, <2>5
  <2> HIDE DEF rows
  <2>8. FoldRows(wide.past, prev.slot, rows) \in Cache
    BY <2>1, <2>2, <2>7, FoldRowsType
  <2> QED
    BY <2>6, <2>8 DEF rows
<1> QED
  BY <1>1, <1>2 DEF TypeOK

\* A wide pass over an exact cache: its first n rows are the conversation's, and folding them
\* gives the cache of the longer conversation.
LEMMA WidePassFacts ==
  ASSUME TypeOK, Kept, Exact(WidePast, p), NEW n \in Nat \ {0}, p + n <= C, p + n <= MaxLen,
         NEW w \in Nat, n <= w, NEW rows \in Seq(0 .. MaxLen + Drafts), Len(rows) = w,
         \A t \in 1 .. n : rows[t] = p + t,
         wide' = [past |-> WidePast, present |-> rows],
         prev' = [slot |-> p, rows |-> n], p' = p + n
  PROVE  /\ wide'.past \in Cache /\ wide'.present \in Seq(0 .. MaxLen + Drafts)
         /\ prev'.slot \in -1 .. C - 1 /\ prev'.rows \in 0 .. C - prev'.slot /\ prev'.rows > 0
         /\ Kept' /\ Exact(WidePast', p') /\ WidePast' \in Cache
<1> USE Constants
<1>1. p \in Nat /\ prev'.slot = p /\ prev'.rows = n /\ wide'.past = WidePast /\ wide'.present = rows
  BY DEF TypeOK
<1>2. WidePast \in Cache
  BY WidePastType
<1>3. Kept'
  BY <1>1 DEF Kept
<1>4. WidePast' = FoldRows(WidePast, p, SubSeq(rows, 1, n))
  BY <1>1 DEF WidePast, FoldRows
<1>5. DOMAIN SubSeq(rows, 1, n) = 1 .. n /\ \A i \in 1 .. n : SubSeq(rows, 1, n)[i] = rows[i]
  BY PrefixIs
<1>6. \A i \in 1 .. n : SubSeq(rows, 1, n)[i] = p + i
  BY <1>5
<1>7. Exact(WidePast', p + n)
  BY <1>1, <1>4, <1>5, <1>6, FoldRowsExact
<1>8. WidePast' \in Cache
  <2>1. \A i \in 1 .. n : p + i \in 0 .. MaxLen
    BY <1>1
  <2> DEFINE first == SubSeq(rows, 1, n)
  <2>2. \A i \in DOMAIN first : first[i] \in 0 .. MaxLen
    BY <1>5, <1>6, <2>1
  <2> HIDE DEF first
  <2>3. FoldRows(WidePast, p, first) \in Cache
    BY <1>1, <1>2, <2>2, FoldRowsType
  <2> QED
    BY <1>4, <2>3 DEF first
<1> QED
  BY <1>1, <1>2, <1>3, <1>7, <1>8

\* What a pass over n tokens of the prompt leaves of the turn.
LEMMA PassPosition ==
  ASSUME TypeOK, Position, pc \in {"chunk", "prefill", "prompt"}, NEW n \in 1 .. prompt - consumed,
         p' = p + n, consumed' = consumed + n, next' \in Token, next'.of = p + n,
         UNCHANGED <<driver, pc, prompt, generated, ghosts>>
  PROVE  /\ Position' /\ p' \in 0 .. MaxLen /\ consumed' \in 0 .. prompt' /\ consumed' > 0 /\ p + n <= MaxLen
         /\ Begin' = Begin /\ Begin \in Nat /\ Begin <= p
<1> USE Constants
<1>1. /\ p \in Nat /\ fed \in Nat /\ prompt \in Nat /\ consumed \in 0 .. prompt /\ generated \in Nat
      /\ prompt <= MaxPrompt /\ generated <= MaxTokens
  BY DEF TypeOK
<1>2. p = fed - (prompt - consumed) /\ turn > 0
  BY DEF Position, Prompting, TypeOK
<1>3. fed <= MaxLen
  <2>1. fed + (MaxPrompt - prompt) + (MaxTokens - generated) <= MaxLen
    BY <1>2, BoundIs
  <2> QED
    BY <1>1, <2>1
<1>4. pc' = pc /\ prompt' = prompt /\ generated' = generated /\ fed' = fed /\ stream' = stream /\ turn' = turn
  BY DEF driver, ghosts
<1>5. consumed' \in 1 .. prompt /\ p' = fed - (prompt - consumed') /\ p' <= fed
  BY <1>1, <1>2
<1>6. Position'
  BY <1>4, <1>5 DEF Position, Prompting, Chosen
<1>7. Begin' = Begin /\ Begin \in Int /\ Begin <= p
  BY <1>1, <1>2 DEF Begin
<1>8. Begin >= 0
  <2>1. p >= consumed
    BY <1>1, <1>2 DEF Position, Prompting
  <2> QED
    BY <1>1, <2>1 DEF Begin
<1> QED
  BY <1>1, <1>3, <1>4, <1>5, <1>6, <1>7, <1>8

\* ChunkPass: the rows of the chunk before are folded, those of this one left to fold.
LEMMA ChunkPassStep ==
  ASSUME IInv, ChunkPass
  PROVE  IInv'
<1> USE Constants
<1> DEFINE n == NextWindow(ChunkS)
           rows == Rows(WidePast, n, ChunkS)
<1>1. TypeOK /\ Position /\ StreamIsGreedy /\ Chunked /\ pc = "chunk" /\ Fits(ChunkS)
  BY DEF IInv, Placed, ChunkPass
<1>2. /\ n \in 1 .. ChunkS /\ n <= prompt - consumed /\ p + n <= C
      /\ prompt \in Nat /\ consumed \in Nat /\ p \in Nat
  BY <1>1, WindowFacts
<1>3. /\ wide' = [past |-> WidePast, present |-> rows]
      /\ next' \in WideChoices(WidePast, n)
      /\ prev' = [slot |-> p, rows |-> n]
      /\ p' = p + n /\ consumed' = consumed + n
      /\ UNCHANGED <<driver, kvLink, host, decode, flags, pc, prompt, generated, ghosts>>
  BY DEF ChunkPass
<1> HIDE DEF n
<1>4. n \in 1 .. prompt - consumed /\ n \in Nat \ {0}
  BY <1>2
<1>5. Exact(WidePast, p) /\ Kept
  BY <1>1 DEF Chunked
<1>6. p + n <= MaxLen
  <2>1. p = fed - (prompt - consumed) /\ turn > 0
    BY <1>1 DEF Position, Prompting, TypeOK
  <2>2. fed + (MaxPrompt - prompt) + (MaxTokens - generated) <= MaxLen
    BY <1>1, <2>1, BoundIs
  <2> QED
    BY <1>1, <1>2, <2>1, <2>2 DEF TypeOK
<1>7. next' \in Token /\ next'.of = p + n
  BY <1>2, <1>3, <1>4, <1>5, <1>6 DEF WideChoices, Token
<1>8. /\ Position' /\ p' \in 0 .. MaxLen /\ consumed' \in 0 .. prompt' /\ consumed' > 0
      /\ Begin' = Begin /\ Begin \in Nat /\ Begin <= p
  BY <1>1, <1>3, <1>4, <1>7, PassPosition
<1>9. rows \in Seq(0 .. MaxLen + Drafts) /\ Len(rows) = ChunkS /\ \A t \in 1 .. n : rows[t] = p + t
  <2>1. \A t \in 1 .. ChunkS : (IF t <= n /\ Exact(WidePast, p) THEN p + t ELSE 0) \in 0 .. MaxLen + Drafts
    BY <1>2, <1>4, <1>6
  <2> QED
    BY <1>2, <1>5, <2>1 DEF Rows
<1> HIDE DEF rows
<1>10. /\ wide'.past \in Cache /\ wide'.present \in Seq(0 .. MaxLen + Drafts)
       /\ prev'.slot \in -1 .. C - 1 /\ prev'.rows \in 0 .. C - prev'.slot /\ prev'.rows > 0
       /\ Kept' /\ Exact(WidePast', p') /\ wide'.past = WidePast
  <2>1. n \in Nat \ {0} /\ p + n <= C /\ p + n <= MaxLen /\ ChunkS \in Nat /\ n <= ChunkS
    BY <1>2, <1>4, <1>6
  <2>2. wide' = [past |-> WidePast, present |-> rows] /\ prev' = [slot |-> p, rows |-> n] /\ p' = p + n
    BY <1>3
  <2>3. wide'.past = WidePast
    BY <2>2
  <2> QED
    BY ONLY <1>1, <1>5, <1>9, <2>1, <2>2, <2>3, WidePassFacts
<1>11. TypeOK'
  BY <1>1, <1>3, <1>7, <1>8, <1>10 DEF TypeOK, driver, flags, ghosts
<1>12. Batched'
  BY <1>1, <1>2, <1>3, <1>8 DEF Chunked, Batched, flags
<1>13. Exact(wide'.past, Begin')
  BY <1>2, <1>5, <1>8, <1>10, ExactPrefix
<1>14. ~reseedCache' => Exact(ResidentAt(Begin)', Begin')
  <2>1. ResidentAt(Begin)' = ResidentAt(Begin)
    BY <1>3, <1>8 DEF ResidentAt, flags
  <2> QED
    BY <1>1, <1>3, <1>8, <2>1 DEF Chunked, flags
<1>15. Chunked'
  BY <1>1, <1>3, <1>8, <1>10, <1>12, <1>13, <1>14 DEF Chunked, Exact
<1>16. StreamIsGreedy' /\ Stopped' /\ Placed'
  BY <1>1, <1>3, <1>15 DEF StreamIsGreedy, Stopped, Placed, Stepping, Rounds, ghosts
<1> QED
  BY <1>8, <1>11, <1>16 DEF IInv

\* ChunkDone: the host takes the cache over; the decode bucket is seeded from it, unless no chunk ran.
LEMMA ChunkDoneStep ==
  ASSUME IInv, ChunkDone
  PROVE  IInv'
<1> USE Constants
<1>1. TypeOK /\ Position /\ StreamIsGreedy /\ Chunked /\ pc = "chunk" /\ pc' = "prompt" /\ ~Fits(ChunkS)
  BY DEF IInv, Placed, ChunkDone
<1>2. /\ reseedCache' = (kvLink' /\ consumed > 0)
      /\ UNCHANGED <<driver, decode, wide, prev, p, residentDirty, pendingResidentFold, prompt, consumed, next,
                     generated, ghosts>>
  BY DEF ChunkDone
<1>3. kvLink' \in BOOLEAN /\ host' \in Cache /\ Exact(host', p) /\ (consumed = 0 => host' = host /\ kvLink' = kvLink)
  <2>1. CASE prev.rows > 0
    <3>1. host' = WidePast /\ kvLink' \in BOOLEAN
      BY <2>1 DEF ChunkDone
    <3>2. WidePast \in Cache /\ Exact(WidePast, p) /\ consumed > 0
      BY <1>1, <2>1, WidePastType DEF Chunked
    <3>3. ~(consumed = 0)
      BY <3>2
    <3> QED
      BY <3>1, <3>2, <3>3
  <2>2. CASE ~(prev.rows > 0)
    <3>1. host' = host /\ kvLink' = kvLink
      BY <2>2 DEF ChunkDone
    <3>2. prev.rows = 0
      BY <1>1, <2>2 DEF TypeOK
    <3>3. Exact(host, p)
      BY <1>1, <3>2 DEF Chunked, WidePast
    <3> QED
      BY <1>1, <3>1, <3>3 DEF TypeOK
  <2> QED
    BY <2>1, <2>2
<1>4. ~(consumed > 0) => ~reseedCache
  <2>1. /\ p \in Nat /\ prompt \in Nat /\ consumed \in Nat /\ prompt > 0
    BY <1>1 DEF TypeOK, Position
  <2>2. ASSUME ~(consumed > 0), reseedCache
        PROVE  FALSE
    <3>1. p + Smaller(prompt, MaxWindow) <= C /\ consumed = 0
      BY <1>1, <2>1, <2>2 DEF Chunked, Batched, Begin
    <3>2. NextWindow(ChunkS) <= Smaller(prompt, MaxWindow) /\ NextWindow(ChunkS) \in Int
          /\ Smaller(prompt, MaxWindow) \in Int
      BY <2>1, <3>1, SmallerIs DEF NextWindow, MaxWindow
    <3> QED
      BY <1>1, <2>1, <3>1, <3>2 DEF Fits
  <2> QED
    BY <2>2
<1>5. kvLink' /\ ~reseedCache' => Exact(ResidentAt(p)', p')
  <2>1. ASSUME kvLink', ~reseedCache'
        PROVE  Exact(ResidentAt(p)', p')
    <3>0. ~(consumed > 0)
      BY <1>2, <2>1, Zenon
    <3>1. consumed = 0 /\ ~reseedCache
      <4>1. consumed \in Nat
        BY <1>1 DEF TypeOK
      <4> QED
        BY <1>4, <3>0, <4>1
    <3>2. Begin = p
      BY <1>1, <3>1 DEF Begin, TypeOK
    <3>3. ResidentAt(p)' = ResidentAt(p)
      BY <1>2 DEF ResidentAt
    <3> QED
      BY <1>1, <1>2, <3>1, <3>2, <3>3 DEF Chunked
  <2> QED
    BY <2>1
<1>6. TypeOK'
  BY <1>1, <1>2, <1>3 DEF TypeOK, driver, ghosts
<1>7. Position'
  BY <1>1, <1>2 DEF Position, Prompting, Chosen, driver, ghosts
<1>8. Stepped'
  BY <1>1, <1>2, <1>3, <1>5 DEF Stepped, Chunked, Batched, Exact
<1>9. StreamIsGreedy' /\ Stopped' /\ Placed'
  BY <1>1, <1>2, <1>8 DEF StreamIsGreedy, Stopped, Placed, Stepping, Rounds, ghosts
<1> QED
  BY <1>6, <1>7, <1>9 DEF IInv

\* ChunkFails: each of the three copies a failed read-back may leave in the host begins with the
\* conversation before the turn.
LEMMA ChunkFailsStep ==
  ASSUME IInv, ChunkFails
  PROVE  IInv'
<1> USE Constants
<1>1. TypeOK /\ Position /\ StreamIsGreedy /\ Chunked /\ pc = "chunk"
  BY DEF IInv, Placed, ChunkFails
<1>2. /\ p' = p - consumed /\ consumed' = 0 /\ prev' = NonePrev
      /\ chunk' = FALSE /\ kvLink' \in BOOLEAN
      /\ pc' = IF prefill THEN "prefill" ELSE "prompt"
      /\ UNCHANGED <<mode, prefill, turn, decode, wide, flags, prompt, next, generated, ghosts>>
  BY DEF ChunkFails
<1>3. /\ p \in Nat /\ prompt \in Nat /\ consumed \in 0 .. prompt /\ prompt > 0 /\ fed \in Nat
      /\ p = fed - (prompt - consumed) /\ prompt <= fed
  BY <1>1 DEF TypeOK, Position, Prompting
<1>4. p' = Begin /\ Begin' = Begin /\ Begin \in Nat /\ Begin <= p /\ Begin = fed - prompt
  BY <1>2, <1>3 DEF Begin
<1>5. host' \in Cache /\ Exact(host', Begin)
  <2>1. CASE host' = host
    BY <1>1, <2>1 DEF Chunked, TypeOK
  <2>2. CASE host' \in {wide.past, WidePast} /\ prev.rows > 0
    <3>1. wide.past \in Cache /\ WidePast \in Cache
      BY <1>1, WidePastType DEF Chunked, TypeOK
    <3>2. Exact(wide.past, Begin) /\ Exact(WidePast, p) /\ p <= C
      BY <1>1, <2>2 DEF Chunked, Kept
    <3>3. Exact(WidePast, Begin)
      BY <1>3, <1>4, <3>2, ExactPrefix
    <3> QED
      BY <2>2, <3>1, <3>2, <3>3
  <2> QED
    BY <2>1, <2>2 DEF ChunkFails
<1>6. ~reseedCache' => Exact(ResidentAt(p)', p')
  <2>1. ResidentAt(p)' = ResidentAt(Begin)
    BY <1>2, <1>4 DEF ResidentAt, flags
  <2> QED
    BY <1>1, <1>2, <1>4, <2>1 DEF Chunked, flags
<1>7. TypeOK'
  <2>1. p' \in 0 .. MaxLen /\ consumed' \in 0 .. prompt'
    BY <1>1, <1>2, <1>3, <1>4 DEF TypeOK
  <2>2. prev'.slot \in -1 .. C - 1 /\ prev'.rows \in 0 .. C - prev'.slot
    BY <1>2 DEF NonePrev
  <2> QED
    BY <1>1, <1>2, <1>5, <2>1, <2>2 DEF TypeOK, flags, ghosts
<1>8. Position'
  BY <1>1, <1>2, <1>3, <1>4 DEF Position, Prompting, Chosen, ghosts
<1>9. Stepped'
  BY <1>1, <1>2, <1>4, <1>5, <1>6 DEF Stepped, Chunked, Batched, Exact, flags
<1>10. Prefilled'
  <2>1. Batched'
    BY <1>1, <1>2, <1>4 DEF Batched, Chunked, MaxWindow, flags
  <2> QED
    BY <1>2, <1>4, <1>5, <1>6, <2>1 DEF Prefilled, Exact
<1>11. StreamIsGreedy' /\ Stopped' /\ Placed'
  BY <1>1, <1>2, <1>9, <1>10 DEF StreamIsGreedy, Stopped, Placed, Stepping, Rounds, ghosts
<1> QED
  BY <1>7, <1>8, <1>11 DEF IInv

\* PrefillPass: the host cache takes the rows of the window.
LEMMA PrefillPassStep ==
  ASSUME IInv, PrefillPass
  PROVE  IInv'
<1> USE Constants
<1> DEFINE n == NextWindow(PrefillS)
           rows == Rows(host, n, n)
<1>1. TypeOK /\ Position /\ StreamIsGreedy /\ Prefilled /\ pc = "prefill" /\ Fits(PrefillS)
  BY DEF IInv, Placed, PrefillPass
<1>2. /\ n \in 1 .. PrefillS /\ n <= prompt - consumed /\ p + n <= C
      /\ prompt \in Nat /\ consumed \in Nat /\ p \in Nat
  BY <1>1, WindowFacts
<1>3. /\ host' = FoldRows(host, p, rows)
      /\ next' \in WideChoices(host, n)
      /\ p' = p + n /\ consumed' = consumed + n
      /\ UNCHANGED <<driver, kvLink, decode, wide, prev, flags, pc, prompt, generated, ghosts>>
  BY DEF PrefillPass
<1> HIDE DEF n
<1>4. n \in 1 .. prompt - consumed /\ n \in Nat
  BY <1>2
<1>5. Exact(host, p) /\ host \in Cache
  BY <1>1 DEF Prefilled, TypeOK
<1>6. p + n <= MaxLen
  <2>1. p = fed - (prompt - consumed) /\ turn > 0
    BY <1>1 DEF Position, Prompting, TypeOK
  <2>2. fed + (MaxPrompt - prompt) + (MaxTokens - generated) <= MaxLen
    BY <1>1, <2>1, BoundIs
  <2> QED
    BY <1>1, <1>2, <2>1, <2>2 DEF TypeOK
<1>7. next' \in Token /\ next'.of = p + n
  BY <1>2, <1>3, <1>4, <1>5, <1>6 DEF WideChoices, Token
<1>8. /\ Position' /\ p' \in 0 .. MaxLen /\ consumed' \in 0 .. prompt' /\ consumed' > 0
      /\ Begin' = Begin /\ Begin \in Nat /\ Begin <= p
  BY <1>1, <1>3, <1>4, <1>7, PassPosition
<1>9. DOMAIN rows = 1 .. n /\ \A t \in 1 .. n : rows[t] = p + t
  BY <1>2, <1>5 DEF Rows
<1>10. \A t \in DOMAIN rows : rows[t] \in 0 .. MaxLen
  BY <1>2, <1>6, <1>9
<1> HIDE DEF rows
<1>11. host' \in Cache /\ Exact(host', p')
  BY <1>2, <1>3, <1>4, <1>5, <1>9, <1>10, FoldRowsExact, FoldRowsType
<1>12. TypeOK'
  BY <1>1, <1>3, <1>7, <1>8, <1>11 DEF TypeOK, driver, flags, ghosts
<1>13. Batched'
  BY <1>1, <1>2, <1>3, <1>8 DEF Prefilled, Batched, flags
<1>14. Prefilled'
  BY <1>8, <1>11, <1>13 DEF Prefilled
<1>15. StreamIsGreedy' /\ Stopped' /\ Placed'
  BY <1>1, <1>3, <1>14 DEF StreamIsGreedy, Stopped, Placed, Stepping, Rounds, ghosts
<1> QED
  BY <1>8, <1>12, <1>15 DEF IInv

\* PrefillDone: the decode bucket is seeded from the host, unless no window ran.
LEMMA PrefillDoneStep ==
  ASSUME IInv, PrefillDone
  PROVE  IInv'
<1> USE Constants
<1>1. TypeOK /\ Position /\ StreamIsGreedy /\ Prefilled /\ pc = "prefill" /\ pc' = "prompt" /\ ~Fits(PrefillS)
  BY DEF IInv, Placed, PrefillDone
<1>2. /\ reseedCache' = (kvLink /\ consumed > 0)
      /\ UNCHANGED <<driver, kvLink, caches, p, residentDirty, pendingResidentFold, prompt, consumed, next,
                     generated, ghosts>>
  BY DEF PrefillDone
<1>3. kvLink /\ ~(consumed > 0) => ~reseedCache
  <2>1. /\ p \in Nat /\ prompt \in Nat /\ consumed \in Nat /\ prompt > 0
    BY <1>1 DEF TypeOK, Position
  <2>2. ASSUME kvLink, ~(consumed > 0), reseedCache
        PROVE  FALSE
    <3>1. p + Smaller(prompt, MaxWindow) <= C /\ consumed = 0
      BY <1>1, <2>1, <2>2 DEF Prefilled, Batched, Begin
    <3>2. NextWindow(PrefillS) <= Smaller(prompt, MaxWindow) /\ NextWindow(PrefillS) \in Int
          /\ Smaller(prompt, MaxWindow) \in Int
      BY <2>1, <3>1, SmallerIs DEF NextWindow, MaxWindow
    <3> QED
      BY <1>1, <2>1, <3>1, <3>2 DEF Fits
  <2> QED
    BY <2>2
<1>4. kvLink' /\ ~reseedCache' => Exact(ResidentAt(p)', p')
  <2>1. ResidentAt(p)' = ResidentAt(p) /\ p' = p
    BY <1>2 DEF ResidentAt, caches
  <2>2. ~(consumed > 0) => consumed = 0
    BY <1>1 DEF TypeOK
  <2> QED
    BY <1>1, <1>2, <1>3, <2>1, <2>2 DEF Prefilled, TypeOK
<1>5. TypeOK'
  BY <1>1, <1>2 DEF TypeOK, driver, caches, ghosts
<1>6. Position'
  BY <1>1, <1>2 DEF Position, Prompting, Chosen, driver, ghosts
<1>7. Stepped'
  BY <1>1, <1>2, <1>4 DEF Stepped, Prefilled, Batched, Exact, caches
<1>8. StreamIsGreedy' /\ Stopped' /\ Placed'
  BY <1>1, <1>2, <1>7 DEF StreamIsGreedy, Stopped, Placed, Stepping, Rounds, ghosts
<1> QED
  BY <1>5, <1>6, <1>8 DEF IInv

\* PromptStep: one token of the prompt.
LEMMA PromptStepStep ==
  ASSUME IInv, PromptStep
  PROVE  IInv'
<1> USE Constants
<1>1. TypeOK /\ Position /\ StreamIsGreedy /\ Stepped /\ pc = "prompt" /\ consumed < prompt /\ Step
      /\ consumed' = consumed + 1 /\ UNCHANGED <<driver, wide, prev, pc, prompt, generated, ghosts>>
  BY DEF IInv, Placed, Stepping, PromptStep
<1>2. p = fed - (prompt - consumed) /\ turn > 0 /\ prompt \in Nat /\ consumed \in Nat /\ p \in Nat
  BY <1>1 DEF Position, Prompting, TypeOK
<1>3. p + 1 <= MaxLen
  <2>1. fed + (MaxPrompt - prompt) + (MaxTokens - generated) <= MaxLen
    BY <1>1, <1>2, BoundIs
  <2> QED
    BY <1>1, <1>2, <2>1 DEF TypeOK
<1>4. /\ p' = p + 1 /\ next' \in Token /\ next'.of = p + 1
      /\ host' \in Cache /\ decode' \in [past : Cache, present : 0 .. MaxLen] /\ kvLink' \in BOOLEAN
      /\ residentDirty' \in BOOLEAN /\ reseedCache' \in BOOLEAN /\ pendingResidentFold' \in BOOLEAN
      /\ Stepped'
  BY <1>1, <1>3, StepFacts
<1>5. 1 \in 1 .. prompt - consumed
  BY <1>1, <1>2
<1>6. Position' /\ p' \in 0 .. MaxLen /\ consumed' \in 0 .. prompt'
  BY <1>1, <1>4, <1>5, PassPosition
<1>7. TypeOK'
  BY <1>1, <1>4, <1>6 DEF TypeOK, driver, ghosts
<1>8. StreamIsGreedy' /\ Stopped' /\ Placed'
  BY <1>1, <1>4 DEF StreamIsGreedy, Stopped, Placed, Stepping, Rounds, ghosts
<1> QED
  BY <1>6, <1>7, <1>8 DEF IInv

\* PromptDone: the prompt is fed, and the choice after its last token waits.
LEMMA PromptDoneStep ==
  ASSUME IInv, PromptDone
  PROVE  IInv'
<1>1. TypeOK /\ Position /\ StreamIsGreedy /\ Stepped /\ pc = "prompt" /\ consumed = prompt
      /\ pc' = (IF kvLink /\ mode # "plain" THEN mode ELSE "decode")
      /\ UNCHANGED <<driver, kvLink, caches, p, flags, prompt, consumed, next, generated, ghosts>>
  BY DEF IInv, Placed, Stepping, PromptDone
<1>2. pc' \in {"decode", "chain", "spec"} /\ (pc' \in {"chain", "spec"} => kvLink')
  BY <1>1 DEF TypeOK
<1>3. TypeOK'
  BY <1>1, <1>2 DEF TypeOK, driver, caches, flags, ghosts
<1>4. Position'
  BY <1>1, <1>2 DEF Position, Prompting, Chosen, TypeOK, driver, ghosts
<1>5. Stepped'
  <2>1. ResidentAt(p)' = ResidentAt(p)
    BY <1>1 DEF ResidentAt, caches, flags
  <2> QED
    BY <1>1, <2>1 DEF Stepped, Exact, caches, flags
<1>6. StreamIsGreedy' /\ Stopped' /\ Placed'
  BY <1>1, <1>2, <1>5 DEF StreamIsGreedy, Stopped, Placed, Stepping, Rounds, ghosts
<1> QED
  BY <1>3, <1>4, <1>6 DEF IInv

-----------------------------------------------------------------------------
\* Decoding token by token.

\* There is room for all the budget leaves to print.
LEMMA RoomIs ==
  ASSUME TypeOK, Position, ~Prompting, turn > 0
  PROVE  p = fed /\ p + (MaxTokens - generated) <= MaxLen
<1>1. fed + (MaxPrompt - prompt) + (MaxTokens - generated) <= MaxLen
  BY BoundIs
<1> QED
  BY <1>1, Constants DEF TypeOK, Position

\* A token is printed and fed by one step.
LEMMA PrintedStep ==
  ASSUME TypeOK, Position, StreamIsGreedy, pc \in {"decode", "chain", "handoff"}, generated < MaxTokens, ~next.eos,
         Emit(<<next>>), generated' = generated + 1, p' = p + 1, next' \in Token, next'.of = p + 1,
         UNCHANGED <<turn, prompt, consumed>>, pc' \in {"decode", "idle"}
  PROVE  /\ Position' /\ StreamIsGreedy' /\ p' \in 0 .. MaxLen /\ fed' \in 0 .. MaxLen
         /\ stream' \in Seq(Token) /\ generated' \in 0 .. MaxTokens /\ Len(stream') = generated'
<1> USE Constants
<1>1. ~Prompting /\ ~Prompting' /\ Chosen /\ turn > 0
  BY DEF Prompting, Chosen, Position
<1>2. next = [of |-> fed, eos |-> FALSE] /\ p = fed /\ p + (MaxTokens - generated) <= MaxLen
  BY <1>1, NextIs, RoomIs
<1>3. <<next>> \in Seq(Token) /\ Len(<<next>>) = 1 /\ <<next>>[1] = next
  BY DEF TypeOK
<1>4. \A i \in 1 .. Len(<<next>>) : <<next>>[i] = [of |-> fed + i - 1, eos |-> FALSE]
  <2>1. fed + 1 - 1 = fed
    BY DEF TypeOK
  <2>2. ASSUME NEW i \in 1 .. 1
        PROVE  <<next>>[i] = [of |-> fed + i - 1, eos |-> FALSE]
    <3>1. i = 1
      OBVIOUS
    <3> QED
      BY <1>2, <1>3, <2>1, <3>1
  <2> QED
    BY <1>3, <2>2
<1>5. /\ StreamIsGreedy' /\ stream' \in Seq(Token)
      /\ Len(stream') = Len(stream) + Len(<<next>>) /\ fed' = fed + Len(<<next>>)
  BY <1>3, <1>4, EmitFacts
<1>6. fed' = fed + 1 /\ Len(stream') = Len(stream) + 1
  BY <1>3, <1>5
<1>7. p \in Nat /\ generated \in Nat /\ prompt \in Nat /\ turn \in Nat
  BY DEF TypeOK
<1>8. turn * (MaxPrompt + MaxTokens) \in Int
  BY <1>7
<1>9. Position'
  BY <1>1, <1>2, <1>6, <1>7, <1>8 DEF Position
<1> QED
  BY <1>2, <1>5, <1>6, <1>7, <1>9 DEF Position

\* DecodeStep: one token is printed and fed.
LEMMA DecodeStepStep ==
  ASSUME IInv, DecodeStep
  PROVE  IInv'
<1>1. TypeOK /\ Position /\ StreamIsGreedy /\ Stepped /\ pc = "decode" /\ generated < MaxTokens /\ ~next.eos
      /\ Emit(<<next>>) /\ generated' = generated + 1 /\ Step
      /\ UNCHANGED <<driver, wide, prev, pc, prompt, consumed, ended>>
  BY DEF IInv, Placed, Stepping, DecodeStep
<1>2. p + 1 <= MaxLen
  <2>1. ~Prompting /\ turn > 0
    BY <1>1 DEF Prompting, Position
  <2> QED
    BY <1>1, <2>1, RoomIs, Constants DEF TypeOK
<1>3. /\ p' = p + 1 /\ next' \in Token /\ next'.of = p + 1
      /\ host' \in Cache /\ decode' \in [past : Cache, present : 0 .. MaxLen] /\ kvLink' \in BOOLEAN
      /\ residentDirty' \in BOOLEAN /\ reseedCache' \in BOOLEAN /\ pendingResidentFold' \in BOOLEAN
      /\ Stepped'
  BY <1>1, <1>2, StepFacts
<1>4. UNCHANGED <<turn, prompt, consumed>> /\ pc' = "decode"
  BY <1>1 DEF driver
<1>5. /\ Position' /\ StreamIsGreedy' /\ p' \in 0 .. MaxLen /\ fed' \in 0 .. MaxLen
      /\ stream' \in Seq(Token) /\ generated' \in 0 .. MaxTokens
  BY <1>1, <1>3, <1>4, PrintedStep
<1>6. TypeOK'
  BY <1>1, <1>3, <1>5 DEF TypeOK, driver
<1>7. Stopped' /\ Placed'
  BY <1>3, <1>4 DEF Stopped, Placed, Stepping, Rounds
<1> QED
  BY <1>5, <1>6, <1>7 DEF IInv

\* A turn ends at the budget or before an end of stream; nothing else moves.
LEMMA EndTurnStep ==
  ASSUME IInv, pc \in {"decode", "chain", "handoff"}, generated >= MaxTokens \/ next.eos, EndTurn,
         UNCHANGED <<driver, kvLink, caches, p, flags, prompt, consumed, next, generated, fed, stream>>
  PROVE  IInv'
<1>1. TypeOK /\ Position /\ StreamIsGreedy /\ Stepped
  BY DEF IInv, Placed, Stepping
<1>2. Chosen /\ ~Prompting /\ p = fed /\ next.of = p /\ pc' = "idle" /\ ended' = (IF next.eos THEN next ELSE NoToken)
  BY <1>1 DEF Chosen, Prompting, Position, EndTurn
<1>3. Over'
  <2>1. CASE next.eos
    <3>1. next = [of |-> fed, eos |-> TRUE]
      BY <1>1, <1>2, <2>1 DEF TypeOK, Token
    <3> QED
      BY <1>2, <2>1, <3>1 DEF Over
  <2>2. CASE generated >= MaxTokens
    <3>1. Len(stream) = MaxTokens
      BY <1>1, <2>2, Constants DEF Position, TypeOK
    <3> QED
      BY <3>1 DEF Over
  <2> QED
    BY <2>1, <2>2
<1>4. TypeOK'
  <2>1. ended' \in Token
    BY <1>1, <1>2, Constants DEF TypeOK, NoToken, Token
  <2> QED
    BY <1>1, <1>2, <2>1 DEF TypeOK, driver, caches, flags
<1>5. Position'
  BY <1>1, <1>2 DEF Position, Prompting, Chosen, driver
<1>6. Stepped'
  <2>1. ResidentAt(p)' = ResidentAt(p)
    BY DEF ResidentAt, caches, flags
  <2> QED
    BY <1>1, <2>1 DEF Stepped, Exact, caches, flags
<1>7. StreamIsGreedy' /\ Stopped' /\ Placed'
  BY <1>1, <1>2, <1>3, <1>6 DEF StreamIsGreedy, Stopped, Placed, Rounds
<1> QED
  BY <1>4, <1>5, <1>7 DEF IInv

\* DecodeDone, ChainDone, HandoffDone.
LEMMA EndsStep ==
  ASSUME IInv, DecodeDone \/ ChainDone \/ HandoffDone
  PROVE  IInv'
<1>1. CASE DecodeDone
  BY <1>1, EndTurnStep DEF DecodeDone
<1>2. CASE ChainDone
  BY <1>2, EndTurnStep DEF ChainDone
<1>3. CASE HandoffDone
  BY <1>3, EndTurnStep DEF HandoffDone
<1> QED
  BY <1>1, <1>2, <1>3

\* The last token of a chain turn, and the token handed to the single-step loop.
LEMMA LastTokenStep ==
  ASSUME IInv, ChainLast \/ Handoff
  PROVE  IInv'
<1>1. TypeOK /\ Position /\ StreamIsGreedy /\ Stepped /\ pc \in {"chain", "handoff"} /\ generated < MaxTokens /\ ~next.eos
      /\ Emit(<<next>>) /\ generated' = generated + 1 /\ Step
      /\ UNCHANGED <<driver, wide, prev, prompt, consumed>>
  BY Constants DEF IInv, Placed, Stepping, ChainLast, Handoff, TypeOK
<1>2. p + 1 <= MaxLen
  <2>1. ~Prompting /\ turn > 0
    BY <1>1 DEF Prompting, Position
  <2> QED
    BY <1>1, <2>1, RoomIs, Constants DEF TypeOK
<1>3. /\ p' = p + 1 /\ next' \in Token /\ next'.of = p + 1
      /\ host' \in Cache /\ decode' \in [past : Cache, present : 0 .. MaxLen] /\ kvLink' \in BOOLEAN
      /\ residentDirty' \in BOOLEAN /\ reseedCache' \in BOOLEAN /\ pendingResidentFold' \in BOOLEAN
      /\ Stepped'
  BY <1>1, <1>2, StepFacts
<1>4. UNCHANGED <<turn, prompt, consumed>> /\ pc' \in {"decode", "idle"} /\ ended' \in Token
      /\ (pc' = "idle" => generated' = MaxTokens)
  <2>1. turn' = turn /\ prompt' = prompt /\ consumed' = consumed /\ ended \in Token /\ NoToken \in Token
    BY <1>1, Constants DEF driver, TypeOK, NoToken, Token
  <2>2. CASE ChainLast
    BY <1>1, <2>1, <2>2 DEF ChainLast
  <2>3. CASE Handoff
    BY <1>1, <2>1, <2>3 DEF Handoff
  <2> QED
    BY <2>2, <2>3
<1>5. /\ Position' /\ StreamIsGreedy' /\ p' \in 0 .. MaxLen /\ fed' \in 0 .. MaxLen
      /\ stream' \in Seq(Token) /\ generated' \in 0 .. MaxTokens /\ Len(stream') = generated'
  BY <1>1, <1>3, <1>4, PrintedStep
<1>6. TypeOK'
  BY <1>1, <1>3, <1>4, <1>5 DEF TypeOK, driver
<1>7. Stopped' /\ Placed'
  BY <1>3, <1>4, <1>5 DEF Stopped, Over, Placed, Stepping, Rounds
<1> QED
  BY <1>5, <1>6, <1>7 DEF IInv

\* DraftBehind: nothing moves but the phase.
LEMMA DraftBehindStep ==
  ASSUME IInv, DraftBehind
  PROVE  IInv'
<1>1. TypeOK /\ Position /\ StreamIsGreedy /\ Stepped /\ pc = "spec" /\ pc' = "handoff"
      /\ UNCHANGED <<driver, kvLink, caches, p, flags, prompt, consumed, next, generated, ghosts>>
  BY DEF IInv, Placed, Stepping, DraftBehind
<1>2. TypeOK'
  BY <1>1 DEF TypeOK, driver, caches, flags, ghosts
<1>3. Position'
  BY <1>1 DEF Position, Prompting, Chosen, driver, ghosts
<1>4. Stepped'
  <2>1. ResidentAt(p)' = ResidentAt(p)
    BY <1>1 DEF ResidentAt, caches, flags
  <2> QED
    BY <1>1, <2>1 DEF Stepped, Exact, caches, flags
<1>5. StreamIsGreedy' /\ Stopped' /\ Placed'
  BY <1>1, <1>4 DEF StreamIsGreedy, Stopped, Placed, Rounds, ghosts
<1> QED
  BY <1>2, <1>3, <1>5 DEF IInv

\* ChainFails: the host loop goes on from the resident cache; without a reseed owed (Corners) that is
\* the conversation.
LEMMA ChainFailsStep ==
  ASSUME IInv, Corners = {}, ChainFails
  PROVE  IInv'
<1>1. TypeOK /\ Position /\ StreamIsGreedy /\ Stepped /\ kvLink /\ pc = "chain" /\ generated < MaxTokens /\ ~next.eos
      /\ Emit(<<next>>) /\ generated' = generated + 1 /\ HostStep(Resident) /\ p' = p + 1 /\ pc' = "decode"
      /\ ~reseedCache /\ UNCHANGED <<driver, wide, prev, prompt, consumed, ended>>
  BY Constants DEF IInv, Placed, Stepping, ChainFails, TypeOK
<1>2. p + 1 <= MaxLen
  <2>1. ~Prompting /\ turn > 0
    BY <1>1 DEF Prompting, Position
  <2> QED
    BY <1>1, <2>1, RoomIs, Constants DEF TypeOK
<1>3. Resident \in Cache /\ Exact(Resident, p)
  BY <1>1, ResidentIs DEF Stepped
<1>4. /\ next' \in Token /\ next'.of = p + 1
      /\ host' \in Cache /\ decode' \in [past : Cache, present : 0 .. MaxLen] /\ kvLink' = FALSE
      /\ UNCHANGED flags /\ Stepped'
  BY <1>1, <1>2, <1>3, HostStepFacts
<1>5. UNCHANGED <<turn, prompt, consumed>>
  BY <1>1 DEF driver
<1>6. /\ Position' /\ StreamIsGreedy' /\ p' \in 0 .. MaxLen /\ fed' \in 0 .. MaxLen
      /\ stream' \in Seq(Token) /\ generated' \in 0 .. MaxTokens
  BY <1>1, <1>4, <1>5, PrintedStep
<1>7. TypeOK'
  BY <1>1, <1>4, <1>6 DEF TypeOK, driver, flags
<1>8. Stopped' /\ Placed'
  BY <1>1, <1>4 DEF Stopped, Placed, Stepping, Rounds
<1> QED
  BY <1>6, <1>7, <1>8 DEF IInv

-----------------------------------------------------------------------------
\* Decoding in device chains.

\* One iteration of a chain, from the iterations before it.
ChainPast(run, i) ==
  IF i > 0 THEN Fold(run[i - 1].past, kvFoldSlot(p + i), run[i - 1].present)
  ELSE IF reseedCache THEN host ELSE Resident
ChainBody(run, k, i) ==
  [past |-> ChainPast(run, i), present |-> IF i <= k THEN RowAt(ChainPast(run, i), p + i) ELSE 0]

\* The iterations of a chain exist, each computed from the one before.
LEMMA ChainExists ==
  ASSUME NEW k, NEW n \in Nat
  PROVE  \E run : run = [i \in 0 .. n |-> ChainBody(run, k, i)]
<1> DEFINE T == {m \in Nat : ~ \E run : run = [i \in 0 .. m |-> ChainBody(run, k, i)]}
<1>1. ASSUME NEW m \in T, \A y \in T : m <= y
      PROVE  FALSE
  <2>1. CASE m = 0
    <3> DEFINE run == [i \in 0 .. 0 |-> ChainBody(<<>>, k, i)]
    <3>1. \A i \in 0 .. 0 : ChainBody(<<>>, k, i) = ChainBody(run, k, i)
      BY DEF ChainBody, ChainPast
    <3>2. run = [i \in 0 .. 0 |-> ChainBody(run, k, i)]
      <4>1. [i \in 0 .. 0 |-> ChainBody(<<>>, k, i)] = [i \in 0 .. 0 |-> ChainBody(run, k, i)]
        <5> HIDE DEF run
        <5> QED
          BY <3>1
      <4> QED
        BY <4>1, Zenon
    <3> QED
      BY <2>1, <3>2, Zenon
  <2>2. CASE m # 0
    <3>1. m \in Nat /\ m - 1 \in Nat /\ m - 1 \notin T
      BY <1>1, <2>2
    <3>2. PICK before : before = [i \in 0 .. m - 1 |-> ChainBody(before, k, i)]
      BY <3>1
    <3> DEFINE run == [i \in 0 .. m |-> IF i < m THEN before[i] ELSE ChainBody(before, k, m)]
    <3>3. \A i \in 0 .. m : i < m => before[i] = ChainBody(before, k, i)
      <4> SUFFICES ASSUME NEW i \in 0 .. m, i < m
                   PROVE  before[i] = ChainBody(before, k, i)
        OBVIOUS
      <4>1. i \in 0 .. m - 1
        BY <3>1
      <4> DEFINE body(j) == ChainBody(before, k, j)
      <4>2. before = [j \in 0 .. m - 1 |-> body(j)]
        BY <3>2
      <4> HIDE DEF body
      <4>3. before[i] = body(i)
        BY <4>1, <4>2
      <4> QED
        BY <4>3 DEF body
    <3>4. ASSUME NEW i \in 0 .. m
          PROVE  ChainBody(before, k, i) = ChainBody(run, k, i)
      <4>1. CASE i = 0
        BY <4>1 DEF ChainBody, ChainPast
      <4>2. CASE i > 0
        <5>1. i - 1 \in 0 .. m /\ i - 1 < m
          BY <3>1, <4>2
        <5>2. run[i - 1] = before[i - 1]
          BY <5>1
        <5> HIDE DEF run
        <5> QED
          BY <5>2 DEF ChainBody, ChainPast
      <4> QED
        BY <3>1, <4>1, <4>2
    <3>5. ASSUME NEW i \in 0 .. m
          PROVE  (IF i < m THEN before[i] ELSE ChainBody(before, k, m)) = ChainBody(run, k, i)
      <4>1. CASE i < m
        BY <3>3, <3>4, <4>1, Zenon
      <4>2. CASE ~(i < m)
        <5>1. i = m
          BY <3>1, <4>2
        <5> QED
          BY <3>4, <4>2, <5>1, Zenon
      <4> QED
        BY <4>1, <4>2
    <3>6. run = [i \in 0 .. m |-> ChainBody(run, k, i)]
      <4>1. [i \in 0 .. m |-> IF i < m THEN before[i] ELSE ChainBody(before, k, m)]
              = [i \in 0 .. m |-> ChainBody(run, k, i)]
        <5> HIDE DEF run
        <5> QED
          BY <3>5
      <4> QED
        BY <4>1, Zenon
    <3> QED
      BY <1>1, <3>1, <3>6, Zenon
  <2> QED
    BY <2>1, <2>2
<1>2. T \subseteq Nat
  OBVIOUS
<1>3. T = {}
  <2> HIDE DEF T
  <2> QED
    BY <1>1, <1>2, LeastNat
<1> QED
  BY <1>3

\* What Chain(k) holds.
LEMMA ChainIs ==
  ASSUME NEW k, ChainIterations \in Nat \ {0}
  PROVE  \A i \in 0 .. ChainIterations - 1 : Chain(k)[i] = ChainBody(Chain(k), k, i)
<1>1. ChainIterations - 1 \in Nat
  OBVIOUS
<1>2. \E run : run = [i \in 0 .. ChainIterations - 1 |-> ChainBody(run, k, i)]
  BY <1>1, ChainExists
<1>3. Chain(k) = CHOOSE run : run = [i \in 0 .. ChainIterations - 1 |-> ChainBody(run, k, i)]
  BY DEF Chain, ChainBody, ChainPast
<1> DEFINE run == Chain(k)
<1>4. run = [i \in 0 .. ChainIterations - 1 |-> ChainBody(run, k, i)]
  BY <1>2, <1>3, Zenon
<1> DEFINE body(i) == ChainBody(run, k, i)
<1>5. run = [i \in 0 .. ChainIterations - 1 |-> body(i)]
  BY <1>4, Zenon
<1> HIDE DEF body, run
<1>6. \A i \in 0 .. ChainIterations - 1 : run[i] = body(i)
  BY <1>5
<1> QED
  BY <1>6, Zenon DEF body, run

\* A chain has an iteration, stays within the budget, and below the context edge when it has more.
LEMMA IterationsAre ==
  ASSUME TypeOK, generated + 1 < MaxTokens
  PROVE  /\ ChainIterations \in Nat \ {0} /\ generated + 1 + ChainIterations <= MaxTokens
         /\ ChainIterations > 1 => p + ChainIterations <= C
<1>1. p \in Nat /\ generated \in Nat /\ ChainSteps \in Nat \ {0} /\ C \in Nat /\ MaxTokens \in Nat
  BY Constants DEF TypeOK
<1> DEFINE most == IF p < C THEN Smaller(ChainSteps, C - p) ELSE 1
<1>2. most \in Nat \ {0} /\ (most > 1 => p + most <= C)
  <2>1. Smaller(ChainSteps, C - p) = IF ChainSteps <= C - p THEN ChainSteps ELSE C - p
    BY <1>1, SmallerIs
  <2> QED
    BY <1>1, <2>1
<1> HIDE DEF most
<1>3. Smaller(most, MaxTokens - (generated + 1))
        = IF most <= MaxTokens - (generated + 1) THEN most ELSE MaxTokens - (generated + 1)
  BY <1>1, <1>2, SmallerIs
<1>4. ChainIterations = Smaller(most, MaxTokens - (generated + 1))
  BY DEF ChainIterations, most
<1> QED
  BY <1>1, <1>2, <1>3, <1>4

\* No row is folded at slot -1.
LEMMA FoldNone ==
  ASSUME NEW cache, NEW n \in Nat, NEW row, Exact(cache, n)
  PROVE  Exact(Fold(cache, -1, row), n)
<1> DEFINE folded == Fold(cache, -1, row)
<1>1. ASSUME NEW j \in Slots
      PROVE  folded[j] = cache[j]
  BY FoldIs, Constants DEF Slots
<1>2. \A j \in Slots : j < n => cache[j] = IF j < C - 1 THEN j + 1 ELSE n
  BY ExactIs
<1> HIDE DEF folded
<1>3. Exact(folded, n)
  BY <1>1, <1>2, ExactIs
<1> QED
  BY <1>3 DEF folded

\* Every iteration of a chain runs on the cache of the conversation as far as it goes: up to the
\* iteration that chose an end of stream, and no row behind it is touched afterwards.
LEMMA ChainFacts ==
  ASSUME TypeOK, Stepped, kvLink, NEW k \in Nat, NEW n \in Nat \ {0}, n = ChainIterations,
         p + n <= MaxLen, n > 1 => p + n <= C
  PROVE  \A i \in 0 .. n - 1 :
           /\ Chain(k)[i].past \in Cache /\ Chain(k)[i].present \in 0 .. MaxLen
           /\ Chain(k)[i] = [past |-> Chain(k)[i].past, present |-> Chain(k)[i].present]
           /\ Exact(Chain(k)[i].past, IF i <= k THEN p + i ELSE p + k + 1)
           /\ i <= k => Chain(k)[i].present = p + i + 1
<1> USE Constants
<1> DEFINE run == Chain(k)
           Right(i) == /\ run[i].past \in Cache /\ run[i].present \in 0 .. MaxLen
                       /\ run[i] = [past |-> run[i].past, present |-> run[i].present]
                       /\ Exact(run[i].past, IF i <= k THEN p + i ELSE p + k + 1)
                       /\ i <= k => run[i].present = p + i + 1
           T == {i \in 0 .. n - 1 : ~ Right(i)}
<1>1. p \in Nat
  BY DEF TypeOK
<1>2. \A i \in 0 .. n - 1 : run[i] = ChainBody(run, k, i)
  BY ChainIs
<1> HIDE DEF run
<1>3. ASSUME NEW i \in 0 .. n - 1, NEW past \in Cache, past = ChainPast(run, i),
             Exact(past, IF i <= k THEN p + i ELSE p + k + 1)
      PROVE  Right(i)
  <2>1. run[i] = [past |-> past, present |-> IF i <= k THEN RowAt(past, p + i) ELSE 0]
    BY <1>2, <1>3 DEF ChainBody
  <2>2. i <= k => RowAt(past, p + i) = p + i + 1
    BY <1>1, <1>3, RowAtExact
  <2>3. p + i + 1 \in 0 .. MaxLen
    BY <1>1
  <2> QED
    BY <1>3, <2>1, <2>2, <2>3
<1>4. Right(0)
  <2> DEFINE past == IF reseedCache THEN host ELSE Resident
  <2>1. past \in Cache /\ Exact(past, p)
    BY ResidentIs DEF Stepped, TypeOK
  <2>2. past = ChainPast(run, 0)
    BY DEF ChainPast
  <2> HIDE DEF past
  <2>3. 0 \in 0 .. n - 1 /\ 0 <= k /\ p + 0 = p
    BY <1>1
  <2> HIDE DEF Right
  <2> QED
    BY <1>3, <2>1, <2>2, <2>3
<1>5. ASSUME NEW i \in 1 .. n - 1, Right(i - 1)
      PROVE  Right(i)
  <2> DEFINE cache == run[i - 1].past
             row == run[i - 1].present
             past == Fold(cache, kvFoldSlot(p + i), row)
  <2>1. p + i \in Nat /\ p + i <= C /\ i - 1 \in Nat
    BY <1>1
  <2>2. kvFoldSlot(p + i) = p + i - 1
    BY <1>1, <2>1, FoldSlotIs
  <2>3. cache \in Cache /\ row \in 0 .. MaxLen /\ Exact(cache, IF i - 1 <= k THEN p + (i - 1) ELSE p + k + 1)
        /\ (i - 1 <= k => row = p + (i - 1) + 1)
    BY <1>5
  <2>4. past = ChainPast(run, i)
    BY DEF ChainPast
  <2> HIDE DEF cache, row
  <2>5. past \in Cache
    BY <1>1, <2>2, <2>3, FoldType
  <2>6. CASE i <= k + 1
    <3>1. i - 1 <= k /\ p + (i - 1) \in Nat /\ p + (i - 1) + 1 = p + i
      BY <1>1, <2>1, <2>6
    <3>2. Exact(cache, p + (i - 1)) /\ row = p + (i - 1) + 1
      BY <2>3, <3>1
    <3>3. Exact(Fold(cache, kvFoldSlot(p + (i - 1) + 1), p + (i - 1) + 1), p + (i - 1) + 1)
      BY <3>1, <3>2, FoldExact
    <3>4. Exact(past, p + i)
      BY <3>1, <3>2, <3>3
    <3>5. (IF i <= k THEN p + i ELSE p + k + 1) = p + i
      BY <1>1, <2>6
    <3> HIDE DEF past
    <3> QED
      BY <1>3, <2>4, <2>5, <3>4, <3>5
  <2>7. CASE i > k + 1
    <3>1. ~(i - 1 <= k) /\ p + k + 1 \in Nat /\ p + i - 1 \in Nat /\ p + k + 1 <= p + i - 1
      BY <1>1, <2>1, <2>7
    <3>2. Exact(cache, p + k + 1)
      BY <2>3, <3>1
    <3>3. Exact(Fold(cache, p + i - 1, row), p + k + 1)
      BY <3>1, <3>2, FoldBehind
    <3>4. Exact(past, p + k + 1)
      BY <2>2, <3>3
    <3>5. (IF i <= k THEN p + i ELSE p + k + 1) = p + k + 1
      BY <2>7
    <3> HIDE DEF past
    <3> QED
      BY <1>3, <2>4, <2>5, <3>4, <3>5
  <2> QED
    BY <2>6, <2>7
<1>6. T = {}
  <2> HIDE DEF Right
  <2>1. ASSUME NEW m \in T, \A y \in T : m <= y
        PROVE  FALSE
    <3>1. CASE m = 0
      BY <1>4, <3>1
    <3>2. CASE m # 0
      <4>1. m \in 1 .. n - 1 /\ m - 1 \in 0 .. n - 1 /\ ~(m <= m - 1)
        BY <3>2
      <4>2. m - 1 \notin T
        BY <2>1, <4>1
      <4>3. Right(m - 1)
        BY <4>1, <4>2
      <4> QED
        BY <1>5, <4>1, <4>3
    <3> QED
      BY <3>1, <3>2
  <2>2. T \subseteq Nat
    OBVIOUS
  <2> HIDE DEF T
  <2> QED
    BY <2>1, <2>2, LeastNat
<1>7. \A i \in 0 .. n - 1 : Right(i)
  <2> HIDE DEF Right
  <2> QED
    BY <1>6
<1> QED
  BY <1>7 DEF run

\* ChainRun: the tokens up to the first end of stream are printed, and only the last iteration's row,
\* when it is live, is left to fold.
LEMMA ChainRunStep ==
  ASSUME IInv, ChainRun
  PROVE  IInv'
<1> USE Constants
<1> DEFINE n == ChainIterations
           ids(k) == [i \in 1 .. n |-> [of |-> Chain(k)[i - 1].present, eos |-> i = k + 1]]
<1>1. TypeOK /\ Position /\ StreamIsGreedy /\ Stepped /\ kvLink /\ pc = "chain" /\ generated + 1 < MaxTokens /\ ~next.eos
      /\ residentDirty' = TRUE /\ reseedCache' = FALSE
      /\ UNCHANGED <<driver, kvLink, host, wide, prev, prompt, consumed>>
  BY DEF IInv, Placed, Stepping, ChainRun
<1>2. PICK k \in 0 .. n :
        /\ decode' = Chain(k)[n - 1]
        /\ pendingResidentFold' = PendingAfterChain(k, n)
        /\ Emit(<<next>> \o SubSeq(ids(k), 1, Smaller(k, n - 1)))
        /\ generated' = generated + 1 + Smaller(k, n - 1)
        /\ p' = p + Smaller(k + 1, n)
        /\ IF k < n THEN pc' = "idle" /\ ended' = ids(k)[k + 1] /\ UNCHANGED next
                    ELSE next' = ids(k)[n] /\ UNCHANGED <<pc, ended>>
  BY Zenon DEF ChainRun
<1>3. n \in Nat \ {0} /\ generated + 1 + n <= MaxTokens /\ (n > 1 => p + n <= C)
  BY <1>1, IterationsAre
<1>4. ~Prompting /\ Chosen /\ turn > 0
  BY <1>1 DEF Prompting, Chosen, Position
<1>5. p = fed /\ p \in Nat /\ generated \in Nat /\ prompt \in Nat /\ turn \in Nat /\ p + (MaxTokens - generated) <= MaxLen
      /\ next = [of |-> fed, eos |-> FALSE]
  BY <1>1, <1>4, RoomIs, NextIs DEF TypeOK
<1>6. p + n <= MaxLen /\ p + n + 1 <= MaxLen
  BY <1>3, <1>5
<1> DEFINE run == Chain(k)
<1>7. \A i \in 0 .. n - 1 :
        /\ run[i].past \in Cache /\ run[i].present \in 0 .. MaxLen
        /\ run[i] = [past |-> run[i].past, present |-> run[i].present]
        /\ Exact(run[i].past, IF i <= k THEN p + i ELSE p + k + 1)
        /\ i <= k => run[i].present = p + i + 1
  <2>1. k \in Nat
    BY <1>3
  <2> HIDE DEF n
  <2>2. n = ChainIterations
    BY DEF n
  <2> QED
    BY <1>1, <1>3, <1>6, <2>1, <2>2, ChainFacts
<1> HIDE DEF n, run
<1>8. k \in Nat /\ k <= n
  BY <1>3
<1> DEFINE m == Smaller(k, n - 1)
<1>9. m = (IF k <= n - 1 THEN k ELSE n - 1) /\ Smaller(k + 1, n) = m + 1
  BY <1>3, <1>8, SmallerIs
<1> HIDE DEF m
<1>10. m \in Nat /\ m <= k /\ m <= n - 1 /\ p' = p + m + 1 /\ generated' = generated + m + 1
  <2>1. m \in Nat /\ m <= k /\ m <= n - 1
    BY <1>3, <1>8, <1>9
  <2>2. p' = p + (m + 1)
    BY <1>2, <1>9
  <2>3. generated' = generated + 1 + m
    BY <1>2 DEF m
  <2> QED
    BY <1>5, <2>1, <2>2, <2>3
<1>11. \A i \in 1 .. n : ids(k)[i] = [of |-> run[i - 1].present, eos |-> i = k + 1]
  BY DEF run
<1>12. \A i \in 1 .. n : ids(k)[i] \in Token
  <2> SUFFICES ASSUME NEW i \in 1 .. n
               PROVE  ids(k)[i] \in Token
    OBVIOUS
  <2>1. i - 1 \in 0 .. n - 1
    BY <1>3
  <2>2. run[i - 1].present \in 0 .. MaxLen /\ (i = k + 1) \in BOOLEAN
    BY <1>7, <2>1
  <2> QED
    BY <1>11, <2>2 DEF Token
<1>13. ids(k) \in Seq(Token) /\ Len(ids(k)) = n
  BY <1>3, <1>12
<1> DEFINE sub == SubSeq(ids(k), 1, m)
           tokens == <<next>> \o sub
<1>14. \A i \in 1 .. m : ids(k)[i] = [of |-> p + i, eos |-> FALSE]
  <2> SUFFICES ASSUME NEW i \in 1 .. m
               PROVE  ids(k)[i] = [of |-> p + i, eos |-> FALSE]
    OBVIOUS
  <2>1. i - 1 \in 0 .. n - 1 /\ i - 1 <= k /\ i # k + 1 /\ i \in 1 .. n /\ p + (i - 1) + 1 = p + i
    BY <1>3, <1>5, <1>8, <1>10
  <2>2. run[i - 1].present = p + i
    BY <1>7, <2>1
  <2> QED
    BY <1>11, <2>1, <2>2
<1>15. sub \in Seq(Token) /\ Len(sub) = m /\ \A i \in 1 .. m : sub[i] = [of |-> p + i, eos |-> FALSE]
  <2> DEFINE all == ids(k)
  <2>1. all \in Seq(Token) /\ Len(all) = n /\ m \in 0 .. n
    BY <1>3, <1>10, <1>13
  <2>2. \A i \in 1 .. m : all[i] = [of |-> p + i, eos |-> FALSE]
    BY <1>14
  <2> HIDE DEF all
  <2>3. SubSeq(all, 1, m) \in Seq(Token) /\ Len(SubSeq(all, 1, m)) = m
        /\ \A i \in 1 .. m : SubSeq(all, 1, m)[i] = all[i]
    BY <2>1
  <2> QED
    BY <2>2, <2>3 DEF all
<1> HIDE DEF sub
<1>16. tokens \in Seq(Token) /\ Len(tokens) = m + 1
       /\ \A i \in 1 .. Len(tokens) : tokens[i] = [of |-> fed + i - 1, eos |-> FALSE]
  <2>1. <<next>> \in Seq(Token) /\ Len(<<next>>) = 1 /\ <<next>>[1] = next
    BY <1>1 DEF TypeOK
  <2>2. tokens \in Seq(Token) /\ Len(tokens) = m + 1
    BY <1>10, <1>15, <2>1
  <2>3. ASSUME NEW i \in 1 .. m + 1
        PROVE  tokens[i] = [of |-> fed + i - 1, eos |-> FALSE]
    <3>1. CASE i = 1
      <4>1. tokens[1] = next /\ fed + 1 - 1 = fed
        BY <1>5, <1>10, <1>15, <2>1
      <4> QED
        BY <1>5, <3>1, <4>1
    <3>2. CASE i > 1
      <4>1. i - 1 \in 1 .. m /\ tokens[i] = sub[i - 1] /\ p + (i - 1) = fed + i - 1
        BY <1>5, <1>10, <1>15, <2>1, <3>2
      <4>2. sub[i - 1] = [of |-> p + (i - 1), eos |-> FALSE]
        BY <1>15, <4>1
      <4> QED
        BY <4>1, <4>2
    <3>3. i = 1 \/ i > 1
      BY <1>10
    <3> QED
      BY <3>1, <3>2, <3>3
  <2> QED
    BY <2>2, <2>3
<1>17. Emit(tokens)
  BY <1>2 DEF sub, m
<1> HIDE DEF tokens
<1>18. /\ StreamIsGreedy' /\ stream' \in Seq(Token) /\ Len(stream') = Len(stream) + (m + 1) /\ fed' = fed + (m + 1)
  <2>1. /\ StreamIsGreedy' /\ stream' \in Seq(Token)
        /\ Len(stream') = Len(stream) + Len(tokens) /\ fed' = fed + Len(tokens)
    BY <1>1, <1>16, <1>17, EmitFacts
  <2> QED
    BY <1>16, <2>1
<1>19. fed' = p' /\ Len(stream') = generated' /\ generated' \in 0 .. MaxTokens /\ p' \in 0 .. MaxLen
  BY <1>1, <1>3, <1>5, <1>6, <1>10, <1>18 DEF Position
<1>20. decode' \in [past : Cache, present : 0 .. MaxLen] /\ Exact(ResidentAt(p)', p')
  <2>1. n - 1 \in 0 .. n - 1
    BY <1>3
  <2>2. /\ decode' = run[n - 1]
        /\ run[n - 1].past \in Cache /\ run[n - 1].present \in 0 .. MaxLen
        /\ run[n - 1] = [past |-> run[n - 1].past, present |-> run[n - 1].present]
        /\ Exact(run[n - 1].past, IF n - 1 <= k THEN p + (n - 1) ELSE p + k + 1)
        /\ n - 1 <= k => run[n - 1].present = p + (n - 1) + 1
    BY <1>2, <1>7, <2>1 DEF run
  <2>3. decode' \in [past : Cache, present : 0 .. MaxLen]
    BY <2>2
  <2> DEFINE past == run[n - 1].past
             row == run[n - 1].present
  <2>4. decode'.past = past /\ decode'.present = row
    BY <2>2
  <2> HIDE DEF past, row
  <2>5. pendingResidentFold' = (k >= n - 1)
    BY <1>2 DEF PendingAfterChain
  <2>6. CASE k >= n - 1
    <3>1. n - 1 <= k /\ p + (n - 1) \in Nat /\ p' = p + (n - 1) + 1
      BY <1>3, <1>5, <1>8, <1>9, <1>10, <2>6
    <3>2. Exact(past, p + (n - 1)) /\ row = p + (n - 1) + 1
      BY <2>2, <3>1 DEF past, row
    <3>3. Exact(Fold(past, kvFoldSlot(p + (n - 1) + 1), p + (n - 1) + 1), p + (n - 1) + 1)
      BY <3>1, <3>2, FoldExact
    <3>4. ResidentAt(p)' = Fold(past, kvFoldSlot(p'), row)
      BY <2>4, <2>5, <2>6 DEF ResidentAt, Fold, FoldRows, kvFoldSlot
    <3> QED
      BY <2>3, <3>1, <3>2, <3>3, <3>4
  <2>7. CASE ~(k >= n - 1)
    <3>1. ~(n - 1 <= k) /\ p' = p + k + 1 /\ p' \in Nat
      BY <1>3, <1>5, <1>8, <1>9, <1>10, <2>7
    <3>2. Exact(past, p')
      BY <2>2, <3>1 DEF past
    <3>3. ResidentAt(p)' = Fold(past, -1, row)
      BY <2>4, <2>5, <2>7 DEF ResidentAt, Fold, FoldRows
    <3>4. Exact(Fold(past, -1, row), p')
      BY <3>1, <3>2, FoldNone
    <3> QED
      BY <2>3, <3>3, <3>4
  <2> QED
    BY <2>6, <2>7
<1>21. pc' \in {"idle", "chain"} /\ next' \in Token /\ ended' \in Token /\ (pc' = "chain" => next'.of = p')
       /\ (pc' = "idle" => ended' = [of |-> p', eos |-> TRUE])
  <2>1. CASE k < n
    <3>1. pc' = "idle" /\ ended' = ids(k)[k + 1] /\ next' = next /\ k + 1 \in 1 .. n /\ k \in 0 .. n - 1
      BY <1>2, <1>3, <1>8, <2>1
    <3>2. ids(k)[k + 1] = [of |-> run[k].present, eos |-> TRUE] /\ run[k].present = p + k + 1 /\ p' = p + k + 1
      <4>1. k + 1 - 1 = k /\ k <= k /\ m = k
        BY <1>3, <1>8, <1>9, <2>1
      <4>2. ids(k)[k + 1] = [of |-> run[k + 1 - 1].present, eos |-> k + 1 = k + 1]
        BY <1>11, <3>1
      <4> QED
        BY <1>7, <1>10, <3>1, <4>1, <4>2
    <3> QED
      BY <1>1, <1>12, <3>1, <3>2 DEF TypeOK
  <2>2. CASE ~(k < n)
    <3>1. pc' = "chain" /\ ended' = ended /\ next' = ids(k)[n] /\ k = n /\ n \in 1 .. n /\ n - 1 \in 0 .. n - 1
      BY <1>1, <1>2, <1>3, <1>8, <2>2
    <3>2. ids(k)[n].of = run[n - 1].present
      BY <1>11, <3>1
    <3>3. run[n - 1].present = p + (n - 1) + 1 /\ p' = p + (n - 1) + 1
      <4>1. n - 1 <= k /\ m = n - 1
        BY <1>3, <1>8, <1>9, <3>1
      <4> QED
        BY <1>7, <1>10, <3>1, <4>1
    <3> QED
      BY <1>1, <1>12, <3>1, <3>2, <3>3 DEF TypeOK
  <2> QED
    BY <2>1, <2>2
<1>22. /\ UNCHANGED <<mode, prefill, chunk, turn, kvLink, host, wide, prev, prompt, consumed>>
       /\ residentDirty' = TRUE /\ reseedCache' = FALSE /\ pendingResidentFold' \in BOOLEAN
  BY <1>1, <1>2 DEF driver, PendingAfterChain
<1> HIDE DEF ids
<1>23. TypeOK'
  BY <1>1, <1>18, <1>19, <1>20, <1>21, <1>22 DEF TypeOK
<1>24. Position'
  <2>1. turn * (MaxPrompt + MaxTokens) \in Int
    BY <1>5
  <2>2. fed + (MaxPrompt - prompt) + (MaxTokens - generated) <= turn * (MaxPrompt + MaxTokens)
    BY <1>1, <1>4 DEF Position
  <2>3. fed' + (MaxPrompt - prompt) + (MaxTokens - generated') <= turn * (MaxPrompt + MaxTokens)
    BY <1>5, <1>10, <1>18, <2>1, <2>2
  <2> QED
    BY <1>1, <1>4, <1>19, <1>21, <1>22, <2>3 DEF Position, Prompting, Chosen
<1>25. Stepped'
  <2>1. Exact(ResidentAt(p), p)'
    BY <1>20 DEF Exact
  <2>2. kvLink' /\ residentDirty' /\ ~reseedCache'
    BY <1>1, <1>22
  <2> QED
    BY <2>1, <2>2 DEF Stepped
<1>26. Stopped' /\ Placed'
  BY <1>1, <1>19, <1>21, <1>22, <1>25 DEF Stopped, Over, Placed, Rounds
<1> QED
  BY <1>18, <1>23, <1>24, <1>26 DEF IInv

-----------------------------------------------------------------------------
\* Decoding in speculative rounds.

\* The host after syncResidentToHost.
LEMMA SyncFacts ==
  ASSUME TypeOK, Stepped, kvLink, SyncDecode
  PROVE  host' \in Cache /\ Exact(host', p)
<1>1. CASE residentDirty
  BY <1>1, ResidentIs DEF SyncDecode, Stepped
<1>2. CASE ~residentDirty
  BY <1>2 DEF SyncDecode, Stepped, TypeOK
<1> QED
  BY <1>1, <1>2

\* SpecBegin: the first verification is bound from the host, which holds the conversation.
LEMMA SpecBeginStep ==
  ASSUME IInv, SpecBegin
  PROVE  IInv'
<1>1. TypeOK /\ Position /\ StreamIsGreedy /\ Stepped /\ kvLink /\ pc = "spec" /\ pc' = "round"
      /\ SyncDecode /\ residentDirty' = FALSE /\ prev' = NonePrev
      /\ UNCHANGED <<driver, kvLink, decode, wide, p, reseedCache, pendingResidentFold, prompt, consumed, next,
                     generated, ghosts>>
  BY DEF IInv, Placed, Stepping, SpecBegin
<1>2. host' \in Cache /\ Exact(host', p)
  BY <1>1, SyncFacts
<1>3. TypeOK'
  <2>1. prev'.slot \in -1 .. C - 1 /\ prev'.rows \in 0 .. C - prev'.slot
    BY <1>1, Constants DEF NonePrev
  <2> QED
    BY <1>1, <1>2, <2>1 DEF TypeOK, driver, ghosts
<1>4. Position'
  BY <1>1 DEF Position, Prompting, Chosen, driver, ghosts
<1>5. Verified'
  <2>1. prev'.rows = 0 /\ WidePast' = host'
    BY <1>1 DEF NonePrev, WidePast
  <2>2. Kept'
    BY <2>1 DEF Kept
  <2>3. Exact(WidePast, p)'
    BY <1>1, <1>2, <2>1 DEF Exact
  <2> QED
    BY <1>1, <2>2, <2>3 DEF Verified, NonePrev
<1>6. StreamIsGreedy' /\ Stopped' /\ Placed'
  BY <1>1, <1>5 DEF StreamIsGreedy, Stopped, Placed, Stepping, ghosts
<1> QED
  BY <1>3, <1>4, <1>6 DEF IInv

\* The links are back at the decode bucket, or the host loop takes over: either way the host holds
\* the conversation.
LEMMA RestoreFacts ==
  ASSUME RestoreDecodeLinks, Exact(host', p'), p' = p
  PROVE  Stepped' /\ kvLink' \in BOOLEAN /\ residentDirty' \in BOOLEAN /\ reseedCache' \in BOOLEAN
         /\ pendingResidentFold' \in BOOLEAN
<1>1. kvLink' \in BOOLEAN /\ reseedCache' = kvLink' /\ residentDirty' = FALSE /\ pendingResidentFold' = TRUE
  BY DEF RestoreDecodeLinks
<1>2. Exact(host, p)'
  BY DEF Exact
<1> QED
  BY <1>1, <1>2 DEF Stepped

\* SpecLinkFails: the host holds the conversation whoever decodes on.
LEMMA SpecLinkFailsStep ==
  ASSUME IInv, SpecLinkFails
  PROVE  IInv'
<1>1. TypeOK /\ Position /\ StreamIsGreedy /\ Stepped /\ kvLink /\ pc = "spec" /\ pc' = "handoff"
      /\ SyncDecode /\ RestoreDecodeLinks
      /\ UNCHANGED <<driver, decode, wide, prev, p, prompt, consumed, next, generated, ghosts>>
  BY DEF IInv, Placed, Stepping, SpecLinkFails
<1>2. host' \in Cache /\ Exact(host', p)
  BY <1>1, SyncFacts
<1>3. Stepped' /\ kvLink' \in BOOLEAN /\ residentDirty' \in BOOLEAN /\ reseedCache' \in BOOLEAN
      /\ pendingResidentFold' \in BOOLEAN
  BY <1>1, <1>2, RestoreFacts
<1>4. TypeOK'
  BY <1>1, <1>2, <1>3 DEF TypeOK, driver, ghosts
<1>5. Position'
  BY <1>1 DEF Position, Prompting, Chosen, driver, ghosts
<1>6. StreamIsGreedy' /\ Stopped' /\ Placed'
  BY <1>1, <1>3 DEF StreamIsGreedy, Stopped, Placed, Rounds, ghosts
<1> QED
  BY <1>4, <1>5, <1>6 DEF IInv

\* RoundsEnd: the accepted rows of the last round reach the host.
LEMMA RoundsEndStep ==
  ASSUME IInv, Corners = {}, RoundsEnd
  PROVE  IInv'
<1>1. TypeOK /\ Position /\ StreamIsGreedy /\ Stopped /\ Verified /\ pc \in {"round", "rounded"} /\ RestoreDecodeLinks
      /\ UNCHANGED <<driver, decode, wide, prev, p, prompt, consumed, next, generated, fed, stream>>
  BY DEF IInv, Placed, Rounds, RoundsEnd
<1>2. host' \in Cache /\ Exact(host', p)
  <2>1. CASE prev.rows > 0
    <3>1. host' = WidePast
      BY <2>1 DEF RoundsEnd, RoundCaches
    <3> QED
      BY <1>1, <3>1, WidePastType DEF Verified
  <2>2. CASE ~(prev.rows > 0)
    <3>1. host' = host /\ prev.rows = 0
      BY <1>1, <2>2, Constants DEF RoundsEnd, TypeOK
    <3> QED
      BY <1>1, <3>1 DEF Verified, WidePast, TypeOK
  <2> QED
    BY <2>1, <2>2
<1>3. Stepped' /\ kvLink' \in BOOLEAN /\ residentDirty' \in BOOLEAN /\ reseedCache' \in BOOLEAN
      /\ pendingResidentFold' \in BOOLEAN
  BY <1>1, <1>2, RestoreFacts
<1>4. p = fed /\ turn > 0 /\ (pc = "round" => next.of = p)
  BY <1>1 DEF Position, Prompting, Chosen
<1>5. pc' \in {"idle", "handoff"} /\ ended' \in Token /\ (pc' = "idle" => Over') /\ (pc' = "handoff" => pc = "round")
  <2>1. CASE pc = "rounded"
    <3>1. pc' = "idle" /\ ended' = ended
      BY <2>1 DEF RoundsEnd
    <3>2. Over
      BY <1>1, <2>1 DEF Stopped
    <3> QED
      BY <1>1, <3>1, <3>2 DEF Over, TypeOK
  <2>2. CASE pc = "round" /\ next.eos
    <3>1. pc' = "idle" /\ ended' = next
      BY <2>2 DEF RoundsEnd
    <3>2. next = [of |-> fed, eos |-> TRUE]
      BY <1>1, <1>4, <2>2 DEF TypeOK, Token
    <3> QED
      BY <1>1, <3>1, <3>2 DEF Over, TypeOK
  <2>3. CASE pc = "round" /\ ~next.eos /\ generated >= MaxTokens
    <3>1. pc' = "idle" /\ ended' = ended
      BY <2>3 DEF RoundsEnd
    <3>2. Len(stream) = MaxTokens
      BY <1>1, <2>3, Constants DEF Position, TypeOK
    <3> QED
      BY <1>1, <3>1, <3>2 DEF Over, TypeOK
  <2>4. CASE pc = "round" /\ ~next.eos /\ ~(generated >= MaxTokens)
    BY <1>1, <2>4 DEF RoundsEnd, TypeOK
  <2> QED
    BY <1>1, <2>1, <2>2, <2>3, <2>4
<1>6. TypeOK'
  BY <1>1, <1>2, <1>3, <1>5 DEF TypeOK, driver
<1>7. Position'
  BY <1>1, <1>4, <1>5 DEF Position, Prompting, Chosen, driver
<1>8. StreamIsGreedy' /\ Stopped' /\ Placed'
  BY <1>1, <1>3, <1>5 DEF StreamIsGreedy, Stopped, Placed, Rounds
<1> QED
  BY <1>6, <1>7, <1>8 DEF IInv

\* Every accepted draft was confirmed.
LEMMA AcceptedAre ==
  ASSUME NEW match \in [1 .. Drafts -> BOOLEAN]
  PROVE  specAcceptedDrafts(match) \in 0 .. Drafts /\ \A i \in 1 .. specAcceptedDrafts(match) : match[i]
<1> DEFINE T == {j \in 0 .. Drafts : \A i \in 1 .. j : match[i]}
<1>1. T \subseteq 0 .. Drafts /\ 0 \in T /\ Drafts \in Nat
  BY Constants
<1>2. Max(T) \in T
  <2> HIDE DEF T
  <2> QED
    BY <1>1, MaxIs
<1> QED
  BY <1>2 DEF specAcceptedDrafts

\* A turn prints at least the token that waited, no end of stream, and stops short of the committed
\* tokens only at the budget or before an end of stream.
LEMMA EmittedAre ==
  ASSUME NEW committed, NEW n \in Nat \ {0}, Len(committed) = n, NEW budget \in Nat \ {0}, ~committed[1].eos
  PROVE  /\ specEmittedCount(committed, budget) \in 1 .. n
         /\ specEmittedCount(committed, budget) <= budget
         /\ \A i \in 1 .. specEmittedCount(committed, budget) : ~committed[i].eos
         /\ specEmittedCount(committed, budget) < n =>
              \/ specEmittedCount(committed, budget) = budget
              \/ committed[specEmittedCount(committed, budget) + 1].eos
<1> DEFINE most == Smaller(Len(committed), budget)
           ends == {i \in 1 .. most : committed[i].eos}
           T == {most} \cup {i - 1 : i \in ends}
           count == specEmittedCount(committed, budget)
<1>1. most = IF n <= budget THEN n ELSE budget
  BY SmallerIs
<1>2. most \in Nat \ {0} /\ most <= n /\ most <= budget /\ (most < n => most = budget)
  BY <1>1
<1> HIDE DEF most
<1>3. T \subseteq Nat /\ T # {}
  BY <1>2
<1>4. count = Min(T)
  BY DEF specEmittedCount, most
<1> HIDE DEF count
<1>5. count \in T /\ \A y \in T : count <= y
  <2> HIDE DEF T
  <2> QED
    BY <1>3, <1>4, MinIs
<1>6. count <= most /\ \A i \in ends : count <= i - 1
  BY <1>5
<1>7. \A i \in ends : i > 1
  BY <1>2
<1>8. count = most \/ count + 1 \in ends
  <2>1. CASE count = most
    BY <2>1
  <2>2. CASE count # most
    <3>1. PICK i \in ends : count = i - 1
      BY <1>5, <2>2
    <3> QED
      BY <1>2, <3>1
  <2> QED
    BY <2>1, <2>2
<1>9. count \in 1 .. n /\ count <= budget
  <2>1. CASE count = most
    BY <1>2, <2>1
  <2>2. CASE count + 1 \in ends
    <3>1. count + 1 > 1 /\ count \in Nat
      BY <1>3, <1>5, <1>7, <2>2
    <3> QED
      BY <1>2, <1>6, <3>1
  <2> QED
    BY <1>8, <2>1, <2>2
<1>10. \A i \in 1 .. count : ~committed[i].eos
  <2> SUFFICES ASSUME NEW i \in 1 .. count, committed[i].eos
               PROVE  FALSE
    OBVIOUS
  <2>1. i \in ends
    BY <1>2, <1>6, <1>9
  <2>2. count <= i - 1
    BY <1>6, <2>1
  <2> QED
    BY <1>9, <2>2
<1>11. count < n => count = budget \/ committed[count + 1].eos
  BY <1>2, <1>8
<1> QED
  BY <1>9, <1>10, <1>11 DEF count

\* A prefix of a sequence is a sequence over the elements it has.
LEMMA PartIs ==
  ASSUME NEW S, NEW s \in Seq(S), NEW m \in 0 .. Len(s), NEW U, \A i \in 1 .. m : s[i] \in U
  PROVE  SubSeq(s, 1, m) \in Seq(U) /\ Len(SubSeq(s, 1, m)) = m /\ \A i \in 1 .. m : SubSeq(s, 1, m)[i] = s[i]
<1>1. Len(SubSeq(s, 1, m)) = m /\ \A i \in 1 .. m : SubSeq(s, 1, m)[i] = s[i]
  OBVIOUS
<1>2. SubSeq(s, 1, m) \in Seq(S)
  OBVIOUS
<1> DEFINE t == SubSeq(s, 1, m)
<1>3. t \in Seq(S) /\ Len(t) = m /\ \A i \in 1 .. m : t[i] \in U
  BY <1>1, <1>2
<1> HIDE DEF t
<1>4. t = [i \in 1 .. m |-> t[i]]
  BY <1>3
<1>5. [i \in 1 .. m |-> t[i]] \in Seq(U)
  BY <1>3
<1>6. t \in Seq(U)
  BY <1>4, <1>5
<1> QED
  BY <1>1, <1>6 DEF t

\* Round: the rows left to fold are those of the tokens printed, each confirmed by the target.
LEMMA RoundStep ==
  ASSUME IInv, Round
  PROVE  IInv'
<1> USE Constants
<1> DEFINE Choice == [of : Nat, eos : BOOLEAN]
           target(match, e) == rowArgMax(match, e)
           committed(match, e) ==
             <<next>> \o [i \in 1 .. specAcceptedDrafts(match) |-> IF match[i] THEN target(match, e)[i] ELSE NoToken]
           count(match, e) == specEmittedCount(committed(match, e), MaxTokens - generated)
<1>1. TypeOK /\ Position /\ StreamIsGreedy /\ Verified /\ pc = "round" /\ generated < MaxTokens /\ ~next.eos /\ WindowFits
      /\ UNCHANGED <<driver, kvLink, host, decode, flags, prompt, consumed>>
  BY DEF IInv, Placed, Rounds, Round
<1>2. PICK match \in [1 .. Drafts -> BOOLEAN], e \in 0 .. Drafts + 1 :
        /\ wide' = [past |-> WidePast, present |-> VerifyRows(match)]
        /\ Emit(SubSeq(committed(match, e), 1, count(match, e))) /\ generated' = generated + count(match, e)
        /\ prev' = [slot |-> p, rows |-> count(match, e)] /\ p' = p + count(match, e)
        /\ IF count(match, e) < Len(committed(match, e))
           THEN /\ pc' = "rounded" /\ UNCHANGED next
                /\ ended' = IF committed(match, e)[count(match, e) + 1].eos
                            THEN committed(match, e)[count(match, e) + 1] ELSE NoToken
           ELSE next' = target(match, e)[specAcceptedDrafts(match) + 1] /\ UNCHANGED <<pc, ended>>
  BY Zenon DEF Round
<1>3. ~Prompting /\ Chosen /\ turn > 0
  BY <1>1 DEF Prompting, Chosen, Position
<1>4. p = fed /\ p \in Nat /\ generated \in Nat /\ prompt \in Nat /\ turn \in Nat /\ p + (MaxTokens - generated) <= MaxLen
      /\ next = [of |-> fed, eos |-> FALSE] /\ p + Drafts + 1 <= C
  BY <1>1, <1>3, RoomIs, NextIs DEF TypeOK, WindowFits
<1> DEFINE acc == specAcceptedDrafts(match)
           tgt == target(match, e)
           com == committed(match, e)
           cnt == count(match, e)
           rows == VerifyRows(match)
<1>5. acc \in 0 .. Drafts /\ \A i \in 1 .. acc : match[i]
  BY AcceptedAre
<1>6. Exact(WidePast, p) /\ Kept
  BY <1>1 DEF Verified
<1>7. \A i \in 1 .. Drafts + 1 : rows[i] \in 0 .. p + i /\ (i <= acc + 1 => rows[i] = p + i)
  <2> SUFFICES ASSUME NEW i \in 1 .. Drafts + 1
               PROVE  rows[i] \in 0 .. p + i /\ (i <= acc + 1 => rows[i] = p + i)
    OBVIOUS
  <2>1. rows[i] = IF Confirmed(match, i) THEN p + i ELSE 0
    BY DEF VerifyRows
  <2>2. i <= acc + 1 => Confirmed(match, i)
    BY <1>5, <1>6 DEF Confirmed
  <2> HIDE DEF rows, acc
  <2> QED
    BY <1>4, <2>1, <2>2
<1>8. DOMAIN rows = 1 .. Drafts + 1
  BY DEF VerifyRows
<1>9. \A i \in 1 .. Drafts + 1 : tgt[i] = [of |-> rows[i], eos |-> i = e]
  BY DEF rowArgMax
<1>10. com = <<next>> \o [i \in 1 .. acc |-> IF match[i] THEN tgt[i] ELSE NoToken]
  OBVIOUS
<1>11. cnt = specEmittedCount(com, MaxTokens - generated)
  OBVIOUS
<1>12. rows = VerifyRows(match)
  OBVIOUS
<1> HIDE DEF target, committed, count, acc, tgt, com, cnt, rows
<1>13. \A i \in 1 .. Drafts + 1 : tgt[i] \in Choice /\ (i <= acc + 1 => tgt[i].of = p + i)
  <2> SUFFICES ASSUME NEW i \in 1 .. Drafts + 1
               PROVE  tgt[i] \in Choice /\ (i <= acc + 1 => tgt[i].of = p + i)
    OBVIOUS
  <2>1. rows[i] \in Nat /\ (i <= acc + 1 => rows[i] = p + i)
    BY <1>4, <1>7
  <2>2. tgt[i] = [of |-> rows[i], eos |-> i = e]
    BY <1>9
  <2>3. (i = e) \in BOOLEAN
    OBVIOUS
  <2>4. tgt[i].of = rows[i]
    BY <2>2
  <2>5. tgt[i] \in Choice
    BY <2>1, <2>2, <2>3
  <2> HIDE DEF Choice
  <2> QED
    BY <2>1, <2>4, <2>5
<1>14. /\ com \in Seq(Choice) /\ Len(com) = acc + 1 /\ com[1] = next
       /\ \A j \in 1 .. acc : com[j + 1] = tgt[j]
  <2> DEFINE drafts == [i \in 1 .. acc |-> IF match[i] THEN tgt[i] ELSE NoToken]
  <2>1. \A i \in 1 .. acc : drafts[i] = tgt[i] /\ tgt[i] \in Choice
    <3> SUFFICES ASSUME NEW i \in 1 .. acc
                 PROVE  drafts[i] = tgt[i] /\ tgt[i] \in Choice
      OBVIOUS
    <3>1. i \in 1 .. Drafts + 1
      BY <1>5
    <3> QED
      BY <1>5, <1>13, <3>1
  <2>2. acc \in Nat
    BY <1>5
  <2>3. drafts \in Seq(Choice) /\ Len(drafts) = acc
    <3>1. \A i \in 1 .. acc : (IF match[i] THEN tgt[i] ELSE NoToken) \in Choice
      BY <2>1
    <3> HIDE DEF Choice
    <3> QED
      BY <2>2, <3>1
  <2>4. <<next>> \in Seq(Choice) /\ Len(<<next>>) = 1 /\ <<next>>[1] = next
    <3>1. next \in Choice
      BY <1>1 DEF TypeOK, Token
    <3> HIDE DEF Choice
    <3> QED
      BY <3>1
  <2>5. com = <<next>> \o drafts
    BY <1>10
  <2> HIDE DEF drafts, Choice
  <2>6. com \in Seq(Choice) /\ Len(com) = acc + 1 /\ com[1] = next
    BY <2>2, <2>3, <2>4, <2>5
  <2>7. \A j \in 1 .. acc : com[j + 1] = drafts[j]
    BY <2>2, <2>3, <2>4, <2>5
  <2> QED
    BY <2>1, <2>6, <2>7
<1>15. \A j \in 1 .. acc + 1 : com[j].of = fed + j - 1
  <2> SUFFICES ASSUME NEW j \in 1 .. acc + 1
               PROVE  com[j].of = fed + j - 1
    OBVIOUS
  <2>1. CASE j = 1
    BY <1>4, <1>14, <2>1
  <2>2. CASE j > 1
    <3>1. j - 1 \in 1 .. acc /\ j - 1 \in 1 .. Drafts + 1 /\ j - 1 <= acc + 1 /\ p + (j - 1) = fed + j - 1 /\ j = (j - 1) + 1
      BY <1>4, <1>5, <2>2
    <3>2. com[j] = tgt[j - 1]
      BY <1>14, <3>1
    <3> QED
      BY <1>13, <3>1, <3>2
  <2> QED
    BY <1>5, <2>1, <2>2
<1>16. /\ cnt \in 1 .. acc + 1 /\ cnt <= MaxTokens - generated
       /\ \A i \in 1 .. cnt : ~com[i].eos
       /\ cnt < acc + 1 => cnt = MaxTokens - generated \/ com[cnt + 1].eos
  <2>1. acc + 1 \in Nat \ {0} /\ MaxTokens - generated \in Nat \ {0} /\ ~com[1].eos
    BY <1>1, <1>4, <1>5, <1>14
  <2> QED
    BY <1>11, <1>14, <2>1, EmittedAre
<1>17. /\ wide' = [past |-> WidePast, present |-> rows]
       /\ Emit(SubSeq(com, 1, cnt)) /\ generated' = generated + cnt
       /\ prev' = [slot |-> p, rows |-> cnt] /\ p' = p + cnt
       /\ cnt < Len(com) => /\ pc' = "rounded" /\ next' = next
                            /\ ended' = IF com[cnt + 1].eos THEN com[cnt + 1] ELSE NoToken
       /\ ~(cnt < Len(com)) => next' = tgt[acc + 1] /\ pc' = pc /\ ended' = ended
  BY <1>2, Zenon DEF rows, com, cnt, tgt, acc
<1>18. \A i \in 1 .. cnt : com[i] = [of |-> fed + i - 1, eos |-> FALSE]
  <2> SUFFICES ASSUME NEW i \in 1 .. cnt
               PROVE  com[i] = [of |-> fed + i - 1, eos |-> FALSE]
    OBVIOUS
  <2>1. i \in 1 .. acc + 1 /\ i \in 1 .. Len(com)
    BY <1>5, <1>14, <1>16
  <2>2. com[i].of = fed + i - 1 /\ ~com[i].eos
    BY <1>15, <1>16, <2>1
  <2>3. com[i] \in Choice
    <3> HIDE DEF Choice
    <3> QED
      BY <1>14, <2>1
  <2> QED
    BY <2>2, <2>3
<1>19. \A i \in 1 .. cnt : com[i] \in Token
  <2> SUFFICES ASSUME NEW i \in 1 .. cnt
               PROVE  com[i] \in Token
    OBVIOUS
  <2>1. fed + i - 1 \in 0 .. MaxLen
    <3>1. cnt \in Nat /\ i \in Nat /\ i <= cnt
      BY <1>5, <1>16
    <3> QED
      BY <1>4, <1>16, <3>1
  <2>2. com[i] = [of |-> fed + i - 1, eos |-> FALSE]
    BY <1>18
  <2> QED
    BY <2>1, <2>2 DEF Token
<1> DEFINE tokens == SubSeq(com, 1, cnt)
<1>20. tokens \in Seq(Token) /\ Len(tokens) = cnt /\ \A i \in 1 .. cnt : tokens[i] = com[i]
  <2>1. cnt \in 0 .. Len(com)
    BY <1>5, <1>14, <1>16
  <2> HIDE DEF Choice
  <2> QED
    BY <1>14, <1>19, <2>1, PartIs
<1>21. \A i \in 1 .. Len(tokens) : tokens[i] = [of |-> fed + i - 1, eos |-> FALSE]
  <2> HIDE DEF tokens
  <2> QED
    BY <1>18, <1>20
<1>22. Emit(tokens)
  BY <1>17
<1> HIDE DEF tokens, Choice
<1>23. /\ StreamIsGreedy' /\ stream' \in Seq(Token) /\ Len(stream') = Len(stream) + cnt /\ fed' = fed + cnt
  <2>1. /\ StreamIsGreedy' /\ stream' \in Seq(Token)
        /\ Len(stream') = Len(stream) + Len(tokens) /\ fed' = fed + Len(tokens)
    BY <1>1, <1>20, <1>21, <1>22, EmitFacts
  <2> QED
    BY <1>20, <2>1
<1>24. cnt \in Nat \ {0} /\ p + cnt <= C /\ p + cnt <= MaxLen
  BY <1>4, <1>5, <1>16
<1>25. fed' = p' /\ Len(stream') = generated' /\ generated' \in 0 .. MaxTokens /\ p' \in 0 .. MaxLen /\ p' = p + cnt
  BY <1>1, <1>4, <1>16, <1>17, <1>23, <1>24 DEF Position
<1>26. /\ wide'.past \in Cache /\ wide'.present \in Seq(0 .. MaxLen + Drafts)
       /\ prev'.slot \in -1 .. C - 1 /\ prev'.rows \in 0 .. C - prev'.slot /\ prev'.rows > 0
       /\ Kept' /\ Exact(WidePast', p')
  <2>1. rows \in Seq(0 .. MaxLen + Drafts) /\ Len(rows) = Drafts + 1
    <3>1. \A i \in 1 .. Drafts + 1 : rows[i] \in 0 .. MaxLen + Drafts
      <4> SUFFICES ASSUME NEW i \in 1 .. Drafts + 1
                   PROVE  rows[i] \in 0 .. MaxLen + Drafts
        OBVIOUS
      <4>1. p + i <= MaxLen + Drafts
        BY <1>1, <1>4
      <4>2. rows[i] \in 0 .. p + i
        BY <1>7
      <4> QED
        BY <1>4, <4>1, <4>2
    <3>2. rows = [i \in 1 .. Drafts + 1 |-> rows[i]]
      BY <1>12 DEF VerifyRows
    <3>3. [i \in 1 .. Drafts + 1 |-> rows[i]] \in Seq(0 .. MaxLen + Drafts)
          /\ Len([i \in 1 .. Drafts + 1 |-> rows[i]]) = Drafts + 1
      BY <3>1
    <3> QED
      BY <3>2, <3>3, Zenon
  <2>2. \A t \in 1 .. cnt : rows[t] = p + t
    BY <1>5, <1>7, <1>16
  <2>3. cnt <= Drafts + 1 /\ Drafts + 1 \in Nat
    BY <1>5, <1>16
  <2>4. wide' = [past |-> WidePast, present |-> rows] /\ prev' = [slot |-> p, rows |-> cnt] /\ p' = p + cnt
    BY <1>17
  <2> QED
    BY ONLY <1>1, <1>6, <1>24, <2>1, <2>2, <2>3, <2>4, WidePassFacts
<1>27. pc' \in {"round", "rounded"} /\ next' \in Token /\ ended' \in Token /\ (pc' = "round" => next'.of = p')
       /\ (pc' = "rounded" => Over')
  <2>1. CASE cnt < Len(com)
    <3>1. cnt < acc + 1 /\ cnt + 1 \in 1 .. acc + 1
      BY <1>5, <1>14, <1>16, <2>1
    <3>2. com[cnt + 1].of = p' /\ com[cnt + 1] \in Choice
      <4>1. fed + (cnt + 1) - 1 = p' /\ cnt + 1 \in 1 .. Len(com)
        BY SMTT(20), <1>4, <1>14, <1>24, <1>25, <3>1
      <4> QED
        BY <1>14, <1>15, <3>1, <4>1
    <3>3. CASE com[cnt + 1].eos
      <4>1. com[cnt + 1] = [of |-> p', eos |-> TRUE]
        BY <3>2, <3>3 DEF Choice
      <4>2. pc' = "rounded" /\ next' = next /\ ended' = com[cnt + 1]
        BY <1>17, <2>1, <3>3
      <4>3. next' \in Token
        BY <1>1, <4>2 DEF TypeOK
      <4>4. ended' = [of |-> fed', eos |-> TRUE] /\ ended' \in Token
        BY <1>25, <4>1, <4>2 DEF Token
      <4> QED
        BY <4>2, <4>3, <4>4 DEF Over
    <3>4. CASE ~com[cnt + 1].eos
      <4>1. generated' = MaxTokens
        BY <1>4, <1>16, <1>17, <3>1, <3>4
      <4>2. ended' = NoToken
        BY <1>17, <2>1, <3>4
      <4> QED
        BY <1>1, <1>17, <1>25, <2>1, <4>1, <4>2 DEF TypeOK, Token, NoToken, Over
    <3> QED
      BY <3>3, <3>4
  <2>2. CASE ~(cnt < Len(com))
    <3>1. cnt = acc + 1 /\ acc + 1 \in 1 .. Drafts + 1 /\ next' = tgt[acc + 1]
      BY <1>5, <1>14, <1>16, <1>17, <2>2
    <3>2. next' \in Choice /\ next'.of = p'
      BY <1>13, <1>25, <3>1
    <3>3. next' \in Token
      BY <1>25, <3>2 DEF Token, Choice
    <3> QED
      BY <1>1, <1>17, <2>2, <3>2, <3>3 DEF TypeOK
  <2> QED
    BY <2>1, <2>2
<1>28. UNCHANGED <<mode, prefill, chunk, turn, kvLink, host, decode, residentDirty, reseedCache, pendingResidentFold,
                   prompt, consumed>>
  BY <1>1 DEF driver, flags
<1>29. fed' \in 0 .. MaxLen
  BY <1>25
<1>30. TypeOK'
  BY <1>1, <1>23, <1>25, <1>26, <1>27, <1>28, <1>29 DEF TypeOK
<1>31. Position'
  <2>1. turn * (MaxPrompt + MaxTokens) \in Int
    BY <1>4
  <2>2. fed + (MaxPrompt - prompt) + (MaxTokens - generated) <= turn * (MaxPrompt + MaxTokens)
    BY <1>1, <1>3 DEF Position
  <2>3. fed' + (MaxPrompt - prompt) + (MaxTokens - generated') <= turn * (MaxPrompt + MaxTokens)
    BY <1>4, <1>17, <1>23, <1>24, <2>1, <2>2
  <2>4. ~Prompting' /\ (Chosen' => pc' = "round")
    BY <1>27 DEF Prompting, Chosen
  <2> QED
    BY <1>1, <1>3, <1>25, <1>27, <1>28, <2>3, <2>4 DEF Position
<1>32. Verified'
  <2>1. Exact(WidePast, p)'
    BY <1>26 DEF Exact
  <2> QED
    BY <1>1, <1>26, <1>28, <2>1 DEF Verified
<1>33. Stopped' /\ Placed'
  BY <1>27, <1>32 DEF Stopped, Placed, Stepping
<1> QED
  BY <1>23, <1>30, <1>31, <1>33 DEF IInv

-----------------------------------------------------------------------------
\* The invariant, and what follows from it.

\* The invariant holds of a new conversation.
LEMMA Started ==
  ASSUME Init
  PROVE  IInv
<1> USE Constants
<1>1. /\ mode \in {"plain", "chain", "spec"} /\ prefill \in BOOLEAN /\ chunk \in BOOLEAN /\ kvLink \in BOOLEAN
      /\ host = Empty /\ decode = [past |-> Empty, present |-> 0]
      /\ wide = [past |-> Empty, present |-> <<>>] /\ prev = NonePrev
      /\ p = 0 /\ fed = 0 /\ turn = 0 /\ consumed = 0 /\ prompt = 0 /\ generated = 0
      /\ residentDirty = FALSE /\ reseedCache = FALSE /\ pendingResidentFold = TRUE
      /\ pc = "idle" /\ next = NoToken /\ stream = <<>> /\ ended = NoToken
  <2>1. chunk \in BOOLEAN
    <3>1. CASE kvLink
      BY <3>1 DEF Init
    <3>2. CASE ~kvLink
      BY <3>2 DEF Init
    <3> QED
      BY <3>1, <3>2
  <2>2. mode \in {"plain", "chain", "spec"}
    <3>1. CASE kvLink
      BY <3>1 DEF Init
    <3>2. CASE ~kvLink
      BY <3>2 DEF Init
    <3> QED
      BY <3>1, <3>2
  <2> QED
    BY <2>1, <2>2 DEF Init
<1>2. Empty \in Cache
  BY DEF Empty, Cache
<1>3. Exact(Empty, 0)
  BY ExactIs DEF Slots
<1>4. Exact(ResidentAt(0), 0)
  <2>1. kvFoldSlot(0) = -1
    BY FoldSlotIs
  <2>2. ResidentAt(0) = Fold(Empty, -1, 0)
    BY <1>1, <2>1 DEF ResidentAt
  <2> QED
    BY <1>3, <2>2, FoldNone
<1>5. NoToken \in Token
  BY DEF NoToken, Token
<1>6. TypeOK
  <2>1. prev.slot \in -1 .. C - 1 /\ prev.rows \in 0 .. C - prev.slot
    BY <1>1 DEF NonePrev
  <2>2. wide.past \in Cache /\ wide.present \in Seq(0 .. MaxLen + Drafts) /\ stream \in Seq(Token)
    BY <1>1, <1>2
  <2>3. decode \in [past : Cache, present : 0 .. MaxLen]
    BY <1>1, <1>2
  <2>4. host \in Cache /\ next \in Token /\ ended \in Token
    BY <1>1, <1>2, <1>5
  <2>5. p \in 0 .. MaxLen /\ fed \in 0 .. MaxLen /\ turn \in 0 .. MaxTurns /\ prompt \in 0 .. MaxPrompt
        /\ consumed \in 0 .. prompt /\ generated \in 0 .. MaxTokens
    BY <1>1
  <2>6. /\ mode \in {"plain", "chain", "spec"} /\ prefill \in BOOLEAN /\ chunk \in BOOLEAN /\ kvLink \in BOOLEAN
        /\ residentDirty \in BOOLEAN /\ reseedCache \in BOOLEAN /\ pendingResidentFold \in BOOLEAN /\ pc = "idle"
    BY <1>1
  <2> QED
    BY <2>1, <2>2, <2>3, <2>4, <2>5, <2>6 DEF TypeOK
<1>7. Position /\ StreamIsGreedy /\ Stopped
  BY <1>1 DEF Position, Prompting, Chosen, StreamIsGreedy, Stopped
<1>8. Placed
  BY <1>1, <1>3, <1>4 DEF Placed, Stepping, Stepped, Rounds
<1> QED
  BY <1>6, <1>7, <1>8 DEF IInv

\* A step that changes nothing keeps the invariant.
LEMMA Stutters ==
  ASSUME IInv, UNCHANGED vars
  PROVE  IInv'
<1>1. TypeOK'
  BY DEF IInv, TypeOK, vars, driver, caches, flags, ghosts
<1>2. Position' /\ StreamIsGreedy' /\ Stopped'
  BY DEF IInv, Position, Prompting, Chosen, StreamIsGreedy, Stopped, Over, Rounds, vars, driver, caches, flags, ghosts
<1>3. ResidentAt(p)' = ResidentAt(p) /\ ResidentAt(Begin)' = ResidentAt(Begin) /\ WidePast' = WidePast /\ Begin' = Begin
  BY DEF ResidentAt, WidePast, Begin, vars, caches, flags
<1>4. Batched' = Batched /\ Kept' = Kept
  BY <1>3 DEF Batched, Kept, MaxWindow, vars, caches, flags
<1>5. Stepped' = Stepped /\ Prefilled' = Prefilled /\ Chunked' = Chunked /\ Verified' = Verified
  BY <1>3, <1>4 DEF Stepped, Prefilled, Chunked, Verified, Exact, vars, caches, flags
<1>6. Placed'
  BY <1>5 DEF IInv, Placed, Stepping, Rounds, vars
<1> QED
  BY <1>1, <1>2, <1>6 DEF IInv

\* Every step keeps the invariant.
LEMMA Advanced ==
  ASSUME IInv, Corners = {}, [Next]_vars
  PROVE  IInv'
<1>1. ASSUME NEW n \in 1 .. MaxPrompt, BeginTurn(n)
      PROVE  IInv'
  BY <1>1, BeginTurnStep
<1>2. CASE ChunkPass
  BY <1>2, ChunkPassStep
<1>3. CASE ChunkDone
  BY <1>3, ChunkDoneStep
<1>4. CASE ChunkFails
  BY <1>4, ChunkFailsStep
<1>5. CASE PrefillPass
  BY <1>5, PrefillPassStep
<1>6. CASE PrefillDone
  BY <1>6, PrefillDoneStep
<1>7. CASE PromptStep
  BY <1>7, PromptStepStep
<1>8. CASE PromptDone
  BY <1>8, PromptDoneStep
<1>9. CASE DecodeStep
  BY <1>9, DecodeStepStep
<1>10. CASE DecodeDone \/ ChainDone \/ HandoffDone
  BY <1>10, EndsStep
<1>11. CASE ChainRun
  BY <1>11, ChainRunStep
<1>12. CASE ChainLast \/ Handoff
  BY <1>12, LastTokenStep
<1>13. CASE ChainFails
  BY <1>13, ChainFailsStep
<1>14. CASE DraftBehind
  BY <1>14, DraftBehindStep
<1>15. CASE SpecBegin
  BY <1>15, SpecBeginStep
<1>16. CASE SpecLinkFails
  BY <1>16, SpecLinkFailsStep
<1>17. CASE Round
  BY <1>17, RoundStep
<1>18. CASE RoundsEnd
  BY <1>18, RoundsEndStep
<1>19. CASE UNCHANGED vars
  BY <1>19, Stutters
<1> QED
  BY <1>1, <1>2, <1>3, <1>4, <1>5, <1>6, <1>7, <1>8, <1>9, <1>10, <1>11, <1>12, <1>13, <1>14, <1>15, <1>16, <1>17,
     <1>18, <1>19 DEF Next

\* The invariant names the copy the next forward runs on.
LEMMA CacheFollows ==
  ASSUME IInv
  PROVE  CacheIsConversation
<1>1. TypeOK /\ Placed
  BY DEF IInv
<1>2. CASE Stepping
  <2>1. Stepped
    BY <1>1, <1>2 DEF Placed
  <2>2. Exact(IF kvLink /\ ~reseedCache THEN Resident ELSE host, p)
    <3>1. CASE kvLink /\ ~reseedCache
      BY <1>1, <2>1, <3>1, ResidentIs DEF Stepped
    <3>2. CASE ~(kvLink /\ ~reseedCache)
      BY <2>1, <3>2 DEF Stepped
    <3> QED
      BY <3>1, <3>2
  <2> QED
    BY <1>2, <2>2 DEF Stepping, CacheIsConversation
<1>3. CASE pc = "prefill"
  BY <1>1, <1>3 DEF Placed, Prefilled, CacheIsConversation
<1>4. CASE pc = "chunk"
  BY <1>1, <1>4 DEF Placed, Chunked, Begin, CacheIsConversation
<1>5. CASE Rounds
  BY <1>1, <1>5 DEF Placed, Verified, Rounds, CacheIsConversation
<1> QED
  BY <1>1, <1>2, <1>3, <1>4, <1>5 DEF TypeOK, Stepping, Rounds

\* The inductive invariant of a conversation.
THEOREM Invariance == ASSUME Corners = {} PROVE Spec => []IInv
<1>1. Init => IInv
  BY Started
<1>2. IInv /\ [Next]_vars => IInv'
  BY Advanced
<1> QED
  BY <1>1, <1>2, PTL DEF Spec

\* Every variable has its type, and the rows a wide pass left to fold lie inside the cache
\* (examples/llm/chat.cpp, prevSlot and prevRows).
THEOREM TypeCorrect == ASSUME Corners = {} PROVE Spec => []TypeOK
<1>1. IInv => TypeOK
  BY DEF IInv
<1> QED
  BY <1>1, Invariance, PTL

\* The cache the next forward runs on holds the conversation, wherever it lives: whole-window and
\* chunked prefill, single steps, device chains cut short by an end of stream, speculative rounds and
\* every refused link or failed pass between them hand over exactly the rows of the tokens fed.
THEOREM CacheHoldsConversation == ASSUME Corners = {} PROVE Spec => []CacheIsConversation
<1>1. IInv => CacheIsConversation
  BY CacheFollows
<1> QED
  BY <1>1, Invariance, PTL

\* Chains and speculation print what single steps print: every printed token is the target's choice
\* after exactly the tokens before it, and none is an end of stream.
THEOREM StreamMatchesSteps == ASSUME Corners = {} PROVE Spec => []StreamIsGreedy
<1>1. IInv => StreamIsGreedy
  BY DEF IInv
<1> QED
  BY <1>1, Invariance, PTL

\* A turn ends at the budget or right before the target's first end of stream, in every mode.
THEOREM TurnsStop == ASSUME Corners = {} PROVE Spec => []TurnStops
<1>1. IInv => TurnStops
  <2> SUFFICES ASSUME IInv
               PROVE  TurnStops
    OBVIOUS
  <2>1. Len(stream) <= MaxTokens
    BY Constants DEF IInv, Position, TypeOK
  <2>2. pc = "idle" => p = fed
    BY DEF IInv, Position, Prompting
  <2> QED
    BY <2>1, <2>2 DEF IInv, Stopped, Over, TurnStops
<1> QED
  BY <1>1, Invariance, PTL

=============================================================================
