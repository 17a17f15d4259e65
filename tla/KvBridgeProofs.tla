--------------------------- MODULE KvBridgeProofs ---------------------------
(***************************************************************************)
(* Proofs about KvBridge, for every size of the cache, every window,       *)
(* prompt length and number of turns.                                      *)
(*                                                                         *)
(* The argument: ahead says which copy of the past the next forward uses,  *)
(* and that copy holds the conversation.  It changes hands in four places  *)
(* (seed, resync, lost link, prompt), and at each of them the copy that is *)
(* read is the current one: a seed reads the host's past only while the    *)
(* engine is not ahead of it (Owed), a resync or a lost link reads the     *)
(* engine's with the fold that is pending (Pending).                       *)
(*                                                                         *)
(* A reset comes whenever no native call runs, in the middle of a reply    *)
(* too; inside a call it would be undone by the call's last statements.    *)
(* What fails is "link", "read", "pass" or "step", a resync part-way.      *)
(* With the other failures the cache may come from an engine that was      *)
(* never seeded.                                                           *)
(***************************************************************************)
EXTENDS KvBridge, TLAPS

Tolerated == ~MayResetInCall /\ Failures \subseteq {"link", "read", "pass", "step"}

\* Every variable has its type; the rows are of tokens the cache has room for.
Flags == {argMaxEngaged, linked, rebindPastNextStep, ahead, logitsValid, lastFromDecode} \subseteq BOOLEAN
CacheTypes ==
  /\ driver \in Drivers /\ prefillS \in Windows
  /\ host \in [Slots -> 0 .. C] /\ device \in [Slots -> 0 .. C]
  /\ row \in 0 .. C /\ decoded \in 0 .. C /\ logits \in 0 .. C
  /\ pendingSlot \in -1 .. C - 1 /\ p \in 0 .. C - 1
TurnTypes ==
  /\ phase \in {"idle", "prefill", "sample", "step"} /\ left \in Nat /\ fed \in Nat
  /\ position \in 0 .. C - 1 /\ gen \in 0 .. MaxNew /\ turns \in 0 .. MaxTurns
Typing == Flags /\ CacheTypes /\ TurnTypes

\* A prompt that has begun fits, and what it has fed is not counted yet.
Counted ==
  /\ phase # "prefill" => position = p
  /\ phase = "prefill" => position + fed = p /\ left + fed > 0 /\ (fed > 0 => p + left <= C - 1)

\* Only a linked engine is ahead of the host's past, and the cache is never both ahead and to be
\* seeded.
Owed ==
  /\ ahead => linked
  /\ rebindPastNextStep => linked /\ ~ahead
  /\ driver = "chat" /\ linked /\ ~rebindPastNextStep /\ ~ahead => prefillS > 0 /\ phase \in {"idle", "prefill"}
  /\ phase = "prefill" /\ fed > 0 /\ prefillS > 0 => ~ahead

\* The fold the Vlm has yet to do is that of its last row, while the engine is ahead.
Pending == driver = "vlm" => prefillS > 0 /\ pendingSlot = IF ahead THEN p - 1 ELSE -1

IInv == Typing /\ Counted /\ Owed /\ Pending /\ Holds(p)

\* Cache c holds the first n tokens.
Has(c, n) == \A s \in Slots : s < n => c[s] = s + 1

-----------------------------------------------------------------------------
(* The caches.                                                             *)

\* RowOver: over the rows before it, a token's row is its own (vknn_jni.cpp, the causal mask).
LEMMA RowOverHeld ==
  ASSUME NEW c, NEW n \in Nat, Has(c, n)
  PROVE  RowOver(c, n) = n + 1
BY DEF RowOver, Has

\* A row is that of its token or of none.
LEMMA RowOverRange ==
  ASSUME NEW c, NEW n \in Nat
  PROVE  RowOver(c, n) \in {0, n + 1}
BY DEF RowOver

\* Folded: rows behind the n-th, folded in, extend what the cache holds.
LEMMA FoldedHolds ==
  ASSUME NEW c \in [Slots -> 0 .. C], NEW n \in Nat, NEW len \in Nat, Has(c, n)
  PROVE  /\ Folded(c, n, len, n + 1) \in [Slots -> 0 .. C]
         /\ Has(Folded(c, n, len, n + 1), n + len)
<1>1. C \in Nat
  BY KvBridgeAssumption
<1>2. \A s \in Slots : s \in Nat /\ s + 1 \in 0 .. C
  BY <1>1 DEF Slots
<1>3. Folded(c, n, len, n + 1) = [s \in Slots |-> IF s \in n .. n + len - 1 THEN s + 1 ELSE c[s]]
  BY DEF Folded
<1>4. \A s \in Slots : s < n + len => Folded(c, n, len, n + 1)[s] = s + 1
  <2>1. TAKE s \in Slots
  <2>2. HAVE s < n + len
  <2>3. CASE s < n
    BY <1>2, <1>3, <2>3 DEF Has
  <2>4. CASE ~(s < n)
    BY <1>2, <1>3, <2>2, <2>4
  <2>5. QED
    BY <2>3, <2>4
<1>5. Folded(c, n, len, n + 1) \in [Slots -> 0 .. C]
  BY <1>2, <1>3
<1>6. QED
  BY <1>4, <1>5 DEF Has

\* One row written behind the n-th extends what a cache holds: a host run.
LEMMA RowHolds ==
  ASSUME NEW c \in [Slots -> 0 .. C], NEW n \in Nat, n < C, Has(c, n)
  PROVE  /\ [c EXCEPT ![Least(n, C - 1)] = n + 1] \in [Slots -> 0 .. C]
         /\ Has([c EXCEPT ![Least(n, C - 1)] = n + 1], n + 1)
<1>1. C \in Nat
  BY KvBridgeAssumption
<1>2. Least(n, C - 1) = n /\ n \in Slots
  BY <1>1 DEF Least, Slots
<1>3. \A s \in Slots : s \in Nat
  BY <1>1 DEF Slots
<1>4. QED
  BY <1>1, <1>2, <1>3 DEF Has

\* Resident: with the fold that is pending, the engine's cache is a cache.
LEMMA ResidentTyped ==
  ASSUME Typing
  PROVE  Resident \in [Slots -> 0 .. C]
BY DEF Resident, Typing, CacheTypes

\* Torn: a mixture of caches is a cache.
LEMMA TornTyped ==
  ASSUME NEW a \in [Slots -> 0 .. C], NEW b
  PROVE  Torn(a, b) \in [Slots -> 0 .. C]
<1>1. 0 \in 0 .. C
  BY KvBridgeAssumption
<1>2. QED
  BY <1>1 DEF Torn

\* ResyncTorn: a resync that fails leaves the host some cache.
LEMMA ResyncTornTyped ==
  ASSUME Typing, ResyncTorn
  PROVE  host' \in [Slots -> 0 .. C]
<1>1. host \in [Slots -> 0 .. C] /\ Resident \in [Slots -> 0 .. C]
  BY ResidentTyped DEF Typing, CacheTypes
<1>2. PICK a \in {host, Resident}, b \in {host, Resident}, c \in {host, device} : host' = Torn(Torn(a, b), c)
  BY DEF ResyncTorn
<1>3. Torn(a, b) \in [Slots -> 0 .. C]
  BY <1>1, TornTyped
<1>4. QED
  BY <1>2, <1>3, TornTyped

\* Past: while the engine is ahead, its cache holds the conversation, otherwise the host's does.
LEMMA PastHolds ==
  ASSUME Owed, Holds(p)
  PROVE  /\ ahead => Has(Resident, p)
         /\ ~ahead => Has(host, p)
BY DEF Owed, Holds, Past, Has

\* Past': and the other way round.
LEMMA HoldsAgain ==
  ASSUME Owed', ahead' => Has(Resident', p'), ~ahead' => Has(host', p')
  PROVE  Holds(p)'
BY DEF Owed, Holds, Past, Has

-----------------------------------------------------------------------------
(* The steps.  Answers is what a step does to the conversation the mapping *)
(* of KvBridge shows: nothing, clearing it, or appending to it.            *)
Answers ==
  \/ p' = p /\ Sampleable' = Sampleable
  \/ p' = 0 /\ Sampleable' = 0
  \/ \E n \in 1 .. C - 1 : p + n <= C - 1 /\ p' = p + n /\ Sampleable' = p'

\* Init: an empty conversation.
LEMMA Started == Init => IInv
<1> SUFFICES ASSUME Init PROVE IInv
  OBVIOUS
<1>1. C \in Nat /\ C > 1 /\ MaxNew \in Nat /\ MaxTurns \in Nat /\ Drivers \subseteq {"chat", "vlm"} /\ Windows \subseteq Nat
  BY KvBridgeAssumption
<1>2. Zeros \in [Slots -> 0 .. C]
  BY <1>1 DEF Zeros
<1>3. Flags
  BY Zenon DEF Init, Flags
<1>7. CacheTypes /\ TurnTypes
  BY <1>1, <1>2 DEF Init, CacheTypes, TurnTypes
<1>4. Counted /\ Owed /\ Pending
  BY <1>1 DEF Init, Counted, Owed, Pending
<1>5. Holds(p)
  BY <1>1 DEF Init, Holds, Slots
<1>6. QED
  BY <1>3, <1>4, <1>5, <1>7 DEF IInv, Typing

\* Reset: whatever the conversation was, it is empty.
LEMMA Cleared ==
  ASSUME IInv, Reset
  PROVE  /\ p' = 0 /\ Sampleable' = 0 /\ ahead' = FALSE /\ Owed' /\ Pending'
         /\ Holds(p)'
         /\ Flags' /\ CacheTypes'
<1>1. C \in Nat /\ C > 1
  BY KvBridgeAssumption
<1>2. Zeros \in [Slots -> 0 .. C]
  BY <1>1 DEF Zeros
<1>3. Flags /\ CacheTypes /\ Pending
  BY DEF IInv, Typing
<1>4. p' = 0 /\ ahead' = FALSE /\ Sampleable' = 0
  BY DEF Reset, Sampleable
<1>5. Holds(p)'
  BY <1>1, <1>4 DEF Holds, Slots
<1>6. driver' = driver /\ prefillS' = prefillS /\ linked' = linked /\ rebindPastNextStep' = linked
  BY DEF Reset, setup
<1>7. Flags'
  BY <1>3, <1>6, Zenon DEF Reset, setup, Flags
<1>8. Owed'
  BY <1>4, <1>6 DEF Owed
<1>9. Pending' /\ pendingSlot' \in -1 .. C - 1
  BY <1>1, <1>3, <1>4, <1>6 DEF Reset, Pending, CacheTypes
<1>10. host' \in [Slots -> 0 .. C] /\ device' \in [Slots -> 0 .. C]
  BY <1>2 DEF Reset
<1>11. row' \in 0 .. C /\ decoded' \in 0 .. C /\ logits' \in 0 .. C
  BY <1>1 DEF Reset
<1>12. CacheTypes'
  BY <1>1, <1>3, <1>4, <1>6, <1>9, <1>10, <1>11 DEF CacheTypes
<1>13. QED
  BY <1>4, <1>5, <1>7, <1>8, <1>9, <1>12

-----------------------------------------------------------------------------
(* One forward over a token.                                               *)

\* The caches after a run of the token at position p: its row is in the current one.
Ran ==
  /\ host' \in [Slots -> 0 .. C] /\ device' \in [Slots -> 0 .. C]
  /\ row' \in 0 .. C /\ decoded' = p + 1 /\ pendingSlot' \in -1 .. C - 1
  /\ {linked', rebindPastNextStep', ahead'} \subseteq BOOLEAN
  /\ linked' <=> ahead'
  /\ ~rebindPastNextStep'
  /\ driver = "vlm" => pendingSlot' = IF ahead' THEN p ELSE -1
  /\ ahead' => row' = p + 1 /\ Has(device', p)
  /\ ~ahead' => Has(host', p + 1)

\* Where a step may be: the links are to be seeded or the engine is ahead.
Stepping == p < C - 1 /\ (phase = "step" \/ (phase = "prefill" /\ prefillS = 0))

\* A step in the chat finds the cache to be seeded or the engine ahead (Owed).
LEMMA SeededOrAhead ==
  ASSUME IInv, Stepping, linked
  PROVE  /\ Rebinds => ~ahead
         /\ ~Rebinds => ahead
<1>1. driver \in {"chat", "vlm"}
  BY KvBridgeAssumption DEF IInv, Typing, CacheTypes
<1>2. QED
  BY <1>1 DEF IInv, Owed, Stepping, Rebinds

\* LinkedRun: the seed or the fold gives the engine the conversation, and the forward its next row.
LEMMA LinkedRuns ==
  ASSUME IInv, Stepping, LinkedRun, setup' = setup
  PROVE  Ran
<1>1. C \in Nat /\ C > 1
  BY KvBridgeAssumption
<1>2. Typing /\ Flags /\ CacheTypes /\ Owed /\ Pending /\ Holds(p) /\ linked
  BY DEF IInv, Typing, LinkedRun
<1>3. p \in Nat /\ p < C - 1 /\ Least(p, C - 1) = p
  BY <1>1, <1>2 DEF CacheTypes, Stepping, Least
<1> DEFINE seen == IF Rebinds THEN host ELSE IF p = 0 THEN device ELSE Resident
<1>4. seen \in [Slots -> 0 .. C]
  BY <1>2, ResidentTyped DEF CacheTypes
<1>5. Has(seen, p)
  <2>1. CASE Rebinds
    BY <1>2, <2>1, PastHolds, SeededOrAhead
  <2>2. CASE ~Rebinds /\ p = 0
    BY <1>1, <2>2 DEF Has, Slots
  <2>3. CASE ~Rebinds /\ p # 0
    BY <1>2, <2>3, PastHolds, SeededOrAhead
  <2>4. QED
    BY <2>1, <2>2, <2>3
<1>6. /\ device' = seen /\ row' = RowOver(seen, p) /\ decoded' = RowOver(seen, p)
      /\ rebindPastNextStep' = FALSE /\ ahead' = TRUE /\ linked' = linked /\ host' = host
      /\ pendingSlot' = IF driver = "vlm" THEN Least(p, C - 1) ELSE pendingSlot
  BY DEF LinkedRun
<1> HIDE DEF seen
<1>7. RowOver(seen, p) = p + 1
  BY <1>3, <1>5, RowOverHeld
<1>8. host' \in [Slots -> 0 .. C] /\ device' \in [Slots -> 0 .. C] /\ row' \in 0 .. C
  BY <1>1, <1>2, <1>3, <1>4, <1>6, <1>7 DEF CacheTypes
<1>9. pendingSlot' \in -1 .. C - 1 /\ (driver = "vlm" => pendingSlot' = p)
  BY <1>1, <1>2, <1>3, <1>6 DEF CacheTypes
<1>10. linked' = TRUE
  BY <1>2, <1>6, Zenon DEF Flags
<1>11. Has(device', p) /\ row' = p + 1 /\ decoded' = p + 1 /\ ahead' = TRUE /\ rebindPastNextStep' = FALSE
  BY <1>5, <1>6, <1>7
<1>12. {linked', rebindPastNextStep', ahead'} \subseteq BOOLEAN
  BY <1>10, <1>11
<1>13. QED
  BY <1>8, <1>9, <1>10, <1>11, <1>12 DEF Ran

\* HostRun: the host's past takes the row behind the conversation.
LEMMA HostRuns ==
  ASSUME IInv, Stepping, NEW past \in [Slots -> 0 .. C], Has(past, p), HostRun(past)
  PROVE  /\ host' \in [Slots -> 0 .. C] /\ Has(host', p + 1)
         /\ row' \in 0 .. C /\ decoded' = p + 1
<1>1. C \in Nat /\ p \in Nat /\ p < C - 1
  BY KvBridgeAssumption DEF IInv, Typing, CacheTypes, Stepping
<1>2. RowOver(past, p) = p + 1
  BY <1>1, RowOverHeld
<1>3. host' = [past EXCEPT ![Least(p, C - 1)] = p + 1] /\ row' = p + 1 /\ decoded' = p + 1
  BY <1>2 DEF HostRun
<1>4. host' \in [Slots -> 0 .. C] /\ Has(host', p + 1)
  <2>1. p < C
    BY KvBridgeAssumption, <1>1
  <2>2. QED
    BY <1>1, <1>3, <2>1, RowHolds
<1>5. QED
  BY <1>1, <1>3, <1>4

\* Without links the run is on the host's past.
LEMMA UnlinkedRuns ==
  ASSUME IInv, Stepping, ~linked, HostRun(host), setup' = setup,
         UNCHANGED <<device, linked, rebindPastNextStep, ahead, pendingSlot>>
  PROVE  Ran
<1>1. Flags /\ CacheTypes /\ Owed /\ Pending /\ Holds(p)
  BY DEF IInv, Typing
<1>2. ~ahead /\ ~rebindPastNextStep
  BY <1>1 DEF Owed
<1>3. host \in [Slots -> 0 .. C] /\ Has(host, p)
  BY <1>1, <1>2, PastHolds DEF CacheTypes
<1>4. host' \in [Slots -> 0 .. C] /\ Has(host', p + 1) /\ row' \in 0 .. C /\ decoded' = p + 1
  BY <1>3, HostRuns
<1>5. device' \in [Slots -> 0 .. C] /\ pendingSlot' \in -1 .. C - 1 /\ (driver = "vlm" => pendingSlot' = -1)
  BY <1>1, <1>2 DEF CacheTypes, Pending
<1>6. {linked', rebindPastNextStep', ahead'} \subseteq BOOLEAN
  BY <1>1, Zenon DEF Flags
<1>7. QED
  BY <1>2, <1>4, <1>5, <1>6 DEF Ran

\* Regained: what is brought back to the host is the current copy.
LEMMA RegainedHolds ==
  ASSUME Tolerated, IInv, Stepping, LinksFail
  PROVE  /\ Reads => ahead
         /\ Regained \in [Slots -> 0 .. C] /\ Has(Regained, p)
<1>1. Typing /\ CacheTypes /\ Owed /\ Holds(p) /\ linked
  BY DEF IInv, Typing, LinksFail
<1>2. ~(driver = "chat" /\ rebindPastNextStep)
  BY DEF LinksFail, Tolerated
<1>3. Reads => ahead
  BY <1>1, <1>2, SeededOrAhead DEF Rebinds, Reads
<1>4. Regained \in [Slots -> 0 .. C]
  BY <1>1, ResidentTyped DEF CacheTypes, Regained
<1>5. Has(Regained, p)
  BY <1>1, <1>3, PastHolds DEF Regained, Reads
<1>6. QED
  BY <1>3, <1>4, <1>5

\* Unlink: the links are dropped, and no fold is pending.
LEMMA Unlinked ==
  ASSUME IInv, Unlink
  PROVE  /\ linked' = FALSE /\ ahead' = FALSE /\ rebindPastNextStep' = FALSE
         /\ device' = device /\ device' \in [Slots -> 0 .. C]
         /\ pendingSlot' \in -1 .. C - 1 /\ (driver = "vlm" => pendingSlot' = -1)
<1>1. CacheTypes /\ Pending
  BY DEF IInv, Typing
<1>2. QED
  BY <1>1, KvBridgeAssumption DEF Unlink, CacheTypes, Pending

\* A run on the host's past after the links were dropped.
LEMMA Unlinks ==
  ASSUME Tolerated, IInv, Stepping, Unlink, HostRun(Regained), setup' = setup
  PROVE  Ran
<1>1. Regained \in [Slots -> 0 .. C] /\ Has(Regained, p)
  BY RegainedHolds DEF Unlink
<1>2. host' \in [Slots -> 0 .. C] /\ Has(host', p + 1) /\ row' \in 0 .. C /\ decoded' = p + 1
  BY <1>1, HostRuns
<1>3. QED
  BY <1>2, Unlinked DEF Ran

\* Forward: the token is in the cache, its logits are what sample() reads.
LEMMA Forwarded ==
  ASSUME Tolerated, IInv, Stepping, Forward
  PROVE  /\ p' = p + 1 /\ Sampleable' = p' /\ p' \in 0 .. C - 1 /\ setup' = setup
         /\ Flags' /\ CacheTypes' /\ Pending' /\ Holds(p)'
         /\ linked' <=> ahead'
         /\ ~rebindPastNextStep'
<1>1. C \in Nat /\ C > 1
  BY KvBridgeAssumption
<1>2. Flags /\ CacheTypes /\ Owed /\ Pending
  BY DEF IInv, Typing
<1>3. setup' = setup /\ p' = p + 1 /\ lastFromDecode' = TRUE /\ logitsValid' = ~argMaxEngaged
      /\ logits' = IF argMaxEngaged THEN logits ELSE decoded'
  BY DEF Forward
<1>4. driver' = driver /\ prefillS' = prefillS /\ argMaxEngaged' = argMaxEngaged
  BY <1>3 DEF setup
<1>5. Ran
  <2>1. CASE LinkedRun
    BY <1>3, <2>1, LinkedRuns
  <2>2. CASE ~linked /\ HostRun(host) /\ UNCHANGED <<device, linked, rebindPastNextStep, ahead, pendingSlot>>
    BY <1>3, <2>2, UnlinkedRuns
  <2>3. CASE Unlink /\ HostRun(Regained)
    BY <1>3, <2>3, Unlinks
  <2>4. QED
    BY <2>1, <2>2, <2>3 DEF Forward
<1>6. p \in Nat /\ p < C - 1 /\ p' \in 0 .. C - 1
  BY <1>1, <1>2, <1>3 DEF Stepping, CacheTypes
<1>7. Sampleable' = p'
  <2>1. CASE argMaxEngaged
    BY <1>3, <1>4, <1>5, <2>1 DEF Sampleable, Ran
  <2>2. CASE ~argMaxEngaged
    BY <1>3, <1>4, <1>5, <2>2 DEF Sampleable, Ran
  <2>3. QED
    BY <2>1, <2>2
<1>8. Flags'
  BY <1>2, <1>3, <1>4, <1>5, Zenon DEF Flags, Ran
<1>9. decoded' \in 0 .. C
  BY <1>1, <1>5, <1>6 DEF Ran
<1>10. logits' \in 0 .. C
  BY <1>2, <1>3, <1>9 DEF CacheTypes
<1>11. CacheTypes'
  BY <1>2, <1>4, <1>5, <1>6, <1>9, <1>10 DEF CacheTypes, Ran
<1>12. Pending'
  BY <1>2, <1>3, <1>4, <1>5, <1>6 DEF Pending, Ran
<1>13. Holds(p)'
  <2>1. CASE linked' /\ ahead'
    <3>1. NextFold' = p
      BY <1>1, <1>3, <1>4, <1>5, <1>6, <2>1 DEF NextFold, Ran, Least
    <3>2. Resident' = [s \in Slots |-> IF s = p THEN p + 1 ELSE device'[s]]
      BY <1>5, <2>1, <3>1 DEF Resident, Ran
    <3>3. Has(device', p)
      BY <1>5, <2>1 DEF Ran
    <3>4. \A s \in Slots : s \in Nat
      BY <1>1 DEF Slots
    <3>5. Past' = Resident'
      BY <2>1 DEF Past
    <3>6. QED
      BY <1>3, <1>6, <3>2, <3>3, <3>4, <3>5 DEF Holds, Has
  <2>2. CASE ~(linked' /\ ahead')
    <3>1. Past' = host' /\ Has(host', p + 1)
      BY <1>5, <2>2 DEF Past, Ran
    <3>2. QED
      BY <1>3, <3>1 DEF Holds, Has
  <2>3. QED
    BY <2>1, <2>2
<1>14. QED
  BY <1>3, <1>5, <1>6, <1>7, <1>8, <1>11, <1>12, <1>13 DEF Ran

\* What a step leaves alone keeps what the invariant says of it.
LEMMA SameCache ==
  ASSUME IInv, UNCHANGED <<setup, engine, cache, p, result>>
  PROVE  Flags' /\ CacheTypes' /\ Pending' /\ Holds(p)' /\ p' = p /\ Sampleable' = Sampleable
<1>1. Flags /\ CacheTypes /\ Pending /\ Holds(p)
  BY DEF IInv, Typing
<1>2. /\ driver' = driver /\ prefillS' = prefillS /\ argMaxEngaged' = argMaxEngaged
      /\ device' = device /\ row' = row /\ decoded' = decoded
      /\ host' = host /\ linked' = linked /\ rebindPastNextStep' = rebindPastNextStep /\ ahead' = ahead
      /\ pendingSlot' = pendingSlot /\ p' = p
      /\ logits' = logits /\ logitsValid' = logitsValid /\ lastFromDecode' = lastFromDecode
  BY DEF setup, engine, cache, result
<1>3. Flags'
  BY <1>1, <1>2, Zenon DEF Flags
<1>4. CacheTypes' /\ Pending'
  BY <1>1, <1>2 DEF CacheTypes, Pending
<1>5. Sampleable' = Sampleable
  BY <1>2, Zenon DEF Sampleable
<1>6. NextFold' = NextFold
  BY <1>2 DEF NextFold
<1>7. Resident' = Resident
  BY <1>2, <1>6 DEF Resident
<1>8. Past' = Past
  BY <1>2, <1>7, Zenon DEF Past
<1>9. Holds(p)'
  BY <1>1, <1>2, <1>8 DEF Holds
<1>10. QED
  BY <1>2, <1>3, <1>4, <1>5, <1>9

\* What a call that fails leaves of the invariant, once the turn is over.
Survived ==
  /\ Flags' /\ CacheTypes' /\ Pending' /\ Holds(p)' /\ p' = p /\ Sampleable' = Sampleable
  /\ phase' = "idle" => Owed'

\* Nothing changed.
LEMMA SurvivesSame ==
  ASSUME IInv, UNCHANGED <<setup, engine, cache, p, result>>
  PROVE  Survived
<1>1. Flags' /\ CacheTypes' /\ Pending' /\ Holds(p)' /\ p' = p /\ Sampleable' = Sampleable
  BY SameCache
<1>2. phase' = "idle" => Owed'
  BY DEF IInv, Owed, cache, setup
<1>3. QED
  BY <1>1, <1>2 DEF Survived

\* A resync that failed part-way: the engine stays ahead, so what became of the host is of no account.
LEMMA SurvivesTorn ==
  ASSUME IInv, linked, ahead, ResyncTorn,
         UNCHANGED <<setup, engine, linked, rebindPastNextStep, ahead, pendingSlot, p, result>>
  PROVE  Survived
<1>1. Typing /\ Flags /\ CacheTypes /\ Owed /\ Pending /\ Holds(p)
  BY DEF IInv, Typing
<1>2. /\ driver' = driver /\ prefillS' = prefillS /\ argMaxEngaged' = argMaxEngaged
      /\ device' = device /\ row' = row /\ decoded' = decoded
      /\ linked' = linked /\ rebindPastNextStep' = rebindPastNextStep /\ ahead' = ahead
      /\ pendingSlot' = pendingSlot /\ p' = p
      /\ logits' = logits /\ logitsValid' = logitsValid /\ lastFromDecode' = lastFromDecode
  BY DEF setup, engine, result
<1>3. Flags'
  BY <1>1, <1>2, Zenon DEF Flags
<1>4. host' \in [Slots -> 0 .. C]
  BY <1>1, ResyncTornTyped
<1>5. CacheTypes' /\ Pending'
  BY <1>1, <1>2, <1>4 DEF CacheTypes, Pending
<1>6. NextFold' = NextFold
  BY <1>2 DEF NextFold
<1>7. Resident' = Resident
  BY <1>2, <1>6 DEF Resident
<1>8. Holds(p)'
  BY <1>1, <1>2, <1>7 DEF Holds, Past
<1>9. Sampleable' = Sampleable
  BY <1>2, Zenon DEF Sampleable
<1>10. phase' = "idle" => Owed'
  BY <1>1, <1>2 DEF Owed
<1>11. QED
  BY <1>2, <1>3, <1>5, <1>8, <1>9, <1>10 DEF Survived

\* The links are dropped, and the run on the host's past is refused: it holds the conversation.
LEMMA SurvivesUnlinked ==
  ASSUME Tolerated, IInv, Stepping, Unlink, host' = Regained, UNCHANGED <<setup, row, decoded, p, result>>
  PROVE  Survived
<1>1. Typing /\ Flags /\ CacheTypes
  BY DEF IInv, Typing
<1>2. /\ driver' = driver /\ prefillS' = prefillS /\ argMaxEngaged' = argMaxEngaged
      /\ row' = row /\ decoded' = decoded /\ p' = p
      /\ logits' = logits /\ logitsValid' = logitsValid /\ lastFromDecode' = lastFromDecode
  BY DEF setup, result
<1>3. host' \in [Slots -> 0 .. C] /\ Has(host', p)
  BY RegainedHolds DEF Unlink
<1>4. /\ linked' = FALSE /\ ahead' = FALSE /\ rebindPastNextStep' = FALSE
      /\ device' = device /\ device' \in [Slots -> 0 .. C]
      /\ pendingSlot' \in -1 .. C - 1 /\ (driver = "vlm" => pendingSlot' = -1)
  BY Unlinked
<1>5. Flags'
  BY <1>1, <1>2, <1>4, Zenon DEF Flags
<1>6. CacheTypes'
  BY <1>1, <1>2, <1>3, <1>4 DEF CacheTypes
<1>7. Pending'
  BY <1>2, <1>4 DEF IInv, Pending
<1>8. Holds(p)'
  BY <1>2, <1>3, <1>4 DEF Holds, Past, Has
<1>9. Sampleable' = Sampleable
  BY <1>2, Zenon DEF Sampleable
<1>10. Owed'
  BY <1>4 DEF Owed
<1>11. QED
  BY <1>2, <1>5, <1>6, <1>7, <1>8, <1>9, <1>10 DEF Survived

\* Fails: whichever call of a step fails, the conversation is what it was.
LEMMA StepSurvives ==
  ASSUME Tolerated, IInv, Stepping, Fails
  PROVE  Survived
<1>1. Flags /\ Owed /\ driver \in {"chat", "vlm"}
  BY KvBridgeAssumption DEF IInv, Typing, CacheTypes
<1>2. CASE /\ (IF driver = "chat" /\ linked /\ rebindPastNextStep THEN "step-seed" ELSE "step") \in Failures
           /\ rebindPastNextStep' = (driver = "vlm" /\ rebindPastNextStep)
           /\ ahead' = (ahead \/ (driver = "chat" /\ linked))
           /\ UNCHANGED <<setup, engine, host, linked, pendingSlot, p, result>>
  <2>1. ~(driver = "chat" /\ linked /\ rebindPastNextStep)
    BY <1>2 DEF Tolerated
  <2>2. driver = "chat" => ~rebindPastNextStep
    BY <1>1, <2>1 DEF Owed
  <2>3. driver = "chat" /\ linked => ahead
    BY <2>1, SeededOrAhead DEF Rebinds
  <2>4. rebindPastNextStep' = rebindPastNextStep
    <3>1. rebindPastNextStep \in BOOLEAN
      BY <1>1 DEF Flags
    <3>2. QED
      BY <1>1, <1>2, <2>2, <3>1, Zenon
  <2>5. ahead' = ahead
    <3>1. ahead \in BOOLEAN
      BY <1>1 DEF Flags
    <3>2. QED
      BY <1>2, <2>3, <3>1, Zenon
  <2>6. UNCHANGED <<setup, engine, cache, p, result>>
    BY <1>2, <2>4, <2>5 DEF cache
  <2>7. QED
    BY <2>6, SurvivesSame
<1>3. CASE /\ "step" \in Failures /\ Unlink /\ host' = Regained
           /\ UNCHANGED <<setup, row, decoded, p, result>>
  BY <1>3, SurvivesUnlinked
<1>4. CASE /\ LinksFail /\ Reads /\ ResyncTorn
           /\ UNCHANGED <<setup, engine, linked, rebindPastNextStep, ahead, pendingSlot, p, result>>
  <2>1. linked /\ ahead
    BY <1>4, RegainedHolds DEF LinksFail
  <2>2. QED
    BY <1>4, <2>1, SurvivesTorn
<1>5. QED
  BY <1>2, <1>3, <1>4 DEF Fails

-----------------------------------------------------------------------------
(* The actions.                                                            *)

\* ResetPressed: between two calls, of a running turn too, the conversation is empty and nothing of
\* it is yet to be counted.
LEMMA ResetPressedStep ==
  ASSUME Tolerated, IInv, ResetPressed
  PROVE  IInv' /\ Answers
<1>1. C \in Nat /\ C > 1 /\ MaxTurns \in Nat /\ TurnTypes /\ Counted
  BY KvBridgeAssumption DEF IInv, Typing
<1>2. BetweenCalls /\ Reset
  BY DEF ResetPressed, Tolerated
<1>3. /\ p' = 0 /\ Sampleable' = 0 /\ ahead' = FALSE /\ Owed' /\ Pending'
      /\ Holds(p)' /\ Flags' /\ CacheTypes'
  BY <1>2, Cleared
<1>4. phase' = phase /\ left' = left /\ fed' = fed /\ gen' = gen /\ position' = 0 /\ turns' = turns + 1
      /\ turns < MaxTurns
  BY DEF ResetPressed, Tolerated
<1>5. TurnTypes'
  BY <1>1, <1>4 DEF TurnTypes
<1>6. Counted'
  BY <1>1, <1>3, <1>4, <1>2 DEF Counted, BetweenCalls
<1>7. QED
  BY <1>3, <1>5, <1>6 DEF IInv, Typing, Answers

\* BeginTurn: a turn starts on the conversation, or on a cleared one.
LEMMA BeginTurnStep ==
  ASSUME IInv, NEW n \in Prompts, NEW clear \in BOOLEAN, BeginTurn(n, clear)
  PROVE  IInv' /\ Answers
<1>1. C \in Nat /\ C > 1 /\ MaxTurns \in Nat /\ MaxNew \in Nat /\ n \in Nat \ {0}
  BY KvBridgeAssumption
<1>2. Typing /\ TurnTypes /\ Counted /\ Owed /\ phase = "idle" /\ turns < MaxTurns
  BY DEF IInv, Typing, BeginTurn
<1>3. phase' = "prefill" /\ left' = n /\ fed' = 0 /\ gen' = 0 /\ turns' = turns + 1
  BY DEF BeginTurn
<1>4. CASE clear /\ Reset /\ position' = 0
  <2>1. /\ p' = 0 /\ Sampleable' = 0 /\ ahead' = FALSE /\ Owed' /\ Pending'
        /\ Holds(p)' /\ Flags' /\ CacheTypes'
    BY <1>4, Cleared
  <2>2. TurnTypes'
    BY <1>1, <1>2, <1>3, <1>4 DEF TurnTypes
  <2>3. Counted'
    BY <1>1, <1>3, <1>4, <2>1 DEF Counted
  <2>4. QED
    BY <2>1, <2>2, <2>3 DEF IInv, Typing, Answers
<1>5. CASE UNCHANGED <<setup, engine, cache, p, result, position>>
  <2>1. Flags' /\ CacheTypes' /\ Pending' /\ Holds(p)' /\ p' = p /\ Sampleable' = Sampleable
    BY <1>5, SameCache
  <2>2. TurnTypes'
    BY <1>1, <1>2, <1>3, <1>5 DEF TurnTypes
  <2>3. p \in Nat /\ position' = position /\ position = p
    BY <1>1, <1>2, <1>5 DEF Counted, Typing, CacheTypes
  <2>4. Counted'
    BY <1>1, <1>3, <2>1, <2>3 DEF Counted
  <2>5. Owed'
    BY <1>2, <1>3, <1>5 DEF Owed, cache, setup
  <2>6. QED
    BY <2>1, <2>2, <2>4, <2>5 DEF IInv, Typing, Answers
<1>6. QED
  BY <1>4, <1>5 DEF BeginTurn

\* EndTurn: a turn that ends with nothing fed that is not counted leaves the conversation as it was.
LEMMA EndTurnStep ==
  ASSUME IInv, EndTurn, Survived, position' = position, gen' \in 0 .. MaxNew, position = p
  PROVE  IInv' /\ Answers
<1>1. TurnTypes
  BY DEF IInv, Typing
<1>2. phase' = "idle" /\ left' = 0 /\ fed' = 0 /\ turns' = turns
  BY DEF EndTurn
<1>3. Flags' /\ CacheTypes' /\ Pending' /\ Holds(p)' /\ p' = p /\ Sampleable' = Sampleable /\ Owed'
  BY <1>2 DEF Survived
<1>4. TurnTypes'
  BY <1>1, <1>2 DEF TurnTypes
<1>5. Counted'
  BY <1>2, <1>3 DEF Counted
<1>6. QED
  BY <1>3, <1>4, <1>5 DEF IInv, Typing, Answers

\* The reply's count is in its range.
LEMMA GenTyped ==
  ASSUME IInv
  PROVE  gen \in 0 .. MaxNew
BY DEF IInv, Typing, TurnTypes

\* A prompt of which nothing was fed has nothing that is not counted.
LEMMA NothingFed ==
  ASSUME IInv, phase = "prefill", fed = 0
  PROVE  position = p
BY DEF IInv, Typing, TurnTypes, Counted

\* PromptRefused: a prompt that does not fit is not begun.
LEMMA PromptRefusedStep ==
  ASSUME IInv, PromptRefused
  PROVE  IInv' /\ Answers
BY NothingFed, SurvivesSame, GenTyped, EndTurnStep DEF PromptRefused

\* Resync: the host's past becomes the engine's with its pending fold.
LEMMA ResyncStep ==
  ASSUME IInv, Resync
  PROVE  IInv' /\ Answers
<1>1. C \in Nat /\ C > 1 /\ Typing /\ Flags /\ CacheTypes /\ TurnTypes /\ Owed /\ Counted /\ Pending /\ Holds(p)
  BY KvBridgeAssumption DEF IInv, Typing
<1>2. phase = "prefill" /\ fed = 0 /\ linked /\ ahead /\ prefillS > 0
  BY DEF Resync, MustResync
<1>3. CASE /\ host' = Resident /\ ahead' = FALSE
           /\ rebindPastNextStep' = (rebindPastNextStep \/ driver = "vlm")
           /\ pendingSlot' = IF driver = "vlm" THEN -1 ELSE pendingSlot
           /\ UNCHANGED <<setup, engine, linked, p, result, turn>>
  <2>1. /\ driver' = driver /\ prefillS' = prefillS /\ argMaxEngaged' = argMaxEngaged
        /\ device' = device /\ row' = row /\ decoded' = decoded /\ linked' = linked /\ p' = p
        /\ logits' = logits /\ logitsValid' = logitsValid /\ lastFromDecode' = lastFromDecode
        /\ phase' = phase /\ left' = left /\ fed' = fed /\ position' = position /\ gen' = gen /\ turns' = turns
    BY <1>3 DEF setup, engine, result, turn
  <2>2. host' \in [Slots -> 0 .. C] /\ Has(host', p)
    BY <1>1, <1>2, <1>3, ResidentTyped, PastHolds
  <2>3. Flags'
    <3>1. (rebindPastNextStep \/ driver = "vlm") \in BOOLEAN
      BY <1>1, Zenon DEF Flags
    <3>2. QED
      BY <1>1, <1>3, <2>1, <3>1, Zenon DEF Flags
  <2>4. CacheTypes' /\ TurnTypes'
    BY <1>1, <1>3, <2>1, <2>2 DEF CacheTypes, TurnTypes
  <2>5. Pending'
    BY <1>1, <1>3, <2>1 DEF Pending
  <2>6. Holds(p)'
    BY <1>3, <2>1, <2>2 DEF Holds, Past, Has
  <2>7. Counted'
    BY <1>1, <2>1 DEF Counted
  <2>8. Owed'
    BY <1>1, <1>2, <1>3, <2>1 DEF Owed
  <2>9. Sampleable' = Sampleable
    BY <2>1, Zenon DEF Sampleable
  <2>10. QED
    BY <2>1, <2>3, <2>4, <2>5, <2>6, <2>7, <2>8, <2>9 DEF IInv, Typing, Answers
<1>4. CASE /\ ResyncTorn /\ EndTurn
           /\ UNCHANGED <<setup, engine, linked, rebindPastNextStep, ahead, pendingSlot, p, result, position, gen>>
  BY <1>2, <1>4, SurvivesTorn, NothingFed, GenTyped, EndTurnStep
<1>5. QED
  BY <1>3, <1>4 DEF Resync

\* PrefillPass: the engine is not ahead, so the window is computed over the conversation and folded in
\* behind it.
LEMMA PrefillPassStep ==
  ASSUME Tolerated, IInv, PrefillPass
  PROVE  IInv' /\ Answers
<1> DEFINE len == Least(left, prefillS)
           r   == RowOver(host, p)
<1>1. C \in Nat /\ C > 1 /\ Typing /\ Flags /\ CacheTypes /\ TurnTypes /\ Owed /\ Counted /\ Pending /\ Holds(p)
  BY KvBridgeAssumption DEF IInv, Typing
<1>2. phase = "prefill" /\ left > 0 /\ (fed = 0 => ~TooLong) /\ prefillS > 0 /\ ~MustResync
  BY DEF PrefillPass
<1>3. p \in Nat /\ left \in Nat /\ fed \in Nat /\ prefillS \in Nat
  BY <1>1, KvBridgeAssumption DEF CacheTypes, TurnTypes
<1>4. p + left <= C - 1
  BY <1>1, <1>2, <1>3 DEF Counted, TooLong
<1>5. len \in Nat /\ 0 < len /\ len <= left
  BY <1>2, <1>3 DEF Least
<1>6. CASE /\ host' = Folded(host, p, len, r) /\ p' = p + len
           /\ logits' = (IF r = 0 THEN 0 ELSE p + len) /\ logitsValid' = TRUE /\ lastFromDecode' = FALSE
           /\ left' = left - len /\ fed' = fed + len
           /\ UNCHANGED <<setup, engine, linked, rebindPastNextStep, ahead, pendingSlot, phase, position, gen, turns>>
  <2>1. /\ driver' = driver /\ prefillS' = prefillS /\ argMaxEngaged' = argMaxEngaged
        /\ device' = device /\ row' = row /\ decoded' = decoded
    BY <1>6 DEF setup, engine
  <2>2. ~ahead
    BY <1>1, <1>2, <1>3 DEF Owed, MustResync
  <2>3. host \in [Slots -> 0 .. C] /\ Has(host, p)
    BY <1>1, <2>2, PastHolds DEF CacheTypes
  <2>4. r = p + 1
    BY <1>3, <2>3, RowOverHeld
  <2> HIDE DEF len, r
  <2>5. host' \in [Slots -> 0 .. C] /\ Has(host', p + len)
    <3>1. host' = Folded(host, p, len, p + 1)
      BY <1>6, <2>4
    <3>2. QED
      BY <1>3, <1>5, <2>3, <3>1, FoldedHolds
  <2>6. logits' = p + len /\ p + len \in 0 .. C - 1
    BY <1>1, <1>3, <1>4, <1>5, <1>6, <2>4
  <2>7. Flags'
    BY <1>1, <1>6, <2>1, Zenon DEF Flags
  <2>8. CacheTypes'
    BY <1>1, <1>6, <2>1, <2>5, <2>6 DEF CacheTypes
  <2>9. TurnTypes'
    BY <1>1, <1>3, <1>5, <1>6 DEF TurnTypes
  <2>10. Pending'
    BY <1>1, <1>6, <2>1, <2>2 DEF Pending
  <2>11. Holds(p)'
    BY <1>6, <2>2, <2>5 DEF Holds, Past, Has
  <2>12. position \in Nat /\ position + fed = p
    BY <1>1, <1>2 DEF Counted, TurnTypes
  <2>13. Counted'
    BY <1>1, <1>2, <1>3, <1>4, <1>5, <1>6, <2>12 DEF Counted
  <2>14. Owed'
    BY <1>1, <1>2, <1>6, <2>1, <2>2 DEF Owed
  <2>15. Sampleable' = p'
    BY <1>6, <2>6 DEF Sampleable
  <2>16. len \in 1 .. C - 1
    BY <1>1, <1>3, <1>4, <1>5
  <2>17. p + len <= C - 1
    BY <1>1, <1>3, <1>4, <1>5
  <2>18. Answers
    BY <1>6, <2>15, <2>16, <2>17 DEF Answers
  <2>19. QED
    BY <2>7, <2>8, <2>9, <2>10, <2>11, <2>13, <2>14, <2>18 DEF IInv, Typing
<1>7. CASE /\ (IF fed = 0 THEN "pass" ELSE "pass-later") \in Failures
           /\ EndTurn /\ UNCHANGED <<setup, engine, cache, p, result, position, gen>>
  <2>1. fed = 0
    BY <1>7 DEF Tolerated
  <2>2. QED
    BY <1>2, <1>7, <2>1, NothingFed, SurvivesSame, GenTyped, EndTurnStep
<1>8. QED
  BY <1>6, <1>7 DEF PrefillPass

\* PromptFed: what was fed is counted, and in the chat the next step seeds the engine's cache.
LEMMA PromptFedStep ==
  ASSUME IInv, PromptFed
  PROVE  IInv' /\ Answers
<1>1. C \in Nat /\ C > 1 /\ Typing /\ Flags /\ CacheTypes /\ TurnTypes /\ Owed /\ Counted /\ Pending /\ Holds(p)
  BY KvBridgeAssumption DEF IInv, Typing
<1>2. /\ phase = "prefill" /\ left = 0 /\ phase' = "sample" /\ position' = position + fed
      /\ left' = left /\ fed' = fed /\ gen' = gen /\ turns' = turns
      /\ driver' = driver /\ prefillS' = prefillS /\ argMaxEngaged' = argMaxEngaged
      /\ device' = device /\ row' = row /\ decoded' = decoded
      /\ host' = host /\ linked' = linked /\ ahead' = ahead /\ pendingSlot' = pendingSlot /\ p' = p
      /\ logits' = logits /\ logitsValid' = logitsValid /\ lastFromDecode' = lastFromDecode
      /\ rebindPastNextStep' = IF driver = "chat" /\ prefillS > 0 THEN linked ELSE rebindPastNextStep
  BY DEF PromptFed, setup, engine, result
<1>3. position + fed = p /\ fed > 0
  BY <1>1, <1>2 DEF Counted, TurnTypes
<1>4. Flags'
  BY <1>1, <1>2, Zenon DEF Flags
<1>5. CacheTypes' /\ Pending'
  BY <1>1, <1>2 DEF CacheTypes, Pending
<1>6. TurnTypes'
  BY <1>1, <1>2, <1>3 DEF TurnTypes, CacheTypes
<1>7. Counted'
  BY <1>2, <1>3 DEF Counted
<1>8. Past' = Past
  <2>1. NextFold' = NextFold
    BY <1>2 DEF NextFold
  <2>2. Resident' = Resident
    BY <1>2, <2>1 DEF Resident
  <2>3. QED
    BY <1>2, <2>2, Zenon DEF Past
<1>9. Holds(p)'
  BY <1>1, <1>2, <1>8 DEF Holds
<1>10. Owed'
  <2>1. CASE driver = "chat" /\ prefillS > 0
    <3>1. ~ahead
      BY <1>1, <1>2, <1>3, <2>1 DEF Owed
    <3>2. QED
      BY <1>2, <2>1, <3>1 DEF Owed
  <2>2. CASE ~(driver = "chat" /\ prefillS > 0)
    BY <1>1, <1>2, <2>2 DEF Owed
  <2>3. QED
    BY <2>1, <2>2
<1>11. Sampleable' = Sampleable
  BY <1>2, Zenon DEF Sampleable
<1>12. QED
  BY <1>2, <1>4, <1>5, <1>6, <1>7, <1>9, <1>10, <1>11 DEF IInv, Typing, Answers

\* PromptStep: one token of the prompt.
LEMMA PromptStepStep ==
  ASSUME Tolerated, IInv, PromptStep
  PROVE  IInv' /\ Answers
<1>1. C \in Nat /\ C > 1 /\ Typing /\ CacheTypes /\ TurnTypes /\ Counted
  BY KvBridgeAssumption DEF IInv, Typing
<1>2. phase = "prefill" /\ left > 0 /\ (fed = 0 => ~TooLong) /\ prefillS = 0
  BY DEF PromptStep
<1>3. p \in Nat /\ left \in Nat /\ fed \in Nat /\ position \in Nat /\ position + fed = p /\ p + left <= C - 1
  BY <1>1, <1>2 DEF CacheTypes, TurnTypes, Counted, TooLong
<1>4. Stepping
  BY <1>1, <1>2, <1>3 DEF Stepping
<1>5. CASE Forward /\ left' = left - 1 /\ fed' = fed + 1 /\ UNCHANGED <<phase, position, gen, turns>>
  <2>1. /\ p' = p + 1 /\ Sampleable' = p' /\ setup' = setup
        /\ Flags' /\ CacheTypes' /\ Pending' /\ Holds(p)'
        /\ linked' <=> ahead'
        /\ ~rebindPastNextStep'
    BY <1>4, <1>5, Forwarded
  <2>2. TurnTypes'
    BY <1>1, <1>2, <1>5 DEF TurnTypes
  <2>3. Counted'
    BY <1>1, <1>2, <1>3, <1>5, <2>1 DEF Counted
  <2>4. Owed'
    BY <1>2, <2>1 DEF Owed, setup
  <2>5. Answers
    BY <1>1, <1>2, <1>3, <2>1 DEF Answers
  <2>6. QED
    BY <2>1, <2>2, <2>3, <2>4, <2>5 DEF IInv, Typing
<1>6. CASE Fails /\ (fed > 0 => "pass-later" \in Failures) /\ EndTurn /\ UNCHANGED <<position, gen>>
  <2>1. fed = 0
    BY <1>3, <1>6 DEF Tolerated
  <2>2. Survived
    BY <1>4, <1>6, StepSurvives
  <2>3. QED
    BY <1>2, <1>6, <2>1, <2>2, NothingFed, GenTyped, EndTurnStep
<1>7. QED
  BY <1>5, <1>6 DEF PromptStep

\* Sampled: sampling changes nothing of the conversation.
LEMMA SampledStep ==
  ASSUME IInv, Sampled
  PROVE  IInv' /\ Answers
<1>1. C \in Nat /\ C > 1 /\ Typing /\ CacheTypes /\ TurnTypes /\ Counted /\ Owed
  BY KvBridgeAssumption DEF IInv, Typing
<1>2. phase = "sample" /\ UNCHANGED <<setup, engine, cache, p, result>> /\ position = p
      /\ position' = position /\ gen' = gen
  BY <1>1 DEF Sampled, Counted
<1>3. CASE phase' = "step" /\ UNCHANGED <<left, fed, turns>>
  <2>1. Flags' /\ CacheTypes' /\ Pending' /\ Holds(p)' /\ p' = p /\ Sampleable' = Sampleable
    BY <1>2, SameCache
  <2>2. TurnTypes'
    BY <1>1, <1>2, <1>3 DEF TurnTypes
  <2>3. Counted'
    BY <1>2, <1>3, <2>1 DEF Counted
  <2>4. Owed'
    BY <1>1, <1>2, <1>3 DEF Owed, cache, setup
  <2>5. QED
    BY <2>1, <2>2, <2>3, <2>4 DEF IInv, Typing, Answers
<1>4. CASE EndTurn
  BY <1>2, <1>4, SurvivesSame, GenTyped, EndTurnStep
<1>5. QED
  BY <1>3, <1>4 DEF Sampled

\* Step: one token of the reply, for which there is room.
LEMMA StepStep ==
  ASSUME Tolerated, IInv, Step
  PROVE  IInv' /\ Answers
<1>1. C \in Nat /\ C > 1 /\ MaxNew \in Nat /\ Typing /\ CacheTypes /\ TurnTypes /\ Counted
  BY KvBridgeAssumption DEF IInv, Typing
<1>2. phase = "step" /\ position = p /\ p \in Nat
  BY <1>1 DEF Step, Counted, CacheTypes
<1>3. CASE EndTurn /\ UNCHANGED <<setup, engine, cache, p, result, position, gen>>
  BY <1>2, <1>3, SurvivesSame, GenTyped, EndTurnStep
<1>4. CASE gen < MaxNew /\ position < C - 1 /\ gen' = gen + 1
  <2>1. Stepping /\ gen' \in 0 .. MaxNew
    BY <1>1, <1>2, <1>4 DEF Stepping, TurnTypes
  <2>2. CASE Forward /\ phase' = "sample" /\ position' = position + 1 /\ UNCHANGED <<left, fed, turns>>
    <3>1. /\ p' = p + 1 /\ Sampleable' = p' /\ setup' = setup
          /\ Flags' /\ CacheTypes' /\ Pending' /\ Holds(p)'
          /\ linked' <=> ahead'
          /\ ~rebindPastNextStep'
      BY <2>1, <2>2, Forwarded
    <3>2. TurnTypes'
      BY <1>1, <1>2, <1>4, <2>1, <2>2 DEF TurnTypes
    <3>3. Counted'
      BY <1>2, <2>2, <3>1 DEF Counted
    <3>4. Owed'
      BY <2>2, <3>1 DEF Owed
    <3>5. Answers
      BY <1>1, <1>2, <1>4, <3>1 DEF Answers
    <3>6. QED
      BY <3>1, <3>2, <3>3, <3>4, <3>5 DEF IInv, Typing
  <2>3. CASE Fails /\ EndTurn /\ UNCHANGED position
    <3>1. Survived
      BY <2>1, <2>3, StepSurvives
    <3>2. QED
      BY <1>2, <2>1, <2>3, <3>1, EndTurnStep
  <2>4. QED
    BY <1>2, <1>4, <2>2, <2>3 DEF Step, EndTurn
<1>5. QED
  BY <1>3, <1>4 DEF Step

\* A step of no variable of the bridge.
LEMMA Stutters ==
  ASSUME IInv, UNCHANGED vars
  PROVE  IInv' /\ Answers
<1>1. UNCHANGED <<setup, engine, cache, p, result>> /\ turn' = turn
  BY DEF vars
<1>2. Flags' /\ CacheTypes' /\ Pending' /\ Holds(p)' /\ p' = p /\ Sampleable' = Sampleable
  BY <1>1, SameCache
<1>3. TurnTypes' /\ Counted' /\ Owed'
  BY <1>1, <1>2 DEF IInv, Typing, TurnTypes, Counted, Owed, turn, cache, setup
<1>4. QED
  BY <1>2, <1>3 DEF IInv, Typing, Answers

\* Every call keeps the invariant, and shows the conversation it appended to, cleared or kept.
LEMMA Stepped ==
  ASSUME Tolerated, IInv, [Next]_vars
  PROVE  IInv' /\ Answers
<1>1. CASE ResetPressed
  BY <1>1, ResetPressedStep
<1>2. CASE \E n \in Prompts, clear \in BOOLEAN : BeginTurn(n, clear)
  BY <1>2, BeginTurnStep
<1>3. CASE PromptRefused
  BY <1>3, PromptRefusedStep
<1>4. CASE Resync
  BY <1>4, ResyncStep
<1>5. CASE PrefillPass
  BY <1>5, PrefillPassStep
<1>6. CASE PromptFed
  BY <1>6, PromptFedStep
<1>7. CASE PromptStep
  BY <1>7, PromptStepStep
<1>8. CASE Sampled
  BY <1>8, SampledStep
<1>9. CASE Step
  BY <1>9, StepStep
<1>10. CASE UNCHANGED vars
  BY <1>10, Stutters
<1>11. QED
  BY <1>1, <1>2, <1>3, <1>4, <1>5, <1>6, <1>7, <1>8, <1>9, <1>10 DEF Next

-----------------------------------------------------------------------------
(* Theorems.  Each is for the failures of Tolerated, and for resets        *)
(* pressed at any time but inside a native call.                           *)

\* The inductive invariant of the two decoders and the turns that drive them.
THEOREM Invariance == ASSUME Tolerated PROVE Spec => []IInv
<1>1. Init => IInv
  BY Started
<1>2. IInv /\ [Next]_vars => IInv'
  BY Stepped
<1>3. QED
  BY <1>1, <1>2, PTL DEF Spec

\* Every variable has its type.
THEOREM TypeCorrect == ASSUME Tolerated PROVE Spec => []TypeOK
<1>1. IInv => TypeOK
  <2>1. SUFFICES ASSUME IInv PROVE TypeOK
    OBVIOUS
  <2>2. Flags /\ CacheTypes /\ TurnTypes /\ C \in Nat
    BY <2>1, KvBridgeAssumption, Zenon DEF IInv, Typing
  <2>3. argMaxEngaged \in BOOLEAN /\ linked \in BOOLEAN /\ rebindPastNextStep \in BOOLEAN
        /\ ahead \in BOOLEAN /\ logitsValid \in BOOLEAN /\ lastFromDecode \in BOOLEAN
    BY <2>2, Zenon DEF Flags
  <2>4. /\ row \in 0 .. C + 1 /\ decoded \in 0 .. C + 1 /\ logits \in 0 .. C + 1
        /\ p \in 0 .. C /\ position \in 0 .. C
    BY <2>2 DEF CacheTypes, TurnTypes
  <2>5. QED
    BY <2>2, <2>3, <2>4, Zenon DEF CacheTypes, TurnTypes, TypeOK
<1>2. QED
  BY <1>1, Invariance, PTL

\* Whichever copy of the past is the current one, it holds a row for every token fed: the switches
\* between the host and the engine neither drop nor repeat one (vknn_jni.cpp:306-308).
THEOREM PastIsConversation == ASSUME Tolerated PROVE Spec => []CacheIsConversation
<1>1. IInv => CacheIsConversation
  BY DEF IInv, CacheIsConversation
<1>2. QED
  BY <1>1, Invariance, PTL

\* The view model and the decoder agree how long the conversation is, and it never outgrows the cache.
THEOREM LengthsAgree == ASSUME Tolerated PROVE Spec => []PositionsAgree
<1>1. IInv => PositionsAgree
  BY KvBridgeAssumption DEF IInv, Typing, CacheTypes, Counted, PositionsAgree
<1>2. QED
  BY <1>1, Invariance, PTL

\* Both decoders implement the conversation, step by step: a call appends its tokens, clears it or
\* changes nothing, and what can be sampled is the last token's logits.
THEOREM Implements == ASSUME Tolerated PROVE Spec => ImplementsConversation
<1>1. Init => Conversation!Init
  BY Started DEF Init, IInv, Conversation!Init, Sampleable
<1>2. IInv /\ [Next]_vars => [Conversation!Next]_(Conversation!vars)
  <2> SUFFICES ASSUME IInv, [Next]_vars PROVE [Conversation!Next]_(Conversation!vars)
    OBVIOUS
  <2>1. IInv' /\ Answers
    BY Stepped
  <2>2. Holds(p) /\ Holds(p)'
    BY <2>1 DEF IInv
  <2>3. CASE p' = p /\ Sampleable' = Sampleable
    BY <2>2, <2>3 DEF Conversation!vars
  <2>4. CASE p' = 0 /\ Sampleable' = 0
    BY <2>2, <2>4 DEF Conversation!Next, Conversation!Reset
  <2>5. CASE \E n \in 1 .. C - 1 : p + n <= C - 1 /\ p' = p + n /\ Sampleable' = p'
    BY <2>2, <2>5 DEF Conversation!Next, Conversation!Append
  <2>6. QED
    BY <2>1, <2>3, <2>4, <2>5 DEF Answers
<1>3. QED
  BY <1>1, <1>2, Invariance, PTL DEF Spec, ImplementsConversation, Conversation!Spec
=============================================================================
