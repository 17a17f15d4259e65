------------------------- MODULE AppResidencyProofs -------------------------
(***************************************************************************)
(* Proofs about AppResidency, for any number of modes, models, failed      *)
(* loads and restarts of the activity.                                     *)
(*                                                                         *)
(* The slot is safe because every native thing that goes on is accounted   *)
(* for: a call belongs to the mode that owns the slot (Exclusive), every   *)
(* session to the job that makes or frees it or to the owner (Owned), and  *)
(* a job that was resumed finds the slot as it left it (Entitled).         *)
(* Cleared says how an ending activity leaves it, one mode at a time.      *)
(* Slot is the invariant of the slot, the sessions and the jobs, and Shown *)
(* ties the screens to it; a lemma per action proves both.  Told says why  *)
(* a screen that is wrong does not stay so.                                *)
(*                                                                         *)
(* All of it is for a user who waits (Patient).  With a download, another  *)
(* choice or a restart too early a second session can start beside the     *)
(* first, and with a deletion too early a screen stays wrong (Careful);    *)
(* TLC shows how.                                                          *)
(***************************************************************************)
EXTENDS AppResidency, FiniteSetTheorems, TLAPS

\* The user waits for a job to end before one of the steps of Quick, or before all but the deletions,
Patient == Quick \subseteq {"delete"}
\* or before these too.
Careful == Quick = {}

Load(j)     == j[2] \in {"load", "load2"}
Active(j)   == job[j].pc \in {"init", "inited", "failed", "abandon", "call", "returned"}
Orphaned(j) == job[j].pc \in {"orphanLoad", "orphanFree", "orphanCall"}
Flying(j)   == job[j].pc # "idle" /\ ~Orphaned(j)
In(q, j)    == \E i \in DOMAIN q : q[i] = j
Once(q)     == \A i, k \in DOMAIN q : q[i] = q[k] => i = k \/ q[i] = None

\* A job's session, from the start of its init or its free to the end of it.
Holding(j) ==
  \/ job[j].pc \in {"init", "abandon", "orphanLoad"}
  \/ job[j].pc \in {"free", "orphanFree"} /\ job[j].sess # None

\* What each coroutine may be doing.
Shapes ==
  \A j \in Jobs :
    /\ job[j].pc \in {"init", "inited", "failed", "abandon", "orphanLoad"} => Load(j)
    /\ job[j].pc \in {"call", "returned", "orphanCall"} => j[2] = "turn"
    /\ job[j].pc \in {"wait", "free"} /\ job[j].then \in {"acquire", "finish", "back"} => Load(j)

\* A waiting job waits once.
Queued ==
  /\ \A j \in Jobs : job[j].pc = "wait" <=> In(releaseWaiters, j) \/ In(runq, j)
  /\ Once(releaseWaiters) /\ Once(runq)
  /\ \A j \in Jobs : ~(In(releaseWaiters, j) /\ In(runq, j))

\* One native call at a time, by the mode that owns the slot; a free comes after it.
OneCall   == \A i, j \in Jobs : Active(i) /\ Active(j) => i = j
CallOwns  == \A j \in Jobs : Active(j) => residentHolder = j[1] /\ residentBusy
FreeAlone == \A i, j \in Jobs : job[i].pc = "free" => ~Active(j) /\ (job[j].pc = "free" => i = j)
FreeOwns  ==
  \A j \in Jobs : job[j].pc = "free" =>
    /\ releasePhase = "RUNNING" /\ job[j].of \in Modes /\ handle[job[j].of] = None
    /\ residentHolder = job[j].of \/ (residentHolder = None /\ clearing # <<>>)
OneLoad   == \A i, j \in Jobs : Load(i) /\ Load(j) /\ i[1] = j[1] /\ Flying(i) /\ Flying(j) => i = j
Exclusive == OneCall /\ CallOwns /\ FreeAlone /\ FreeOwns /\ OneLoad

\* Every session is some job's or the owner's.
OneHolding == \A i, j \in Jobs : Holding(i) /\ Holding(j) => i = j
Loading    ==
  \A j \in Jobs :
    /\ job[j].pc = "init" => job[j].sess \in Sessions /\ session[job[j].sess] = [of |-> j[1], st |-> "loading"]
    /\ job[j].pc = "orphanLoad" => job[j].sess \in Sessions /\ session[job[j].sess].st = "loading"
Leaving    ==
  \A j \in Jobs : job[j].pc \in {"free", "abandon", "orphanFree"} /\ Holding(j) =>
    job[j].sess \in Sessions /\ session[job[j].sess].st = "freeing"
Called     == \A j \in Jobs : job[j].pc \in {"inited", "call"} => job[j].sess # None /\ job[j].sess = handle[j[1]]
Handles    == \A m \in Modes : handle[m] # None => session[handle[m]] = [of |-> m, st |-> "live"]
Accounted  ==
  \A s \in Sessions :
    /\ session[s].st \in {"loading", "freeing"} => \E j \in Jobs : Holding(j) /\ job[j].sess = s
    /\ session[s].st = "live" => session[s].of \in Modes
Owned == AtMostOneSession /\ OneHolding /\ Loading /\ Leaving /\ Called /\ Handles /\ NoSessionLeaks /\ Accounted

\* What a screen shows while its mode loads or leaves.
Resumed(j) == In(runq, j) /\ job[j].then # "acquire"
LoadShown ==
  \A j \in Jobs : Load(j) /\ Flying(j) /\ ~Resumed(j) =>
    phase[j[1]] = "LOADING" \/ (phase[j[1]] = "MISSING" /\ ~Present(j[1]))
Offers    == \A m \in Modes : phase[m] = "DOWNLOADED" => residentHolder # m
GoneShown ==
  \A m \in Modes : residentHolder = m /\ phase[m] = "MISSING" =>
    ~Present(m) /\ \E j \in Loads(m) \cup {<<m, "release">>} : Flying(j)
Shown == LoadShown /\ Offers /\ GoneShown /\ ReadyIsLoaded

\* Who may take the slot.
Ready(j)  == In(runq, j) /\ job[j].then = "acquire"
Wants(j)  == job[j].pc \in {"wait", "free"} /\ job[j].then = "acquire"
Foreign   == \A j \in Jobs : Wants(j) => residentHolder # j[1]
Vacant    ==
  residentHolder = None /\ (\E j \in Jobs : Ready(j)) =>
    (\A s \in Sessions : session[s].st = "none") /\ \A j \in Jobs : job[j].pc # "free"
Overtaken ==
  \A j \in Jobs : Resumed(j) /\ residentHolder = j[1] =>
    \E l \in Loads(j[1]) : job[l].pc \in {"init", "inited", "failed"}
Entitled  == Foreign /\ Vacant /\ Overtaken

\* What an ending activity leaves.
Swept    ==
  \A m \in Modes : (clearing # <<>> \/ Orphans # {}) /\ ~In(clearing, m) =>
    residentHolder # m /\ handle[m] = None /\ \A j \in Jobs : j[1] = m => ~Flying(j)
OrphanHolds ==
  \A j \in Jobs : Orphaned(j) /\ Holding(j) =>
    residentHolder = None \/ (job[j].pc = "orphanFree" /\ releasePhase = "RUNNING")
OneWaits ==
  clearing # <<>> => \A i, j \in Jobs : i # j /\ Acquires(j) => ~Acquires(i) /\ job[i].pc \notin {"init", "abandon"}
Cleared  == Swept /\ OrphanHolds /\ OneWaits

\* A mode's choice is one its picker offers.
Chosen == \A m \in Modes : selected[m] \in Offered[m]

IInv == TypeOK /\ Chosen /\ Shapes /\ Queued /\ Exclusive /\ Owned /\ Shown /\ Entitled /\ Cleared

-----------------------------------------------------------------------------
(* Jobs and queues.                                                        *)

\* A job is a mode's coroutine, and no job, mode or session is None.
LEMMA JobsAre ==
  /\ None \notin Jobs /\ None \notin Modes /\ None \notin Sessions
  /\ \A j \in Jobs : j[1] \in Modes /\ j[2] \in Kinds /\ j = <<j[1], j[2]>>
  /\ \A m \in Modes, k \in Kinds : <<m, k>> \in Jobs
  /\ \A m \in Modes : Loads(m) \subseteq Jobs
  /\ \A m \in Modes, j \in Jobs : j \in Loads(m) <=> Load(j) /\ j[1] = m
  /\ \A m \in Modes : \A j \in Loads(m) \cup {<<m, "release">>} : j \in Jobs /\ j[1] = m
<1>1. None \notin Jobs
  BY AppResidencyAssumption DEF Jobs, Kinds
<1>2. Cardinality(Modes) \in Nat
  BY AppResidencyAssumption, FS_CardinalityType
<1>3. None \notin Sessions
  BY <1>2, AppResidencyAssumption DEF Sessions
<1>4. QED
  BY <1>1, <1>3, AppResidencyAssumption DEF Jobs, Kinds, Loads, Load

\* There is a session to load into.
LEMMA SessionOne == ASSUME NEW m \in Modes PROVE 1 \in Sessions
<1>1. Cardinality(Modes) \in Nat /\ Cardinality(Modes) # 0
  BY AppResidencyAssumption, FS_CardinalityType, FS_EmptySet
<1>2. QED
  BY <1>1 DEF Sessions

\* requestReleaseAndAwait: a waiter is added.
LEMMA Appended ==
  ASSUME NEW q \in Seq(Jobs \cup {None}), NEW j \in Jobs, Once(q), ~In(q, j)
  PROVE  /\ Append(q, j) \in Seq(Jobs \cup {None}) /\ Once(Append(q, j))
         /\ \A i \in Jobs : In(Append(q, j), i) <=> In(q, i) \/ i = j
<1>1. /\ DOMAIN q = 1 .. Len(q) /\ DOMAIN Append(q, j) = 1 .. Len(q) + 1 /\ Len(q) \in Nat
      /\ \A i \in 1 .. Len(q) : Append(q, j)[i] = q[i]
      /\ Append(q, j)[Len(q) + 1] = j
  OBVIOUS
<1>2. Once(Append(q, j))
  BY <1>1 DEF Once, In
<1>3. ASSUME NEW i \in Jobs PROVE In(Append(q, j), i) <=> In(q, i) \/ i = j
  BY <1>1 DEF In
<1>4. QED
  BY <1>2, <1>3

\* dropResidency, releaseResidentNow: the caller goes on behind the waiters.
LEMMA Joined ==
  ASSUME NEW q \in Seq(Jobs \cup {None}), NEW j \in Jobs
  PROVE  q \o <<j>> = Append(q, j)
OBVIOUS

\* A queue of one, and none.
LEMMA Alone ==
  /\ \A j \in Jobs : <<j>> \in Seq(Jobs \cup {None}) /\ Once(<<j>>) /\ \A i \in Jobs : In(<<j>>, i) <=> i = j
  /\ << >> \in Seq(Jobs \cup {None}) /\ Once(<< >>) /\ \A i : ~In(<< >>, i)
BY DEF Once, In

\* Resume: the first waiter leaves the queue.
LEMMA Popped ==
  ASSUME NEW q \in Seq(Jobs \cup {None}), q # << >>, Once(q)
  PROVE  /\ Tail(q) \in Seq(Jobs \cup {None}) /\ Once(Tail(q)) /\ Head(q) \in Jobs \cup {None}
         /\ In(q, Head(q))
         /\ \A i \in Jobs : In(Tail(q), i) <=> In(q, i) /\ i # Head(q)
<1>1. /\ Len(q) \in Nat \ {0} /\ DOMAIN q = 1 .. Len(q) /\ DOMAIN Tail(q) = 1 .. Len(q) - 1
      /\ \A i \in 1 .. Len(q) - 1 : Tail(q)[i] = q[i + 1]
      /\ Head(q) = q[1] /\ Tail(q) \in Seq(Jobs \cup {None}) /\ Head(q) \in Jobs \cup {None}
  OBVIOUS
<1>2. Once(Tail(q))
  BY <1>1 DEF Once
<1>3. In(q, Head(q))
  BY <1>1 DEF In
<1>4. ASSUME NEW i \in Jobs PROVE In(Tail(q), i) <=> In(q, i) /\ i # Head(q)
  <2>1. i # None
    BY JobsAre
  <2>2. ASSUME In(Tail(q), i) PROVE In(q, i) /\ i # Head(q)
    BY <1>1, <2>1, <2>2 DEF In, Once
  <2>3. ASSUME In(q, i), i # Head(q) PROVE In(Tail(q), i)
    <3>1. PICK k \in 1 .. Len(q) : q[k] = i
      BY <1>1, <2>3 DEF In
    <3>2. k # 1 /\ k - 1 \in 1 .. Len(q) - 1 /\ Tail(q)[k - 1] = i
      BY <1>1, <2>3, <3>1
    <3>3. QED
      BY <1>1, <3>2 DEF In
  <2>4. QED
    BY <2>2, <2>3
<1>5. QED
  BY <1>1, <1>2, <1>3, <1>4

\* onCleared: the waiters of the mode are struck out.
LEMMA Struck ==
  ASSUME NEW q \in Seq(Jobs \cup {None}), NEW X, Once(q),
         NEW r \in Seq(Jobs \cup {None}), DOMAIN r = DOMAIN q,
         \A i \in DOMAIN q : r[i] = IF q[i] \in X THEN None ELSE q[i]
  PROVE  Once(r) /\ \A i \in Jobs : In(r, i) <=> In(q, i) /\ i \notin X
BY JobsAre DEF Once, In
-----------------------------------------------------------------------------
(* What the steps have in common.                                          *)

\* Job j is the one that moves, and
Moves(j) == job' \in [Jobs -> JobState] /\ \A i \in Jobs \ {j} : job'[i] = job[i]
\* j has left the queue it may have been in, or
Detached(j) ==
  /\ releaseWaiters' \in Seq(Jobs \cup {None}) /\ runq' \in Seq(Jobs \cup {None})
  /\ Once(releaseWaiters') /\ Once(runq')
  /\ \A i \in Jobs : /\ In(releaseWaiters', i) <=> In(releaseWaiters, i) /\ i # j
                     /\ In(runq', i) <=> In(runq, i) /\ i # j
\* waits for a release.
Enqueued(j) ==
  /\ releaseWaiters' \in Seq(Jobs \cup {None}) /\ runq' \in Seq(Jobs \cup {None})
  /\ Once(releaseWaiters') /\ Once(runq')
  /\ \A i \in Jobs : /\ In(releaseWaiters', i) <=> In(releaseWaiters, i) \/ i = j
                     /\ In(runq', i) <=> In(runq, i) /\ i # j

\* A job that asks for the release of the resident, or performs one: it is resumed to take the slot,
\* its native call has settled, or it is launched for the mode that owns the slot.
Asks(j) ==
  /\ j \in Jobs /\ residentHolder \in Modes
  /\ \/ job[j].pc = "wait" /\ Ready(j)
     \/ job[j].pc \in {"inited", "returned"} /\ runq = << >>
     \/ job[j].pc = "idle" /\ ~Load(j) /\ residentHolder = j[1] /\ runq = << >>

\* What the screens may change meanwhile: a screen whose model has gone shows it, and a mode with a
\* job in flight gets no model.
ScreensFollow ==
  \A n \in Modes :
    /\ (\E j \in Jobs : j[1] = n /\ Flying(j)) /\ ~Present(n) => ~Present(n)'
    /\ \/ phase'[n] = phase[n]
       \/ phase'[n] = "MISSING" /\ ~Present(n)' /\ (residentHolder = n => Flying(<<n, "release">>)')

\* The invariant but for the screens, whose part depends on more than the slot and the jobs.
Slot == Shapes /\ Queued /\ Exclusive /\ Owned /\ Entitled /\ Cleared

\* A job's session is being loaded or freed.
LEMMA HoldsWhat ==
  ASSUME IInv, NEW j \in Jobs, Holding(j)
  PROVE  job[j].sess \in Sessions /\ session[job[j].sess].st \in {"loading", "freeing"}
<1>1. Loading /\ Leaving
  BY DEF IInv, Owned
<1>2. CASE job[j].pc = "init"
  <2>1. job[j].sess \in Sessions /\ session[job[j].sess] = [of |-> j[1], st |-> "loading"]
    BY <1>1, <1>2 DEF Loading
  <2>2. [of |-> j[1], st |-> "loading"].st = "loading"
    OBVIOUS
  <2>3. QED
    BY <2>1, <2>2
<1>3. CASE job[j].pc = "orphanLoad"
  BY <1>1, <1>3 DEF Loading
<1>4. CASE job[j].pc \in {"free", "abandon", "orphanFree"}
  BY <1>1, <1>4 DEF Leaving
<1>5. QED
  BY <1>2, <1>3, <1>4 DEF Holding

\* The orphans are the orphaned jobs.
LEMMA OrphansKept ==
  ASSUME \A i \in Jobs : Orphaned(i)' <=> Orphaned(i)
  PROVE  Orphans' = Orphans
BY DEF Orphans, Orphaned

\* releaseResidentNow: with no native call in flight, and no free.
LEMMA ReleaseStarts ==
  ASSUME IInv, NEW j, Asks(j), NEW then, releaseResidentNow(j, then), Moves(j), Detached(j),
         \A i \in Jobs : Active(i) => i = j,
         \A i \in Jobs : job[i].pc # "free",
         then = "acquire" => Acquires(j),
         then \in {"acquire", "finish", "back"} => Load(j),
         UNCHANGED <<residentHolder, clearing>>
  PROVE  Slot'
<1> DEFINE h == handle[residentHolder]
<1>1. /\ j \in Jobs /\ residentHolder \in Modes /\ residentHolder # None
      /\ job' \in [Jobs -> JobState] /\ job \in [Jobs -> JobState]
      /\ \A i \in Jobs : i # j => job'[i] = job[i]
      /\ job'[j].pc = "free" /\ job'[j].then = then /\ job'[j].sess = h /\ job'[j].of = residentHolder
      /\ releasePhase' = "RUNNING" /\ residentHolder' = residentHolder /\ clearing' = clearing
  BY JobsAre DEF Asks, Moves, releaseResidentNow, IInv, TypeOK
<1>2. /\ handle \in [Modes -> Sessions \cup {None}] /\ handle'[residentHolder] = None
      /\ \A m \in Modes : m # residentHolder => handle'[m] = handle[m]
      /\ session' = IF h = None THEN session ELSE Freeing(h)
      /\ session \in [Sessions -> [of : Modes \cup {None}, st : {"none", "loading", "live", "freeing"}]]
  BY <1>1 DEF releaseResidentNow, IInv, TypeOK
<1>3. /\ ~Holding(j) /\ job[j].pc # "free" /\ ~Orphaned(j)
      /\ job[j].pc \in {"idle", "wait", "inited", "returned"}
      /\ job[j].pc = "idle" => ~Load(j) /\ residentHolder = j[1]
  BY DEF Asks, Holding, Orphaned
<1>4. /\ \A i \in Jobs : i # j => (Active(i)' <=> Active(i)) /\ (Holding(i)' <=> Holding(i))
                               /\ (Flying(i)' <=> Flying(i)) /\ (Orphaned(i)' <=> Orphaned(i))
      /\ ~Active(j)' /\ ~Orphaned(j)' /\ Flying(j)' /\ (Holding(j)' <=> h # None)
      /\ \A i \in Jobs : ~Active(i)'
  BY <1>1 DEF Active, Holding, Flying, Orphaned
<1>5. Shapes'
  BY <1>1 DEF Shapes, IInv, Load
<1>6. Queued'
  BY <1>1 DEF Queued, IInv, Detached
<1>7. Exclusive'
  <2>1. OneCall' /\ CallOwns' /\ FreeAlone'
    BY <1>1, <1>4 DEF OneCall, CallOwns, FreeAlone
  <2>2. FreeOwns'
    BY <1>1, <1>2 DEF FreeOwns
  <2>3. OneLoad'
    BY <1>3, <1>4 DEF OneLoad, IInv, Exclusive, Load, Flying
  <2>4. QED
    BY <2>1, <2>2, <2>3 DEF Exclusive
<1>8. Owned'
  <2>1. \A i \in Jobs : Holding(i) => job[i].sess \in Sessions /\ session[job[i].sess].st \in {"loading", "freeing"}
    BY HoldsWhat
  <2>2. CASE h = None
    <3>1. session' = session /\ handle' = handle
      BY <1>1, <1>2, <2>2 DEF releaseResidentNow
    <3>2. AtMostOneSession' /\ Handles' /\ NoSessionLeaks'
      BY <1>1, <3>1 DEF IInv, Owned, AtMostOneSession, Handles, NoSessionLeaks
    <3>3. OneHolding' /\ Accounted'
      BY <1>1, <1>3, <1>4, <2>2, <3>1 DEF IInv, Owned, OneHolding, Accounted
    <3>4. Loading' /\ Leaving' /\ Called'
      BY <1>1, <1>4, <2>2, <3>1 DEF IInv, Owned, Loading, Leaving, Called
    <3>5. QED
      BY <3>2, <3>3, <3>4 DEF Owned
  <2>3. CASE h # None
    <3>1. /\ h \in Sessions /\ session[h] = [of |-> residentHolder, st |-> "live"]
          /\ session' = [session EXCEPT ![h].st = "freeing"]
          /\ \A s \in Sessions : s # h => session'[s] = session[s] /\ session[s].st = "none"
          /\ session'[h].st = "freeing"
      BY <1>1, <1>2, <2>3 DEF IInv, Owned, Handles, AtMostOneSession, Freeing
    <3>2. \A i \in Jobs : i # j => ~Holding(i)
      BY <2>1, <3>1
    <3>3. AtMostOneSession' /\ NoSessionLeaks'
      BY <3>1 DEF AtMostOneSession, NoSessionLeaks
    <3>4. \A m \in Modes : handle'[m] = None
      <4>1. ASSUME NEW m \in Modes, m # residentHolder, handle[m] # None PROVE FALSE
        <5>1. handle[m] \in Sessions /\ session[handle[m]] = [of |-> m, st |-> "live"]
          BY <1>2, <4>1 DEF IInv, Owned, Handles
        <5>2. handle[m] = h
          BY <3>1, <5>1
        <5>3. QED
          BY <3>1, <4>1, <5>1, <5>2
      <4>2. QED
        BY <1>1, <1>2, <4>1
    <3>5. OneHolding' /\ Accounted'
      BY <1>1, <1>4, <2>3, <3>1, <3>2 DEF OneHolding, Accounted
    <3>6. Loading' /\ Leaving' /\ Called' /\ Handles'
      BY <1>1, <1>4, <2>3, <3>1, <3>2, <3>4 DEF Loading, Leaving, Called, Handles, Holding, Active
    <3>7. QED
      BY <3>3, <3>5, <3>6 DEF Owned
  <2>4. QED
    BY <2>2, <2>3
<1>9. Entitled'
  <2>1. Foreign'
    BY <1>1 DEF IInv, Entitled, Foreign, Wants, Acquires
  <2>2. Vacant'
    BY <1>1 DEF Vacant
  <2>3. Overtaken'
    <3>1. \A i \in Jobs : Resumed(i)' => Resumed(i)
      BY <1>1 DEF Resumed, Detached
    <3>2. ASSUME NEW i \in Jobs, Resumed(i), residentHolder = i[1] PROVE FALSE
      <4>1. PICK l \in Loads(i[1]) : job[l].pc \in {"init", "inited", "failed"}
        BY <3>2 DEF IInv, Entitled, Overtaken
      <4>2. l \in Jobs /\ Active(l)
        BY <4>1, JobsAre DEF Active
      <4>3. l = j /\ runq = << >>
        BY <4>1, <4>2 DEF Asks
      <4>4. QED
        BY <3>2, <4>3, Alone DEF Resumed
    <3>3. QED
      BY <1>1, <3>1, <3>2 DEF Overtaken
  <2>4. QED
    BY <2>1, <2>2, <2>3 DEF Entitled
<1>10. Cleared'
  <2>1. Orphans' = Orphans
    BY <1>3, <1>4, OrphansKept
  <2>2. (clearing # <<>> \/ Orphans # {}) => In(clearing, j[1]) /\ In(clearing, residentHolder)
    BY <1>1, <1>3, JobsAre DEF IInv, Cleared, Swept, Flying, Orphaned
  <2>3. Swept'
    BY <1>1, <1>2, <1>4, <2>1, <2>2 DEF IInv, Cleared, Swept
  <2>4. OrphanHolds'
    BY <1>1, <1>4 DEF IInv, Cleared, OrphanHolds
  <2>5. OneWaits'
    BY <1>1 DEF IInv, Cleared, OneWaits, Acquires
  <2>6. QED
    BY <2>3, <2>4, <2>5 DEF Cleared
<1>11. QED
  BY <1>5, <1>6, <1>7, <1>8, <1>9, <1>10 DEF Slot

\* requestReleaseAndAwait, when the release is another's or has to wait for the resident's call.
LEMMA WaitStarts ==
  ASSUME IInv, NEW j, Asks(j), NEW then, Moves(j), Enqueued(j),
         job'[j].pc = "wait", job'[j].then = then,
         then = "acquire" => Acquires(j),
         then \in {"acquire", "finish", "back"} => Load(j),
         \A i \in Jobs : Active(i) => i = j \/ residentBusy',
         releasePhase = "RUNNING" => releasePhase' = "RUNNING",
         UNCHANGED <<residentHolder, clearing, handle, session>>
  PROVE  Slot'
<1>1. /\ j \in Jobs /\ residentHolder \in Modes
      /\ job' \in [Jobs -> JobState] /\ job \in [Jobs -> JobState]
      /\ \A i \in Jobs : i # j => job'[i] = job[i]
      /\ residentHolder' = residentHolder /\ clearing' = clearing /\ handle' = handle /\ session' = session
  BY DEF Asks, Moves, IInv, TypeOK
<1>2. /\ ~Holding(j) /\ job[j].pc # "free" /\ ~Orphaned(j)
      /\ job[j].pc \in {"idle", "wait", "inited", "returned"}
      /\ job[j].pc = "idle" => ~Load(j) /\ residentHolder = j[1]
  BY DEF Asks, Holding, Orphaned
<1>3. /\ \A i \in Jobs : i # j => (Active(i)' <=> Active(i)) /\ (Holding(i)' <=> Holding(i))
                               /\ (Flying(i)' <=> Flying(i)) /\ (Orphaned(i)' <=> Orphaned(i))
      /\ ~Active(j)' /\ ~Orphaned(j)' /\ Flying(j)' /\ ~Holding(j)'
  BY <1>1 DEF Active, Holding, Flying, Orphaned
<1>4. Shapes'
  BY <1>1 DEF Shapes, IInv, Load
<1>5. Queued'
  BY <1>1 DEF Queued, IInv, Enqueued
<1>6. Exclusive'
  <2>1. OneCall' /\ CallOwns' /\ FreeAlone'
    BY <1>1, <1>3 DEF OneCall, CallOwns, FreeAlone, IInv, Exclusive
  <2>2. FreeOwns'
    BY <1>1 DEF FreeOwns, IInv, Exclusive
  <2>3. OneLoad'
    BY <1>2, <1>3 DEF OneLoad, IInv, Exclusive, Load, Flying
  <2>4. QED
    BY <2>1, <2>2, <2>3 DEF Exclusive
<1>7. Owned'
  <2>1. AtMostOneSession' /\ Handles' /\ NoSessionLeaks'
    BY <1>1 DEF IInv, Owned, AtMostOneSession, Handles, NoSessionLeaks
  <2>2. OneHolding' /\ Accounted'
    BY <1>1, <1>2, <1>3 DEF IInv, Owned, OneHolding, Accounted
  <2>3. Loading' /\ Leaving' /\ Called'
    BY <1>1, <1>3 DEF IInv, Owned, Loading, Leaving, Called
  <2>4. QED
    BY <2>1, <2>2, <2>3 DEF Owned
<1>8. Entitled'
  <2>1. Foreign'
    BY <1>1 DEF IInv, Entitled, Foreign, Wants, Acquires
  <2>2. Vacant'
    BY <1>1, JobsAre DEF Vacant
  <2>3. Overtaken'
    <3>1. \A i \in Jobs : Resumed(i)' => Resumed(i) /\ i # j
      BY <1>1 DEF Resumed, Enqueued
    <3>2. ASSUME NEW i \in Jobs, Resumed(i), residentHolder = i[1]
          PROVE  \E l \in Loads(i[1]) : job'[l].pc \in {"init", "inited", "failed"}
      <4>1. PICK l \in Loads(i[1]) : job[l].pc \in {"init", "inited", "failed"}
        BY <3>2 DEF IInv, Entitled, Overtaken
      <4>2. l \in Jobs /\ runq # << >>
        BY <3>2, JobsAre, Alone DEF Resumed
      <4>3. l # j
        BY <4>1, <4>2 DEF Asks
      <4>4. QED
        BY <1>1, <4>1, <4>2, <4>3
    <3>3. QED
      BY <1>1, <3>1, <3>2 DEF Overtaken, Loads
  <2>4. QED
    BY <2>1, <2>2, <2>3 DEF Entitled
<1>9. Cleared'
  <2>1. Orphans' = Orphans
    BY <1>2, <1>3, OrphansKept
  <2>2. (clearing # <<>> \/ Orphans # {}) => In(clearing, j[1]) /\ In(clearing, residentHolder)
    BY <1>1, <1>2, JobsAre DEF IInv, Cleared, Swept, Flying, Orphaned
  <2>3. Swept'
    BY <1>1, <1>3, <2>1, <2>2 DEF IInv, Cleared, Swept
  <2>4. OrphanHolds'
    BY <1>1, <1>3 DEF IInv, Cleared, OrphanHolds
  <2>5. OneWaits'
    BY <1>1 DEF IInv, Cleared, OneWaits, Acquires
  <2>6. QED
    BY <2>3, <2>4, <2>5 DEF Cleared
<1>10. QED
  BY <1>4, <1>5, <1>6, <1>7, <1>8, <1>9 DEF Slot

\* A job that ends, or is resumed to end, leaves the slot and the sessions alone.
LEMMA JobEnds ==
  ASSUME IInv, NEW j \in Jobs, Moves(j), Detached(j), job'[j] = Idle,
         \/ job[j].pc = "wait" /\ In(runq, j)
         \/ job[j].pc \in {"inited", "returned"} /\ runq = << >>,
         \A i \in Jobs : Active(i) => i = j \/ residentBusy',
         UNCHANGED <<residentHolder, releasePhase, clearing, handle, session>>
  PROVE  Slot'
<1>1. /\ job' \in [Jobs -> JobState] /\ job \in [Jobs -> JobState]
      /\ \A i \in Jobs : i # j => job'[i] = job[i]
      /\ job'[j].pc = "idle"
      /\ residentHolder' = residentHolder /\ clearing' = clearing /\ handle' = handle /\ session' = session
      /\ releasePhase' = releasePhase
  BY DEF Moves, IInv, TypeOK, Idle
<1>2. /\ ~Holding(j) /\ job[j].pc # "free" /\ ~Orphaned(j)
      /\ job[j].pc \in {"wait", "inited", "returned"}
  BY DEF Holding, Orphaned
<1>3. /\ \A i \in Jobs : i # j => (Active(i)' <=> Active(i)) /\ (Holding(i)' <=> Holding(i))
                               /\ (Flying(i)' <=> Flying(i)) /\ (Orphaned(i)' <=> Orphaned(i))
      /\ ~Active(j)' /\ ~Orphaned(j)' /\ ~Flying(j)' /\ ~Holding(j)'
  BY <1>1 DEF Active, Holding, Flying, Orphaned
<1>4. Shapes'
  BY <1>1 DEF Shapes, IInv, Load
<1>5. Queued'
  BY <1>1 DEF Queued, IInv, Detached
<1>6. Exclusive'
  <2>1. OneCall' /\ CallOwns' /\ FreeAlone'
    BY <1>1, <1>3 DEF OneCall, CallOwns, FreeAlone, IInv, Exclusive
  <2>2. FreeOwns'
    BY <1>1 DEF FreeOwns, IInv, Exclusive
  <2>3. OneLoad'
    BY <1>3 DEF OneLoad, IInv, Exclusive, Load
  <2>4. QED
    BY <2>1, <2>2, <2>3 DEF Exclusive
<1>7. Owned'
  <2>1. AtMostOneSession' /\ Handles' /\ NoSessionLeaks'
    BY <1>1 DEF IInv, Owned, AtMostOneSession, Handles, NoSessionLeaks
  <2>2. OneHolding' /\ Accounted'
    BY <1>1, <1>2, <1>3 DEF IInv, Owned, OneHolding, Accounted
  <2>3. Loading' /\ Leaving' /\ Called'
    BY <1>1, <1>3 DEF IInv, Owned, Loading, Leaving, Called
  <2>4. QED
    BY <2>1, <2>2, <2>3 DEF Owned
<1>8. Entitled'
  <2>1. Foreign'
    BY <1>1 DEF IInv, Entitled, Foreign, Wants, Acquires
  <2>2. Vacant'
    BY <1>1 DEF IInv, Entitled, Vacant, Ready, Detached
  <2>3. Overtaken'
    <3>1. \A i \in Jobs : Resumed(i)' => Resumed(i) /\ i # j
      BY <1>1 DEF Resumed, Detached
    <3>2. ASSUME NEW i \in Jobs, Resumed(i), residentHolder = i[1]
          PROVE  \E l \in Loads(i[1]) : job'[l].pc \in {"init", "inited", "failed"}
      <4>1. PICK l \in Loads(i[1]) : job[l].pc \in {"init", "inited", "failed"}
        BY <3>2 DEF IInv, Entitled, Overtaken
      <4>2. l \in Jobs /\ runq # << >>
        BY <3>2, JobsAre, Alone DEF Resumed
      <4>3. l # j
        BY <4>1, <4>2
      <4>4. QED
        BY <1>1, <4>1, <4>2, <4>3
    <3>3. QED
      BY <1>1, <3>1, <3>2 DEF Overtaken, Loads
  <2>4. QED
    BY <2>1, <2>2, <2>3 DEF Entitled
<1>9. Cleared'
  <2>1. Orphans' = Orphans
    BY <1>2, <1>3, OrphansKept
  <2>2. Swept'
    BY <1>1, <1>3, <2>1 DEF IInv, Cleared, Swept
  <2>3. OrphanHolds'
    BY <1>1, <1>3 DEF IInv, Cleared, OrphanHolds
  <2>4. OneWaits'
    BY <1>1 DEF IInv, Cleared, OneWaits, Acquires
  <2>5. QED
    BY <2>2, <2>3, <2>4 DEF Cleared
<1>10. QED
  BY <1>4, <1>5, <1>6, <1>7, <1>8, <1>9 DEF Slot

\* What a job that asks for a release leaves the others.
Asked(j) ==
  /\ Moves(j) /\ job'[j].pc \in {"wait", "free"}
  /\ \A i \in Jobs : In(runq', i) <=> In(runq, i) /\ i # j
  /\ \A m \in Modes : handle'[m] = handle[m] \/ releasePhase' = "RUNNING"
  /\ releasePhase = "RUNNING" => releasePhase' = "RUNNING"
  /\ residentHolder' = residentHolder

\* releaseResidentNow: the caller waits for the native free.
LEMMA ReleaseMoves ==
  ASSUME TypeOK, NEW j \in Jobs, residentHolder \in Modes,
         NEW then \in {"acquire", "finish", "finishTurn", "reflect", "back", "done"}, releaseResidentNow(j, then)
  PROVE  Moves(j) /\ job'[j].pc = "free"
<1> DEFINE h == handle[residentHolder]
           r == [job[j] EXCEPT !.pc = "free", !.then = then, !.sess = h, !.of = residentHolder]
<1>1. h \in Sessions \cup {None} /\ job \in [Jobs -> JobState] /\ job[j] \in JobState
  BY DEF TypeOK
<1>2. job' = [job EXCEPT ![j] = r]
  BY <1>1 DEF releaseResidentNow
<1>3. r \in JobState /\ r.pc = "free"
  BY <1>1 DEF JobState
<1>4. QED
  BY <1>1, <1>2, <1>3 DEF Moves

\* requestReleaseAndAwait of a job that has been resumed or is running.
LEMMA Requests ==
  ASSUME IInv, NEW j, Asks(j), NEW then \in {"acquire", "done", "reflect"}, NEW busy,
         requestReleaseAndAwait(j, then, busy),
         then = "acquire" => Acquires(j) /\ Load(j),
         ~busy => \A i \in Jobs : Active(i) => i = j,
         \A i \in Jobs : Active(i) => i = j \/ residentBusy',
         \/ runq' = runq /\ job[j].pc # "wait"
         \/ runq # << >> /\ j = Head(runq) /\ runq' = Tail(runq),
         UNCHANGED <<residentHolder, clearing>>
  PROVE  Slot' /\ Asked(j)
<1>1. /\ j \in Jobs /\ residentHolder \in Modes /\ residentHolder' = residentHolder
      /\ job \in [Jobs -> JobState] /\ handle \in [Modes -> Sessions \cup {None}]
      /\ releaseWaiters \in Seq(Jobs \cup {None}) /\ runq \in Seq(Jobs \cup {None})
      /\ Once(releaseWaiters) /\ Once(runq) /\ ~In(releaseWaiters, j)
  BY DEF Asks, IInv, TypeOK, Queued, Ready
<1>2. runq' \in Seq(Jobs \cup {None}) /\ Once(runq') /\ \A i \in Jobs : In(runq', i) <=> In(runq, i) /\ i # j
  <2>1. CASE runq' = runq /\ job[j].pc # "wait"
    BY <1>1, <2>1 DEF IInv, Queued
  <2>2. CASE runq # << >> /\ j = Head(runq) /\ runq' = Tail(runq)
    BY <1>1, <2>2, Popped
  <2>3. QED
    BY <2>1, <2>2
<1>3. CASE releasePhase = "NONE" /\ ~busy
  <2>1. releaseResidentNow(j, then) /\ releaseWaiters' = releaseWaiters
    BY <1>3 DEF requestReleaseAndAwait
  <2>2. Detached(j)
    BY <1>1, <1>2, <2>1 DEF Detached
  <2>3. Moves(j) /\ job'[j].pc = "free"
    BY <1>1, <2>1, ReleaseMoves DEF IInv
  <2>4. \A i \in Jobs : job[i].pc # "free"
    BY <1>3 DEF IInv, Exclusive, FreeOwns
  <2>5. Slot'
    BY <1>3, <2>1, <2>2, <2>3, <2>4, ReleaseStarts
  <2>6. QED
    BY <1>1, <1>2, <2>1, <2>3, <2>5 DEF Asked, releaseResidentNow
<1>4. CASE ~(releasePhase = "NONE" /\ ~busy)
  <2>1. /\ releaseWaiters' = Append(releaseWaiters, j) /\ handle' = handle /\ session' = session
        /\ job' = [job EXCEPT ![j].pc = "wait", ![j].then = then]
        /\ releasePhase = "RUNNING" => releasePhase' = "RUNNING"
    BY <1>4 DEF requestReleaseAndAwait
  <2>2. Enqueued(j)
    BY <1>1, <1>2, <2>1, Appended DEF Enqueued
  <2>3. Moves(j) /\ job'[j].pc = "wait" /\ job'[j].then = then
    <3> DEFINE w == [job[j] EXCEPT !.pc = "wait", !.then = then]
    <3>1. w \in JobState /\ w.pc = "wait" /\ w.then = then
      BY <1>1 DEF JobState
    <3>2. job' = [job EXCEPT ![j] = w] /\ session' = session
      BY <1>1, <2>1
    <3> HIDE DEF w
    <3>3. QED
      BY <1>1, <3>1, <3>2 DEF Moves
  <2>4. Slot'
    BY <2>1, <2>2, <2>3, WaitStarts
  <2>5. QED
    BY <1>1, <1>2, <2>1, <2>3, <2>4 DEF Asked
<1>5. QED
  BY <1>3, <1>4

\* nativeCallSettled: the release that waited for the call.
LEMMA SettlesInto ==
  ASSUME IInv, NEW j \in Jobs, NEW then \in {"finish", "finishTurn"}, SettledIntoRelease(j, j[1], then),
         job[j].pc \in {"inited", "returned"}, runq = << >>, then = "finish" => Load(j),
         UNCHANGED <<runq, clearing>>
  PROVE  Slot' /\ Asked(j)
<1>1. /\ residentHolder = j[1] /\ releasePhase = "REQUESTED" /\ releaseResidentNow(j, then)
      /\ residentHolder' = residentHolder /\ releaseWaiters' = releaseWaiters
      /\ job \in [Jobs -> JobState] /\ handle \in [Modes -> Sessions \cup {None}]
      /\ releaseWaiters \in Seq(Jobs \cup {None}) /\ runq \in Seq(Jobs \cup {None})
      /\ Once(releaseWaiters) /\ Once(runq) /\ ~In(releaseWaiters, j) /\ ~In(runq, j) /\ residentHolder \in Modes
  BY JobsAre DEF SettledIntoRelease, IInv, TypeOK, Queued
<1>2. Active(j) /\ Asks(j)
  BY <1>1 DEF Active, Asks
<1>3. Moves(j) /\ job'[j].pc = "free"
  BY <1>1, ReleaseMoves DEF IInv
<1>4. Detached(j)
  BY <1>1 DEF Detached
<1>5. \A i \in Jobs : job[i].pc # "free" /\ (Active(i) => i = j)
  BY <1>1, <1>2 DEF IInv, Exclusive, FreeOwns, OneCall
<1>6. Slot'
  BY <1>1, <1>2, <1>3, <1>4, <1>5, ReleaseStarts
<1>7. QED
  BY <1>1, <1>3, <1>6 DEF Asked, releaseResidentNow

\* The screens, while a job asks for a release.
LEMMA AskShown ==
  ASSUME IInv, NEW j, Asks(j), Asked(j), ScreensFollow
  PROVE  Shown'
<1>1. /\ j \in Jobs /\ \A i \in Jobs : i # j => job'[i] = job[i]
      /\ residentHolder' = residentHolder /\ Flying(j)'
      /\ \A i \in Jobs : i # j => (Flying(i)' <=> Flying(i)) /\ (Resumed(i)' <=> Resumed(i))
  BY DEF Asks, Asked, Moves, Flying, Orphaned, Resumed
<1>2. Load(j) => Flying(j) /\ ~Resumed(j)
  BY <1>1 DEF Asks, Resumed, Ready, Flying, Orphaned, IInv, Queued
<1>3. LoadShown'
  <2>1. ASSUME NEW i \in Jobs, Load(i), Flying(i)', ~Resumed(i)'
        PROVE  phase'[i[1]] = "LOADING" \/ (phase'[i[1]] = "MISSING" /\ ~Present(i[1])')
    <3>1. Flying(i) /\ ~Resumed(i) /\ i[1] \in Modes
      BY <1>1, <1>2, <2>1, JobsAre
    <3>2. phase[i[1]] = "LOADING" \/ (phase[i[1]] = "MISSING" /\ ~Present(i[1]))
      BY <2>1, <3>1 DEF IInv, Shown, LoadShown
    <3>3. QED
      BY <2>1, <3>1, <3>2 DEF ScreensFollow
  <2>2. QED
    BY <2>1 DEF LoadShown, Load
<1>4. Offers'
  BY <1>1 DEF IInv, Shown, Offers, ScreensFollow
<1>5. GoneShown'
  <2>1. ASSUME NEW m \in Modes, residentHolder = m, phase'[m] = "MISSING"
        PROVE  ~Present(m)' /\ \E i \in Loads(m) \cup {<<m, "release">>} : Flying(i)'
    <3>1. CASE phase[m] = "MISSING"
      <4>1. ~Present(m) /\ \E i \in Loads(m) \cup {<<m, "release">>} : Flying(i)
        BY <2>1, <3>1 DEF IInv, Shown, GoneShown
      <4>2. PICK i \in Loads(m) \cup {<<m, "release">>} : Flying(i)
        BY <4>1
      <4>3. i \in Jobs /\ i[1] = m
        BY <2>1, <4>2, JobsAre
      <4>4. Flying(i)'
        BY <1>1, <4>2, <4>3
      <4>5. QED
        BY <2>1, <4>1, <4>2, <4>3, <4>4 DEF ScreensFollow
    <3>2. CASE phase[m] # "MISSING"
      BY <2>1, <3>2 DEF ScreensFollow
    <3>3. QED
      BY <3>1, <3>2
  <2>2. QED
    BY <1>1, <2>1 DEF GoneShown, Loads
<1>6. ReadyIsLoaded'
  BY <1>1 DEF IInv, Shown, ReadyIsLoaded, ScreensFollow, Asked
<1>7. QED
  BY <1>3, <1>4, <1>5, <1>6 DEF Shown

-----------------------------------------------------------------------------
(* Loads and turns.                                                        *)

\* Main: between two events of a view model nobody is resumed and no activity is being finished; while
\* a mode owns the slot, nothing of an earlier activity is left.
LEMMA Settled ==
  ASSUME IInv, Main
  PROVE  /\ runq = << >> /\ clearing = << >> /\ \A j \in Jobs : ~In(runq, j) /\ ~Resumed(j)
         /\ residentHolder # None => Orphans = {} /\ \A j \in Jobs : ~Orphaned(j)
<1>1. runq = << >> /\ clearing = << >>
  BY DEF Main, Free
<1>2. \A j \in Jobs : ~In(runq, j) /\ ~Resumed(j)
  BY <1>1, Alone DEF Resumed
<1>3. ASSUME residentHolder # None PROVE Orphans = {}
  <2>1. residentHolder \in Modes /\ ~In(clearing, residentHolder)
    BY <1>1, <1>3, Alone DEF IInv, TypeOK
  <2>2. QED
    BY <2>1 DEF IInv, Cleared, Swept
<1>4. Orphans = {} => \A j \in Jobs : ~Orphaned(j)
  BY DEF Orphans, Orphaned
<1>5. QED
  BY <1>1, <1>2, <1>3, <1>4

\* An empty slot with nothing of an earlier activity left: no session and no free.
LEMMA SlotIsEmpty ==
  ASSUME IInv, residentHolder = None, clearing = << >>, Orphans = {}
  PROVE  (\A s \in Sessions : session[s].st = "none") /\ \A j \in Jobs : job[j].pc # "free"
<1>1. \A j \in Jobs : ~Active(j) /\ ~Orphaned(j)
  BY JobsAre DEF IInv, Exclusive, CallOwns, Orphans, Orphaned
<1>2. \A j \in Jobs : job[j].pc # "free"
  BY JobsAre DEF IInv, Exclusive, FreeOwns
<1>3. \A j \in Jobs : ~Holding(j)
  BY <1>1, <1>2 DEF Holding, Active, Orphaned
<1>4. \A s \in Sessions : session[s].st \in {"none", "loading", "live", "freeing"}
  BY DEF IInv, TypeOK
<1>5. \A s \in Sessions : session[s].st # "live"
  <2>1. ASSUME NEW s \in Sessions, session[s].st = "live" PROVE FALSE
    BY <2>1, JobsAre DEF IInv, Owned, NoSessionLeaks, Accounted
  <2>2. QED
    BY <2>1
<1>6. QED
  BY <1>2, <1>3, <1>4, <1>5 DEF IInv, Owned, Accounted

\* LoadModel: a load starts only on a screen that offers it, and asks for the slot.
LEMMA LoadModelStep ==
  ASSUME Patient, IInv, NEW m \in Modes, NEW j, LoadModel(m, j)
  PROVE  Slot' /\ Shown'
<1>1. /\ j \in Jobs /\ Load(j) /\ j[1] = m /\ job[j].pc = "idle" /\ phase[m] = "DOWNLOADED"
      /\ job' \in [Jobs -> JobState] /\ job \in [Jobs -> JobState]
      /\ \A i \in Jobs : i # j => job'[i] = job[i]
      /\ job'[j].pc = "wait" /\ job'[j].then = "acquire"
      /\ runq' = <<j>> /\ Orphans = {} /\ clearing' = clearing
      /\ UNCHANGED <<residentHolder, residentBusy, releasePhase, releaseWaiters, handle, session, selected, onDisk>>
  <2>1. j \in Jobs /\ Load(j) /\ j[1] = m
    BY JobsAre DEF LoadModel
  <2>2. selected[m] \in Keys /\ job \in [Jobs -> JobState]
    BY DEF IInv, TypeOK
  <2>3. [Idle EXCEPT !.pc = "wait", !.then = "acquire", !.key = selected[m]] \in JobState
    BY <2>2 DEF Idle, JobState
  <2>4. QED
    BY <2>1, <2>2, <2>3 DEF LoadModel, Patient, Idle, library, activity
<1>2. /\ runq = << >> /\ clearing = << >> /\ \A i \in Jobs : ~In(runq, i) /\ ~Resumed(i)
      /\ \A i \in Jobs : ~Orphaned(i)
  BY <1>1, Settled DEF LoadModel, Orphans, Orphaned
<1>3. /\ \A i \in Jobs : i # j => (Active(i)' <=> Active(i)) /\ (Holding(i)' <=> Holding(i))
                               /\ (Flying(i)' <=> Flying(i)) /\ (Orphaned(i)' <=> Orphaned(i))
      /\ ~Active(j)' /\ ~Orphaned(j)' /\ Flying(j)' /\ ~Holding(j)' /\ ~Active(j) /\ ~Holding(j) /\ ~Flying(j)
  BY <1>1 DEF Active, Holding, Flying, Orphaned
<1>4. \A i \in Jobs : (In(runq', i) <=> i = j) /\ ~Resumed(i)'
  BY <1>1, Alone DEF Resumed
<1>5. \A i \in Jobs : Load(i) /\ i[1] = m => ~Flying(i)
  BY <1>1, <1>2 DEF IInv, Shown, LoadShown
<1>6. Shapes'
  BY <1>1 DEF Shapes, IInv, Load
<1>7. Queued'
  BY <1>1, <1>2, <1>4, Alone DEF Queued, IInv
<1>8. Exclusive'
  <2>1. OneCall' /\ CallOwns' /\ FreeAlone' /\ FreeOwns'
    BY <1>1, <1>3 DEF OneCall, CallOwns, FreeAlone, FreeOwns, IInv, Exclusive
  <2>2. OneLoad'
    BY <1>1, <1>3, <1>5 DEF OneLoad, IInv, Exclusive, Load
  <2>3. QED
    BY <2>1, <2>2 DEF Exclusive
<1>9. Owned'
  <2>1. AtMostOneSession' /\ Handles' /\ NoSessionLeaks'
    BY <1>1 DEF IInv, Owned, AtMostOneSession, Handles, NoSessionLeaks
  <2>2. OneHolding' /\ Accounted'
    BY <1>1, <1>3 DEF IInv, Owned, OneHolding, Accounted
  <2>3. Loading' /\ Leaving' /\ Called'
    BY <1>1, <1>3 DEF IInv, Owned, Loading, Leaving, Called
  <2>4. QED
    BY <2>1, <2>2, <2>3 DEF Owned
<1>10. Entitled'
  <2>1. Foreign'
    BY <1>1 DEF IInv, Entitled, Foreign, Wants, Acquires, Shown, Offers
  <2>2. Vacant'
    BY <1>1, <1>2, SlotIsEmpty DEF Vacant
  <2>3. QED
    BY <1>4, <2>1, <2>2 DEF Entitled, Overtaken
<1>11. Cleared'
  <2>1. Orphans' = {} /\ clearing' = << >>
    BY <1>1, <1>2, <1>3, OrphansKept
  <2>2. \A i \in Jobs : ~Orphaned(i)'
    BY <1>2, <1>3
  <2>3. QED
    BY <2>1, <2>2 DEF Cleared, Swept, OrphanHolds, OneWaits
<1>12. Shown'
  <2>1. phase' = [phase EXCEPT ![m] = "LOADING"] /\ phase \in [Modes -> {"MISSING", "DOWNLOADED", "LOADING", "READY"}]
    BY DEF LoadModel, IInv, TypeOK
  <2>2. LoadShown'
    BY <1>1, <1>2, <1>3, <1>4, <2>1, JobsAre DEF IInv, Shown, LoadShown, Load, Present
  <2>3. Offers' /\ ReadyIsLoaded'
    BY <1>1, <2>1 DEF IInv, Shown, Offers, ReadyIsLoaded
  <2>4. GoneShown'
    <3>1. ASSUME NEW n \in Modes, residentHolder = n, phase'[n] = "MISSING"
          PROVE  ~Present(n)' /\ \E i \in Loads(n) \cup {<<n, "release">>} : Flying(i)'
      <4>1. phase[n] = "MISSING"
        BY <2>1, <3>1
      <4>2. ~Present(n) /\ \E i \in Loads(n) \cup {<<n, "release">>} : Flying(i)
        BY <3>1, <4>1 DEF IInv, Shown, GoneShown
      <4>3. \A i \in Loads(n) \cup {<<n, "release">>} : i \in Jobs
        BY <3>1, JobsAre
      <4>4. QED
        BY <1>1, <1>3, <4>2, <4>3 DEF Present
    <3>2. QED
      BY <1>1, <3>1 DEF GoneShown, Loads
  <2>5. QED
    BY <2>2, <2>3, <2>4 DEF Shown
<1>13. QED
  BY <1>6, <1>7, <1>8, <1>9, <1>10, <1>11, <1>12 DEF Slot

\* The screens stay as they are while jobs go on.
LEMMA ShownKept ==
  ASSUME IInv, phase' = phase, selected' = selected, onDisk' = onDisk,
         residentHolder' = residentHolder \/ residentHolder' = None,
         \A i \in Jobs : Flying(i) => Flying(i)',
         \A i \in Jobs : Load(i) /\ Flying(i)' /\ ~Resumed(i)' => Flying(i) /\ ~Resumed(i),
         \A m \in Modes : phase[m] = "READY" => residentHolder' = m /\ (handle'[m] = None => releasePhase' = "RUNNING")
  PROVE  Shown'
<1>1. \A m : Present(m)' <=> Present(m)
  BY DEF Present
<1>2. LoadShown'
  BY <1>1 DEF IInv, Shown, LoadShown, Load
<1>3. Offers' /\ ReadyIsLoaded'
  BY JobsAre DEF IInv, Shown, Offers, ReadyIsLoaded
<1>4. GoneShown'
  <2>1. ASSUME NEW m \in Modes, residentHolder' = m, phase'[m] = "MISSING"
        PROVE  ~Present(m)' /\ \E i \in Loads(m) \cup {<<m, "release">>} : Flying(i)'
    <3>1. residentHolder = m
      BY <2>1, JobsAre
    <3>2. ~Present(m) /\ \E i \in Loads(m) \cup {<<m, "release">>} : Flying(i)
      BY <2>1, <3>1 DEF IInv, Shown, GoneShown
    <3>3. QED
      BY <1>1, <3>2, JobsAre
  <2>2. QED
    BY <2>1 DEF GoneShown, Loads
<1>5. QED
  BY <1>2, <1>3, <1>4 DEF Shown

\* A job in its native call is the only one, with no free beside it.
LEMMA InCall ==
  ASSUME IInv, NEW j \in Jobs, Active(j)
  PROVE  /\ residentHolder = j[1] /\ j[1] \in Modes /\ residentBusy /\ Flying(j) /\ ~In(runq, j) /\ ~Resumed(j)
         /\ \A i \in Jobs : job[i].pc # "free" /\ (i # j => ~Active(i))
         /\ ~In(releaseWaiters, j)
<1>1. residentHolder = j[1] /\ residentBusy /\ Flying(j)
  BY DEF IInv, Exclusive, CallOwns, Active, Flying, Orphaned
<1>2. ~In(runq, j) /\ ~In(releaseWaiters, j) /\ ~Resumed(j)
  BY DEF IInv, Queued, Active, Resumed
<1>3. \A i \in Jobs : job[i].pc # "free" /\ (i # j => ~Active(i))
  BY DEF IInv, Exclusive, FreeAlone, OneCall
<1>4. QED
  BY <1>1, <1>2, <1>3, JobsAre

\* While a load is in its init, its session is the only one.
LEMMA OnlyLoading ==
  ASSUME IInv, NEW j \in Jobs, job[j].pc = "init"
  PROVE  /\ job[j].sess \in Sessions /\ session[job[j].sess] = [of |-> j[1], st |-> "loading"]
         /\ \A s \in Sessions : s # job[j].sess => session[s].st = "none"
         /\ \A m \in Modes : handle[m] = None
         /\ \A i \in Jobs : i # j => ~Holding(i)
<1>1. job[j].sess \in Sessions /\ session[job[j].sess] = [of |-> j[1], st |-> "loading"]
  BY DEF IInv, Owned, Loading
<1>2. session[job[j].sess].st = "loading"
  BY <1>1
<1>3. \A s \in Sessions : s # job[j].sess => session[s].st = "none"
  BY <1>1, <1>2 DEF IInv, Owned, AtMostOneSession
<1>4. ASSUME NEW m \in Modes, handle[m] # None PROVE FALSE
  <2>1. handle[m] \in Sessions /\ session[handle[m]] = [of |-> m, st |-> "live"]
    BY <1>4 DEF IInv, TypeOK, Owned, Handles
  <2>2. session[handle[m]].st = "live"
    BY <2>1
  <2>3. QED
    BY <1>2, <1>3, <2>1, <2>2
<1>5. Holding(j)
  BY DEF Holding
<1>6. QED
  BY <1>1, <1>3, <1>4, <1>5 DEF IInv, Owned, OneHolding

\* What goes with the slot when a job in its call goes on in it.
LEMMA CallGoesOn ==
  ASSUME IInv, NEW j \in Jobs, Active(j), Active(j)', Moves(j),
         job[j].pc \in {"init", "inited", "failed"} => job'[j].pc \in {"init", "inited", "failed"} \/ runq = << >>,
         job'[j].pc # "init",
         job'[j].pc = "abandon" => clearing = << >>,
         Load(j) \/ job'[j].pc \notin {"inited", "failed", "abandon"},
         j[2] = "turn" \/ job'[j].pc \notin {"call", "returned"},
         \A m \in Modes : m # j[1] => handle'[m] = handle[m],
         UNCHANGED <<residentHolder, residentBusy, releasePhase, releaseWaiters, runq, clearing>>
  PROVE  Shapes' /\ Queued' /\ Exclusive' /\ Entitled' /\ Cleared'
<1>1. /\ job' \in [Jobs -> JobState] /\ job \in [Jobs -> JobState]
      /\ \A i \in Jobs : i # j => job'[i] = job[i]
      /\ residentHolder' = residentHolder /\ residentBusy' = residentBusy /\ releasePhase' = releasePhase
      /\ releaseWaiters' = releaseWaiters /\ runq' = runq /\ clearing' = clearing
  BY DEF Moves, IInv, TypeOK
<1>2. /\ residentHolder = j[1] /\ residentHolder \in Modes /\ residentBusy /\ Flying(j) /\ ~In(runq, j) /\ ~Resumed(j)
      /\ ~In(releaseWaiters, j) /\ residentHolder # None
      /\ \A i \in Jobs : job[i].pc # "free" /\ (i # j => ~Active(i))
  BY InCall, JobsAre
<1>3. /\ \A i \in Jobs : i # j => (Active(i)' <=> Active(i)) /\ (Holding(i)' <=> Holding(i))
                               /\ (Flying(i)' <=> Flying(i)) /\ (Orphaned(i)' <=> Orphaned(i))
      /\ ~Orphaned(j)' /\ ~Orphaned(j) /\ Flying(j)'
      /\ job'[j].pc \in {"inited", "failed", "abandon", "call", "returned"}
  BY <1>1 DEF Active, Holding, Flying, Orphaned
<1>4. Shapes'
  BY <1>1, <1>3 DEF Shapes, IInv, Load
<1>5. Queued'
  BY <1>1, <1>2, <1>3 DEF Queued, IInv
<1>6. Exclusive'
  <2>1. OneCall' /\ CallOwns' /\ FreeAlone' /\ FreeOwns'
    BY <1>1, <1>2, <1>3 DEF OneCall, CallOwns, FreeAlone, FreeOwns
  <2>2. OneLoad'
    BY <1>2, <1>3 DEF OneLoad, IInv, Exclusive, Load
  <2>3. QED
    BY <2>1, <2>2 DEF Exclusive
<1>7. Entitled'
  <2>1. Foreign' /\ Vacant'
    BY <1>1, <1>2, <1>3 DEF IInv, Entitled, Foreign, Wants, Acquires, Vacant
  <2>2. Overtaken'
    <3>1. \A i \in Jobs : Resumed(i)' <=> Resumed(i)
      BY <1>1, <1>2 DEF Resumed
    <3>2. ASSUME NEW i \in Jobs, Resumed(i), residentHolder = i[1]
          PROVE  \E l \in Loads(i[1]) : job'[l].pc \in {"init", "inited", "failed"}
      <4>1. PICK l \in Loads(i[1]) : job[l].pc \in {"init", "inited", "failed"}
        BY <3>2 DEF IInv, Entitled, Overtaken
      <4>2. l \in Jobs /\ runq # << >>
        BY <3>2, JobsAre, Alone DEF Resumed
      <4>3. QED
        BY <1>1, <4>1, <4>2
    <3>3. QED
      BY <1>1, <3>1, <3>2 DEF Overtaken, Loads
  <2>3. QED
    BY <2>1, <2>2 DEF Entitled
<1>8. Cleared'
  <2>1. Orphans' = Orphans
    BY <1>3, OrphansKept
  <2>2. Swept'
    BY <1>1, <1>2, <1>3, <2>1, JobsAre DEF IInv, Cleared, Swept
  <2>3. OrphanHolds'
    BY <1>1, <1>3 DEF IInv, Cleared, OrphanHolds
  <2>4. OneWaits'
    BY <1>1, <1>3 DEF IInv, Cleared, OneWaits, Acquires
  <2>5. QED
    BY <2>2, <2>3, <2>4 DEF Cleared
<1>9. QED
  BY <1>4, <1>5, <1>6, <1>7, <1>8

\* InitOk: the session is live, and the mode's handle.
LEMMA InitOkStep ==
  ASSUME IInv, NEW j \in Jobs, InitOk(j)
  PROVE  Slot' /\ Shown'
<1> DEFINE s == job[j].sess
<1>1. /\ job[j].pc = "init" /\ Active(j) /\ Load(j) /\ j[1] \in Modes
      /\ job \in [Jobs -> JobState] /\ handle \in [Modes -> Sessions \cup {None}]
      /\ session \in [Sessions -> [of : Modes \cup {None}, st : {"none", "loading", "live", "freeing"}]]
  BY JobsAre DEF InitOk, Active, IInv, TypeOK, Shapes
<1>2. /\ s \in Sessions /\ s # None /\ session[s] = [of |-> j[1], st |-> "loading"]
      /\ \A t \in Sessions : t # s => session[t].st = "none"
      /\ \A m \in Modes : handle[m] = None
      /\ \A i \in Jobs : i # j => ~Holding(i)
  BY <1>1, OnlyLoading, JobsAre
<1>3. /\ Moves(j) /\ job'[j].pc = "inited" /\ job'[j].sess = s
      /\ handle'[j[1]] = s /\ \A m \in Modes : m # j[1] => handle'[m] = None
      /\ session'[s] = [of |-> j[1], st |-> "live"] /\ \A t \in Sessions : t # s => session'[t] = session[t]
  BY <1>1, <1>2 DEF InitOk, Moves, JobState
<1>4. UNCHANGED <<residentHolder, residentBusy, releasePhase, releaseWaiters, runq, clearing, phase, selected, onDisk>>
  BY DEF InitOk, residency, screen, library, activity
<1>5. Active(j)'
  BY <1>3 DEF Active
<1>6. Shapes' /\ Queued' /\ Exclusive' /\ Entitled' /\ Cleared'
  BY <1>1, <1>2, <1>3, <1>4, <1>5, CallGoesOn
<1>7. Owned'
  <2>1. /\ residentHolder = j[1] /\ \A i \in Jobs : i # j => job'[i] = job[i] /\ ~Active(i)
    BY <1>1, <1>3, InCall DEF Moves
  <2>2. \A i \in Jobs : ~Holding(i)'
    BY <1>2, <1>3, <2>1 DEF Holding
  <2>3. session'[s].st = "live" /\ session'[s].of = j[1]
    BY <1>3
  <2>4. AtMostOneSession' /\ NoSessionLeaks' /\ Accounted'
    BY <1>1, <1>2, <1>3, <1>4, <2>1, <2>3 DEF AtMostOneSession, NoSessionLeaks, Accounted
  <2>5. OneHolding' /\ Loading' /\ Leaving'
    BY <2>2 DEF OneHolding, Loading, Leaving, Holding
  <2>6. Called' /\ Handles'
    BY <1>1, <1>2, <1>3, <2>1 DEF Called, Handles, Active
  <2>7. QED
    BY <2>4, <2>5, <2>6 DEF Owned
<1>8. Shown'
  <2>1. \A i \in Jobs : (Flying(i)' <=> Flying(i)) /\ (Resumed(i)' <=> Resumed(i))
    BY <1>1, <1>3, <1>4, InCall DEF Flying, Orphaned, Resumed, Moves
  <2>2. \A m \in Modes : phase[m] = "READY" => residentHolder' = m /\ (handle'[m] = None => releasePhase' = "RUNNING")
    BY <1>2, <1>4 DEF IInv, Shown, ReadyIsLoaded
  <2>3. QED
    BY <1>4, <2>1, <2>2, ShownKept
<1>9. QED
  BY <1>6, <1>7, <1>8 DEF Slot

\* InitFails: nothing is left of the session, or it is the mode's handle for the catch to free.
LEMMA InitFailsStep ==
  ASSUME IInv, NEW j \in Jobs, InitFails(j)
  PROVE  Slot' /\ Shown'
<1> DEFINE s == job[j].sess
<1>1. /\ job[j].pc = "init" /\ Active(j) /\ Load(j) /\ j[1] \in Modes
      /\ job \in [Jobs -> JobState] /\ handle \in [Modes -> Sessions \cup {None}]
      /\ session \in [Sessions -> [of : Modes \cup {None}, st : {"none", "loading", "live", "freeing"}]]
  BY JobsAre DEF InitFails, Active, IInv, TypeOK, Shapes
<1>2. /\ s \in Sessions /\ s # None /\ session[s] = [of |-> j[1], st |-> "loading"]
      /\ \A t \in Sessions : t # s => session[t].st = "none"
      /\ \A m \in Modes : handle[m] = None
      /\ \A i \in Jobs : i # j => ~Holding(i)
  BY <1>1, OnlyLoading, JobsAre
<1>3. /\ Moves(j) /\ job'[j].pc = "failed"
      /\ \/ \A m \in Modes : handle'[m] = None
         \/ handle'[j[1]] = s /\ \A m \in Modes : m # j[1] => handle'[m] = None
  BY <1>1, <1>2 DEF InitFails, Moves, JobState
<1>4. UNCHANGED <<residentHolder, residentBusy, releasePhase, releaseWaiters, runq, clearing, phase, selected, onDisk>>
  BY DEF InitFails, residency, screen, library, activity
<1>5. Active(j)'
  BY <1>3 DEF Active
<1>6. Shapes' /\ Queued' /\ Exclusive' /\ Entitled' /\ Cleared'
  BY <1>1, <1>2, <1>3, <1>4, <1>5, CallGoesOn
<1>7. Owned'
  <2>1. /\ residentHolder = j[1] /\ \A i \in Jobs : i # j => job'[i] = job[i] /\ ~Active(i)
    BY <1>1, <1>3, InCall DEF Moves
  <2>2. \A i \in Jobs : ~Holding(i)'
    BY <1>2, <1>3, <2>1 DEF Holding
  <2>3. OneHolding' /\ Loading' /\ Leaving'
    BY <2>2 DEF OneHolding, Loading, Leaving, Holding
  <2>4. Called'
    BY <1>3, <2>1 DEF Called, Active
  <2>5. CASE session' = Gone(s) /\ UNCHANGED handle
    <3>1. \A t \in Sessions : session'[t].st = "none"
      BY <1>1, <1>2, <2>5 DEF Gone, NoSession
    <3>2. AtMostOneSession' /\ NoSessionLeaks' /\ Accounted'
      BY <3>1 DEF AtMostOneSession, NoSessionLeaks, Accounted
    <3>3. Handles'
      BY <1>2, <2>5 DEF Handles
    <3>4. QED
      BY <2>3, <2>4, <3>2, <3>3 DEF Owned
  <2>6. CASE session' = [session EXCEPT ![s].st = "live"] /\ handle' = [handle EXCEPT ![j[1]] = s]
    <3>1. /\ session'[s] = [of |-> j[1], st |-> "live"] /\ \A t \in Sessions : t # s => session'[t] = session[t]
          /\ handle'[j[1]] = s /\ \A m \in Modes : m # j[1] => handle'[m] = None
      BY <1>1, <1>2, <2>6
    <3>2. session'[s].st = "live" /\ session'[s].of = j[1]
      BY <3>1
    <3>3. AtMostOneSession' /\ NoSessionLeaks' /\ Accounted'
      BY <1>1, <1>2, <1>4, <2>1, <3>1, <3>2 DEF AtMostOneSession, NoSessionLeaks, Accounted
    <3>4. Handles'
      BY <3>1 DEF Handles
    <3>5. QED
      BY <2>3, <2>4, <3>3, <3>4 DEF Owned
  <2>7. QED
    BY <2>5, <2>6 DEF InitFails
<1>8. Shown'
  <2>1. \A i \in Jobs : (Flying(i)' <=> Flying(i)) /\ (Resumed(i)' <=> Resumed(i))
    BY <1>1, <1>3, <1>4, InCall DEF Flying, Orphaned, Resumed, Moves
  <2>2. \A m \in Modes : phase[m] = "READY" => residentHolder' = m /\ (handle'[m] = None => releasePhase' = "RUNNING")
    BY <1>2, <1>4 DEF IInv, Shown, ReadyIsLoaded
  <2>3. QED
    BY <1>4, <2>1, <2>2, ShownKept
<1>9. QED
  BY <1>6, <1>7, <1>8 DEF Slot

\* CallReturns: the turn has still to settle.
LEMMA CallReturnsStep ==
  ASSUME IInv, NEW j \in Jobs, CallReturns(j)
  PROVE  Slot' /\ Shown'
<1>1. /\ job[j].pc = "call" /\ Active(j) /\ j[2] = "turn" /\ job \in [Jobs -> JobState]
  BY DEF CallReturns, Active, IInv, TypeOK, Shapes
<1>2. /\ Moves(j) /\ job'[j].pc = "returned"
  BY <1>1 DEF CallReturns, Moves, JobState
<1>3. UNCHANGED <<residentHolder, residentBusy, releasePhase, releaseWaiters, runq, clearing, phase, selected,
                  onDisk, handle, session>>
  BY DEF CallReturns, residency, screen, library, activity
<1>4. Active(j)'
  BY <1>2 DEF Active
<1>5. Shapes' /\ Queued' /\ Exclusive' /\ Entitled' /\ Cleared'
  BY <1>1, <1>2, <1>3, <1>4, CallGoesOn
<1>6. Owned'
  <2>1. \A i \in Jobs : i # j => job'[i] = job[i]
    BY <1>2 DEF Moves
  <2>2. \A i \in Jobs : (Holding(i)' <=> Holding(i)) /\ (Holding(i) => job'[i].sess = job[i].sess)
    BY <1>1, <1>2, <2>1 DEF Holding
  <2>3. AtMostOneSession' /\ Handles' /\ NoSessionLeaks'
    BY <1>3 DEF IInv, Owned, AtMostOneSession, Handles, NoSessionLeaks
  <2>4. OneHolding' /\ Accounted'
    BY <1>3, <2>2 DEF IInv, Owned, OneHolding, Accounted
  <2>5. Loading' /\ Leaving' /\ Called'
    BY <1>2, <1>3, <2>1, <2>2 DEF IInv, Owned, Loading, Leaving, Called
  <2>6. QED
    BY <2>3, <2>4, <2>5 DEF Owned
<1>7. Shown'
  <2>1. \A i \in Jobs : (Flying(i)' <=> Flying(i)) /\ (Resumed(i)' <=> Resumed(i))
    BY <1>1, <1>2, <1>3, InCall DEF Flying, Orphaned, Resumed, Moves
  <2>2. \A m \in Modes : phase[m] = "READY" => residentHolder' = m /\ (handle'[m] = None => releasePhase' = "RUNNING")
    BY <1>3 DEF IInv, Shown, ReadyIsLoaded
  <2>3. QED
    BY <1>3, <2>1, <2>2, ShownKept
<1>8. QED
  BY <1>5, <1>6, <1>7 DEF Slot

\* StartTurn: the mode owns the slot and a live session, and no other native call runs.
LEMMA StartTurnStep ==
  ASSUME IInv, NEW m \in Modes, StartTurn(m)
  PROVE  Slot' /\ Shown'
<1> DEFINE j == <<m, "turn">>
<1>1. /\ j \in Jobs /\ j[1] = m /\ j[2] = "turn" /\ ~Load(j) /\ job[j].pc = "idle" /\ phase[m] = "READY"
      /\ job \in [Jobs -> JobState] /\ handle[m] \in Sessions /\ handle[m] # None
  <2>1. "turn" \in Kinds
    BY DEF Kinds
  <2>2. j \in Jobs /\ j[1] = m /\ j[2] = "turn"
    BY <2>1, JobsAre
  <2>3. ~Load(j)
    BY <2>2 DEF Load
  <2>4. job \in [Jobs -> JobState] /\ handle \in [Modes -> Sessions \cup {None}]
    BY DEF IInv, TypeOK
  <2>5. QED
    BY <2>2, <2>3, <2>4 DEF StartTurn
<1>2. /\ Moves(j) /\ job'[j].pc = "call" /\ job'[j].sess = handle[m] /\ \A i \in Jobs : i # j => job'[i] = job[i]
  BY <1>1 DEF StartTurn, Moves, JobState
<1>3. UNCHANGED <<residentHolder, releasePhase, releaseWaiters, runq, clearing, phase, selected, onDisk, handle, session>>
  BY DEF StartTurn, library, activity
<1>4. residentHolder = m /\ residentHolder # None
  BY <1>1, JobsAre DEF IInv, Shown, ReadyIsLoaded
<1>5. /\ runq = << >> /\ clearing = << >> /\ \A i \in Jobs : ~In(runq, i) /\ ~Resumed(i) /\ ~Orphaned(i)
      /\ Orphans = {}
  BY <1>4, Settled DEF StartTurn
<1>6. residentBusy'
  BY <1>4 DEF StartTurn
<1>7. \A i \in Jobs : ~Active(i)
  <2>1. ASSUME NEW i \in Jobs, Active(i) PROVE FALSE
    <3>1. i[1] = m
      BY <1>4, <2>1 DEF IInv, Exclusive, CallOwns
    <3>2. CASE Load(i)
      BY <1>1, <1>5, <2>1, <3>1, <3>2 DEF IInv, Shown, LoadShown, Flying, Active
    <3>3. CASE ~Load(i)
      <4>1. i[2] = "turn"
        BY <2>1, <3>3 DEF IInv, Shapes, Active
      <4>2. i = j
        BY <3>1, <4>1, JobsAre
      <4>3. QED
        BY <1>1, <2>1, <4>2 DEF Active
    <3>4. QED
      BY <3>2, <3>3
  <2>2. QED
    BY <2>1
<1>8. \A i \in Jobs : job[i].pc # "free"
  BY <1>1, <1>4, <1>5 DEF IInv, Exclusive, FreeOwns
<1>9. /\ \A i \in Jobs : i # j => (Active(i)' <=> Active(i)) /\ (Holding(i)' <=> Holding(i))
                               /\ (Flying(i)' <=> Flying(i)) /\ (Orphaned(i)' <=> Orphaned(i))
      /\ Active(j)' /\ ~Orphaned(j)' /\ Flying(j)' /\ ~Holding(j)' /\ ~Holding(j)
  BY <1>1, <1>2 DEF Active, Holding, Flying, Orphaned
<1>10. Shapes'
  BY <1>1, <1>2 DEF Shapes, IInv, Load
<1>11. Queued'
  BY <1>1, <1>2, <1>3 DEF Queued, IInv
<1>12. Exclusive'
  <2>1. OneCall' /\ CallOwns' /\ FreeAlone' /\ FreeOwns'
    BY <1>1, <1>2, <1>3, <1>4, <1>6, <1>7, <1>8, <1>9 DEF OneCall, CallOwns, FreeAlone, FreeOwns
  <2>2. OneLoad'
    BY <1>1, <1>9 DEF OneLoad, IInv, Exclusive, Load
  <2>3. QED
    BY <2>1, <2>2 DEF Exclusive
<1>13. Owned'
  <2>1. AtMostOneSession' /\ Handles' /\ NoSessionLeaks'
    BY <1>3 DEF IInv, Owned, AtMostOneSession, Handles, NoSessionLeaks
  <2>2. OneHolding' /\ Accounted'
    BY <1>2, <1>3, <1>9 DEF IInv, Owned, OneHolding, Accounted
  <2>3. Loading' /\ Leaving' /\ Called'
    BY <1>1, <1>2, <1>3, <1>9 DEF IInv, Owned, Loading, Leaving, Called
  <2>4. QED
    BY <2>1, <2>2, <2>3 DEF Owned
<1>14. \A i \in Jobs : ~Resumed(i)'
  BY <1>2, <1>3, <1>5 DEF Resumed
<1>15. Entitled'
  BY <1>2, <1>3, <1>4, <1>14 DEF IInv, Entitled, Foreign, Wants, Acquires, Vacant, Overtaken
<1>16. Cleared'
  <2>1. Orphans' = {} /\ clearing' = << >> /\ \A i \in Jobs : ~Orphaned(i)'
    BY <1>3, <1>5, <1>9, OrphansKept
  <2>2. QED
    BY <2>1 DEF Cleared, Swept, OrphanHolds, OneWaits
<1>17. Shown'
  BY <1>1, <1>3, <1>5, <1>9, <1>14, ShownKept DEF IInv, Shown, ReadyIsLoaded
<1>18. QED
  BY <1>10, <1>11, <1>12, <1>13, <1>15, <1>16, <1>17 DEF Slot

\* LoadSettled: the load is published, or gives up what it loaded.
LEMMA LoadSettledStep ==
  ASSUME IInv, NEW j \in Jobs, LoadSettled(j)
  PROVE  Slot' /\ Shown'
<1>1. /\ job[j].pc = "inited" /\ Active(j) /\ Load(j) /\ j[1] \in Modes
      /\ job \in [Jobs -> JobState] /\ phase \in [Modes -> {"MISSING", "DOWNLOADED", "LOADING", "READY"}]
  BY JobsAre DEF LoadSettled, Active, IInv, TypeOK, Shapes
<1>2. /\ runq = << >> /\ clearing = << >> /\ \A i \in Jobs : ~In(runq, i) /\ ~Resumed(i)
  BY Settled DEF LoadSettled
<1>3. /\ residentHolder = j[1] /\ Flying(j) /\ ~In(releaseWaiters, j)
      /\ \A i \in Jobs : job[i].pc # "free" /\ (i # j => ~Active(i))
  BY <1>1, InCall
<1>4. UNCHANGED <<runq, clearing, selected, onDisk>>
  BY DEF LoadSettled, library, activity
<1>5. Asks(j)
  BY <1>1, <1>2, <1>3 DEF Asks
<1>6. CASE SettledIntoRelease(j, j[1], "finish") /\ UNCHANGED phase
  <2>1. Slot' /\ Asked(j)
    BY <1>1, <1>2, <1>4, <1>6, SettlesInto
  <2>2. ScreensFollow
    BY <1>4, <1>6 DEF ScreensFollow, Present
  <2>3. QED
    BY <1>5, <2>1, <2>2, AskShown
<1>7. CASE phase' = [phase EXCEPT ![j[1]] = "READY"] /\ job' = [job EXCEPT ![j] = Idle] /\ residentBusy' = FALSE
           /\ UNCHANGED <<residentHolder, releasePhase, releaseWaiters, handle, session>>
  <2>1. Moves(j) /\ job'[j] = Idle /\ \A i \in Jobs : i # j => job'[i] = job[i]
    <3>1. Idle \in JobState
      BY DEF Idle, JobState
    <3>2. QED
      BY <1>1, <1>7, <3>1 DEF Moves
  <2>2. Detached(j)
    BY <1>2, <1>3, <1>4, <1>7 DEF Detached, IInv, TypeOK, Queued
  <2>3. Slot'
    BY <1>1, <1>2, <1>3, <1>4, <1>7, <2>1, <2>2, JobEnds
  <2>4. /\ \A i \in Jobs : i # j => (Flying(i)' <=> Flying(i))
        /\ \A i \in Jobs : ~Resumed(i)'
        /\ ~Flying(j)'
    BY <1>2, <1>4, <2>1 DEF Flying, Orphaned, Resumed, Idle
  <2>5. handle[j[1]] # None
    BY <1>1 DEF IInv, Owned, Called
  <2>6. LoadShown'
    <3>1. ASSUME NEW i \in Jobs, Load(i), Flying(i)' PROVE i[1] # j[1] /\ Flying(i) /\ ~Resumed(i)
      BY <1>1, <1>2, <1>3, <2>4, <3>1 DEF IInv, Exclusive, OneLoad
    <3>2. QED
      BY <1>1, <1>4, <1>7, <3>1, JobsAre DEF IInv, Shown, LoadShown, Load, Present
  <2>7. Offers' /\ GoneShown' /\ ReadyIsLoaded'
    BY <1>1, <1>3, <1>7, <2>5 DEF IInv, Shown, Offers, GoneShown, ReadyIsLoaded
  <2>8. QED
    BY <2>3, <2>6, <2>7 DEF Shown
<1>8. CASE residentBusy' = FALSE /\ requestReleaseAndAwait(j, "done", FALSE) /\ UNCHANGED <<phase, residentHolder>>
  <2>1. Slot' /\ Asked(j)
    BY <1>1, <1>3, <1>4, <1>5, <1>8, Requests
  <2>2. ScreensFollow
    BY <1>4, <1>8 DEF ScreensFollow, Present
  <2>3. QED
    BY <1>5, <2>1, <2>2, AskShown
<1>9. QED
  <2>1. \/ SettledIntoRelease(j, j[1], "finish") /\ UNCHANGED phase
        \/ FinishLoad(j, j[1]) /\ UNCHANGED residentHolder
    BY DEF LoadSettled
  <2>2. CASE FinishLoad(j, j[1]) /\ UNCHANGED residentHolder
    <3>1. \/ phase' = [phase EXCEPT ![j[1]] = "READY"] /\ job' = [job EXCEPT ![j] = Idle] /\ residentBusy' = FALSE
             /\ UNCHANGED <<releasePhase, releaseWaiters, handle, session>>
          \/ residentBusy' = FALSE /\ requestReleaseAndAwait(j, "done", residentBusy') /\ UNCHANGED phase
      BY <1>1, <1>3, <2>2 DEF FinishLoad
    <3>2. residentBusy' = FALSE /\ requestReleaseAndAwait(j, "done", residentBusy')
             => requestReleaseAndAwait(j, "done", FALSE)
      BY DEF requestReleaseAndAwait
    <3>3. QED
      BY <1>7, <1>8, <2>2, <3>1, <3>2
  <2>3. QED
    BY <1>6, <2>1, <2>2

\* TurnSettled: the turn ends, or goes into the release that waited for it.
LEMMA TurnSettledStep ==
  ASSUME IInv, NEW j \in Jobs, TurnSettled(j)
  PROVE  Slot' /\ Shown'
<1>1. /\ job[j].pc = "returned" /\ Active(j) /\ j[2] = "turn" /\ ~Load(j) /\ j[1] \in Modes
      /\ job \in [Jobs -> JobState]
  BY JobsAre DEF TurnSettled, Active, IInv, TypeOK, Shapes, Load
<1>2. /\ runq = << >> /\ clearing = << >> /\ \A i \in Jobs : ~In(runq, i) /\ ~Resumed(i)
  BY Settled DEF TurnSettled
<1>3. /\ residentHolder = j[1] /\ Flying(j) /\ ~In(releaseWaiters, j)
      /\ \A i \in Jobs : job[i].pc # "free" /\ (i # j => ~Active(i))
  BY <1>1, InCall
<1>4. UNCHANGED <<runq, clearing, selected, onDisk, phase>>
  BY DEF TurnSettled, library, activity
<1>5. CASE SettledIntoRelease(j, j[1], "finishTurn")
  <2>1. Slot' /\ Asked(j)
    BY <1>1, <1>2, <1>4, <1>5, SettlesInto
  <2>2. ScreensFollow
    BY <1>4 DEF ScreensFollow, Present
  <2>3. Asks(j)
    BY <1>1, <1>2, <1>3 DEF Asks
  <2>4. QED
    BY <2>1, <2>2, <2>3, AskShown
<1>6. CASE FinishTurn(j, j[1]) /\ UNCHANGED <<residentHolder, releasePhase, releaseWaiters, handle, session>>
  <2>1. Moves(j) /\ job'[j] = Idle /\ \A i \in Jobs : i # j => job'[i] = job[i]
    <3>1. Idle \in JobState
      BY DEF Idle, JobState
    <3>2. QED
      BY <1>1, <1>6, <3>1 DEF Moves, FinishTurn
  <2>2. Detached(j)
    BY <1>2, <1>3, <1>4, <1>6 DEF Detached, IInv, TypeOK, Queued
  <2>3. Slot'
    BY <1>1, <1>2, <1>3, <1>4, <1>6, <2>1, <2>2, JobEnds
  <2>4. /\ \A i \in Jobs : i # j => (Flying(i)' <=> Flying(i))
        /\ \A i \in Jobs : ~Resumed(i)'
    BY <1>2, <1>4, <2>1 DEF Flying, Orphaned, Resumed, Idle
  <2>5. LoadShown'
    BY <1>1, <1>2, <1>4, <2>4 DEF IInv, Shown, LoadShown, Load, Present
  <2>6. Offers' /\ ReadyIsLoaded'
    BY <1>4, <1>6 DEF IInv, Shown, Offers, ReadyIsLoaded
  <2>7. GoneShown'
    <3>1. ASSUME NEW m \in Modes, residentHolder = m, phase[m] = "MISSING"
          PROVE  ~Present(m)' /\ \E i \in Loads(m) \cup {<<m, "release">>} : Flying(i)'
      <4>1. ~Present(m) /\ \E i \in Loads(m) \cup {<<m, "release">>} : Flying(i)
        BY <3>1 DEF IInv, Shown, GoneShown
      <4>2. PICK i \in Loads(m) \cup {<<m, "release">>} : Flying(i)
        BY <4>1
      <4>3. i \in Jobs /\ i # j
        BY <1>1, <4>2, JobsAre DEF Load
      <4>4. QED
        BY <1>4, <2>4, <4>1, <4>2, <4>3 DEF Present
    <3>2. QED
      BY <1>4, <1>6, <3>1 DEF GoneShown, Loads
  <2>8. QED
    BY <2>3, <2>5, <2>6, <2>7 DEF Shown
<1>7. QED
  BY <1>5, <1>6 DEF TurnSettled

\* A load whose init has failed shows no model as loaded.
LEMMA NotReady ==
  ASSUME IInv, Main, NEW j \in Jobs, Active(j), Load(j)
  PROVE  \A m \in Modes : phase[m] # "READY"
<1>1. residentHolder = j[1] /\ Flying(j) /\ ~Resumed(j)
  BY InCall
<1>2. phase[j[1]] # "READY"
  BY <1>1 DEF IInv, Shown, LoadShown
<1>3. QED
  BY <1>1, <1>2 DEF IInv, Shown, ReadyIsLoaded

\* dropResidency: the owner of the slot gives it up without a session, and goes on behind the waiters.
LEMMA Drops ==
  ASSUME IInv, Main, NEW j \in Jobs, Active(j), Load(j), Moves(j),
         job'[j].pc = "wait", job'[j].then = "back", dropResidency(j[1], <<j>>),
         \A s \in Sessions : session'[s].st = "none", \A m \in Modes : handle'[m] = None,
         UNCHANGED <<clearing, phase, selected, onDisk>>
  PROVE  Slot' /\ Shown'
<1>1. /\ job' \in [Jobs -> JobState] /\ job \in [Jobs -> JobState]
      /\ \A i \in Jobs : i # j => job'[i] = job[i]
  BY DEF Moves, IInv, TypeOK
<1>2. /\ residentHolder = j[1] /\ j[1] \in Modes /\ residentHolder # None /\ Flying(j) /\ ~In(releaseWaiters, j)
      /\ \A i \in Jobs : job[i].pc # "free" /\ (i # j => ~Active(i))
  BY InCall, JobsAre
<1>3. /\ runq = << >> /\ clearing = << >> /\ Orphans = {}
      /\ \A i \in Jobs : ~In(runq, i) /\ ~Resumed(i) /\ ~Orphaned(i)
  BY <1>2, Settled
<1>4. /\ residentHolder' = None /\ residentBusy' = FALSE
      /\ \/ runq' = <<j>> /\ releaseWaiters' = releaseWaiters
         \/ runq' = Append(releaseWaiters, j) /\ releaseWaiters' = << >>
  BY <1>2, Joined DEF dropResidency, IInv, TypeOK
<1>5. /\ Once(releaseWaiters') /\ Once(runq') /\ In(runq', j)
      /\ \A i \in Jobs : /\ In(releaseWaiters', i) \/ In(runq', i) <=> In(releaseWaiters, i) \/ i = j
                         /\ ~(In(releaseWaiters', i) /\ In(runq', i))
  <2>1. releaseWaiters \in Seq(Jobs \cup {None}) /\ Once(releaseWaiters)
    BY DEF IInv, TypeOK, Queued
  <2>2. CASE runq' = <<j>> /\ releaseWaiters' = releaseWaiters
    <3>1. Once(<<j>>) /\ \A i \in Jobs : In(<<j>>, i) <=> i = j
      BY Alone
    <3>2. QED
      BY <1>2, <2>1, <2>2, <3>1
  <2>3. CASE runq' = Append(releaseWaiters, j) /\ releaseWaiters' = << >>
    <3>1. /\ Once(Append(releaseWaiters, j))
          /\ \A i \in Jobs : In(Append(releaseWaiters, j), i) <=> In(releaseWaiters, i) \/ i = j
      BY <1>2, <2>1, Appended
    <3>2. Once(<< >>) /\ \A i : ~In(<< >>, i)
      BY Alone
    <3>3. QED
      BY <2>3, <3>1, <3>2
  <2>4. QED
    BY <1>4, <2>2, <2>3
<1>6. /\ \A i \in Jobs : i # j => (Flying(i)' <=> Flying(i))
      /\ \A i \in Jobs : ~Active(i)' /\ ~Orphaned(i)' /\ ~Holding(i)' /\ job'[i].pc # "free"
      /\ Flying(j)' /\ Resumed(j)'
  BY <1>1, <1>2, <1>3, <1>5 DEF Active, Holding, Flying, Orphaned, Resumed
<1>7. Shapes'
  BY <1>1 DEF Shapes, IInv, Load
<1>8. Queued'
  BY <1>1, <1>3, <1>5 DEF Queued, IInv
<1>9. Exclusive'
  <2>1. OneCall' /\ CallOwns' /\ FreeAlone' /\ FreeOwns'
    BY <1>6 DEF OneCall, CallOwns, FreeAlone, FreeOwns
  <2>2. OneLoad'
    BY <1>2, <1>6 DEF OneLoad, IInv, Exclusive, Load
  <2>3. QED
    BY <2>1, <2>2 DEF Exclusive
<1>10. Owned'
  <2>1. AtMostOneSession' /\ Handles' /\ NoSessionLeaks' /\ Accounted'
    BY DEF AtMostOneSession, Handles, NoSessionLeaks, Accounted
  <2>2. OneHolding' /\ Loading' /\ Leaving' /\ Called'
    BY <1>6 DEF OneHolding, Loading, Leaving, Called, Holding, Active
  <2>3. QED
    BY <2>1, <2>2 DEF Owned
<1>11. Entitled'
  BY <1>4, <1>6, JobsAre DEF Entitled, Foreign, Vacant, Overtaken
<1>12. Cleared'
  <2>1. Orphans' = {} /\ clearing' = << >>
    BY <1>3, <1>6, OrphansKept
  <2>2. QED
    BY <1>6, <2>1 DEF Cleared, Swept, OrphanHolds, OneWaits
<1>13. Shown'
  BY <1>3, <1>4, <1>6, NotReady, ShownKept, <1>2
<1>14. QED
  BY <1>7, <1>8, <1>9, <1>10, <1>11, <1>12, <1>13 DEF Slot

\* LoadFailed: the session the failed load left is freed first; without one the slot is dropped.
LEMMA LoadFailedStep ==
  ASSUME IInv, NEW j \in Jobs, LoadFailed(j)
  PROVE  Slot' /\ Shown'
<1> DEFINE h == handle[j[1]]
<1>1. /\ job[j].pc = "failed" /\ Active(j) /\ Load(j) /\ j[1] \in Modes /\ ~Holding(j) /\ Main
      /\ job \in [Jobs -> JobState] /\ handle \in [Modes -> Sessions \cup {None}]
      /\ session \in [Sessions -> [of : Modes \cup {None}, st : {"none", "loading", "live", "freeing"}]]
  BY JobsAre DEF LoadFailed, Active, IInv, TypeOK, Shapes, Holding
<1>2. /\ residentHolder = j[1] /\ residentHolder # None /\ Flying(j) /\ ~In(releaseWaiters, j)
      /\ \A i \in Jobs : job[i].pc # "free" /\ (i # j => ~Active(i))
  BY <1>1, InCall, JobsAre
<1>3. /\ runq = << >> /\ clearing = << >> /\ Orphans = {}
      /\ \A i \in Jobs : ~In(runq, i) /\ ~Resumed(i) /\ ~Orphaned(i)
  BY <1>1, <1>2, Settled
<1>4. \A i \in Jobs : ~Holding(i)
  BY <1>1, <1>2, <1>3 DEF Holding, Active, Orphaned
<1>5. UNCHANGED <<clearing, phase, selected, onDisk>>
  BY DEF LoadFailed, screen, library, activity
<1>6. CASE h # None
  <2>1. /\ Moves(j) /\ job'[j].pc = "abandon" /\ job'[j].sess = h
        /\ \A i \in Jobs : i # j => job'[i] = job[i]
        /\ UNCHANGED <<residentHolder, residentBusy, releasePhase, releaseWaiters, runq>>
        /\ handle' = [handle EXCEPT ![j[1]] = None] /\ session' = [session EXCEPT ![h].st = "freeing"]
    <3>1. h \in Sessions \cup {None} /\ job[j] \in JobState
      BY <1>1
    <3>2. [job[j] EXCEPT !.pc = "abandon", !.sess = h] \in JobState
      BY <3>1 DEF JobState
    <3>3. job' = [job EXCEPT ![j] = [job[j] EXCEPT !.pc = "abandon", !.sess = h]]
      BY <1>1, <1>6 DEF LoadFailed
    <3>4. UNCHANGED residency /\ handle' = [handle EXCEPT ![j[1]] = None] /\ session' = Freeing(h)
      BY <1>6 DEF LoadFailed
    <3>5. QED
      BY <1>1, <3>1, <3>2, <3>3, <3>4 DEF Moves, residency, Freeing
  <2>2. Active(j)'
    BY <2>1 DEF Active
  <2>3. Shapes' /\ Queued' /\ Exclusive' /\ Entitled' /\ Cleared'
    BY <1>1, <1>3, <1>5, <2>1, <2>2, CallGoesOn
  <2>4. /\ h \in Sessions /\ session[h] = [of |-> j[1], st |-> "live"]
        /\ \A s \in Sessions : s # h => session'[s] = session[s] /\ session[s].st = "none"
        /\ session'[h].st = "freeing"
    BY <1>1, <1>6, <2>1 DEF IInv, Owned, Handles, AtMostOneSession
  <2>5. \A m \in Modes : handle'[m] = None
    <3>1. ASSUME NEW m \in Modes, m # j[1], handle[m] # None PROVE FALSE
      <4>1. handle[m] \in Sessions /\ session[handle[m]] = [of |-> m, st |-> "live"]
        BY <1>1, <3>1 DEF IInv, Owned, Handles
      <4>2. handle[m] = h
        BY <2>4, <4>1
      <4>3. QED
        BY <2>4, <3>1, <4>1, <4>2
    <3>2. QED
      BY <1>1, <2>1, <3>1
  <2>6. (\A i \in Jobs : i # j => ~Holding(i)') /\ Holding(j)'
    BY <1>4, <2>1 DEF Holding
  <2>7. Owned'
    <3>1. AtMostOneSession' /\ NoSessionLeaks' /\ Accounted' /\ OneHolding'
      BY <2>1, <2>4, <2>6 DEF AtMostOneSession, NoSessionLeaks, Accounted, OneHolding
    <3>2. Loading' /\ Leaving' /\ Called' /\ Handles'
      BY <1>2, <2>1, <2>4, <2>5, <2>6 DEF Loading, Leaving, Called, Handles, Holding, Active
    <3>3. QED
      BY <3>1, <3>2 DEF Owned
  <2>8. Shown'
    <3>1. \A i \in Jobs : (Flying(i)' <=> Flying(i)) /\ (Resumed(i)' <=> Resumed(i))
      BY <1>1, <1>3, <2>1 DEF Flying, Orphaned, Resumed
    <3>2. QED
      BY <1>1, <1>5, <2>1, <3>1, NotReady, ShownKept
  <2>9. QED
    BY <2>3, <2>7, <2>8 DEF Slot
<1>7. CASE h = None
  <2>1. /\ dropResidency(j[1], <<j>>) /\ UNCHANGED <<handle, session>>
        /\ job' = [job EXCEPT ![j].pc = "wait", ![j].then = "back"]
    BY <1>7 DEF LoadFailed
  <2>2. Moves(j) /\ job'[j].pc = "wait" /\ job'[j].then = "back"
    <3> DEFINE r == [job[j] EXCEPT !.pc = "wait", !.then = "back"]
    <3>1. r \in JobState /\ r.pc = "wait" /\ r.then = "back"
      BY <1>1 DEF JobState
    <3>2. job' = [job EXCEPT ![j] = r]
      BY <1>1, <2>1
    <3>3. QED
      BY <1>1, <3>1, <3>2 DEF Moves
  <2>3. \A s \in Sessions : session[s].st = "none"
    BY <1>1, <1>2, <1>4, <1>7, JobsAre DEF IInv, Owned, Accounted, NoSessionLeaks
  <2>4. \A m \in Modes : handle[m] = None
    <3>1. ASSUME NEW m \in Modes, handle[m] # None PROVE FALSE
      <4>1. handle[m] \in Sessions /\ session[handle[m]] = [of |-> m, st |-> "live"]
        BY <1>1, <3>1 DEF IInv, Owned, Handles
      <4>2. session[handle[m]].st = "live"
        BY <4>1
      <4>3. QED
        BY <2>3, <4>1, <4>2
    <3>2. QED
      BY <3>1
  <2>5. QED
    BY <1>1, <1>5, <2>1, <2>2, <2>3, <2>4, Drops
<1>8. QED
  BY <1>6, <1>7

\* Abandoned: the session is gone, and the slot is dropped.
LEMMA AbandonedStep ==
  ASSUME IInv, NEW j \in Jobs, Abandoned(j)
  PROVE  Slot' /\ Shown'
<1> DEFINE s == job[j].sess
<1>1. /\ job[j].pc = "abandon" /\ Active(j) /\ Load(j) /\ Holding(j) /\ Main
      /\ job \in [Jobs -> JobState] /\ handle \in [Modes -> Sessions \cup {None}]
      /\ session \in [Sessions -> [of : Modes \cup {None}, st : {"none", "loading", "live", "freeing"}]]
      /\ dropResidency(j[1], <<j>>) /\ session' = Gone(s) /\ handle' = handle
      /\ UNCHANGED <<clearing, phase, selected, onDisk>>
  BY DEF Abandoned, Active, IInv, TypeOK, Shapes, Holding, screen, library, activity
<1>2. Moves(j) /\ job'[j].pc = "wait" /\ job'[j].then = "back"
  <2> DEFINE r == [job[j] EXCEPT !.pc = "wait", !.then = "back", !.sess = None]
  <2>1. r \in JobState /\ r.pc = "wait" /\ r.then = "back"
    BY <1>1 DEF JobState
  <2>2. job' = [job EXCEPT ![j] = r]
    BY <1>1 DEF Abandoned
  <2>3. QED
    BY <1>1, <2>1, <2>2 DEF Moves
<1>3. s \in Sessions /\ session[s].st \in {"loading", "freeing"} /\ \A t \in Sessions : t # s => session[t].st = "none"
  BY <1>1, HoldsWhat DEF IInv, Owned, AtMostOneSession
<1>4. \A t \in Sessions : session'[t].st = "none"
  BY <1>1, <1>3, JobsAre DEF Gone, NoSession
<1>5. \A m \in Modes : handle[m] = None
  <2>1. ASSUME NEW m \in Modes, handle[m] # None PROVE FALSE
    <3>1. handle[m] \in Sessions /\ session[handle[m]] = [of |-> m, st |-> "live"]
      BY <1>1, <2>1 DEF IInv, Owned, Handles
    <3>2. session[handle[m]].st = "live"
      BY <3>1
    <3>3. QED
      BY <1>3, <3>1, <3>2
  <2>2. QED
    BY <2>1
<1>6. QED
  BY <1>1, <1>2, <1>4, <1>5, Drops

-----------------------------------------------------------------------------
(* The library, the variant picker and the collectors.                     *)

\* What changes only the screens, the library or who is resumed when leaves the slot as it was.
LEMMA SlotAsBefore ==
  ASSUME IInv, UNCHANGED <<residentHolder, residentBusy, releasePhase, releaseWaiters, job, handle, session>>,
         Once(runq'), \A i \in Jobs : In(runq', i) <=> In(runq, i),
         clearing' = clearing \/ (clearing = << >> /\ Swept' /\ OneWaits')
  PROVE  Slot' /\ \A i \in Jobs : (Flying(i)' <=> Flying(i)) /\ (Resumed(i)' <=> Resumed(i))
<1>1. UNCHANGED <<residentHolder, residentBusy, releasePhase, releaseWaiters, job, handle, session>>
  OBVIOUS
<1>2. \A i \in Jobs : /\ (Flying(i)' <=> Flying(i)) /\ (Active(i)' <=> Active(i))
                      /\ (Holding(i)' <=> Holding(i)) /\ (Orphaned(i)' <=> Orphaned(i))
                      /\ (Resumed(i)' <=> Resumed(i)) /\ (Ready(i)' <=> Ready(i)) /\ (Acquires(i)' <=> Acquires(i))
                      /\ (Wants(i)' <=> Wants(i))
  BY <1>1 DEF Flying, Active, Holding, Orphaned, Resumed, Ready, Acquires, Wants
<1>3. Shapes' /\ Queued'
  BY <1>1 DEF IInv, Shapes, Queued, Load
<1>4. Exclusive'
  BY <1>1, <1>2 DEF IInv, Exclusive, OneCall, CallOwns, FreeAlone, FreeOwns, OneLoad, Load
<1>5. Owned'
  <2>1. AtMostOneSession' /\ Handles' /\ NoSessionLeaks' /\ Called'
    BY <1>1 DEF IInv, Owned, AtMostOneSession, Handles, NoSessionLeaks, Called
  <2>2. OneHolding' /\ Loading' /\ Leaving' /\ Accounted'
    BY <1>1, <1>2 DEF IInv, Owned, OneHolding, Loading, Leaving, Accounted
  <2>3. QED
    BY <2>1, <2>2 DEF Owned
<1>6. Entitled'
  BY <1>1, <1>2 DEF IInv, Entitled, Foreign, Vacant, Overtaken, Loads
<1>7. Cleared'
  <2>1. Orphans' = Orphans
    BY <1>2, OrphansKept
  <2>2. Swept'
    BY <1>1, <1>2, <2>1 DEF IInv, Cleared, Swept
  <2>3. OneWaits'
    BY <1>1, <1>2, <2>1 DEF IInv, Cleared, OneWaits
  <2>4. OrphanHolds'
    BY <1>1, <1>2, <2>1 DEF IInv, Cleared, OrphanHolds
  <2>5. QED
    BY <2>2, <2>3, <2>4 DEF Cleared
<1>8. QED
  BY <1>1, <1>2, <1>3, <1>4, <1>5, <1>6, <1>7 DEF Slot

\* The same, with the queues and the clearing as they were.
LEMMA SlotKept ==
  ASSUME IInv, UNCHANGED <<residency, job, handle, session, clearing>>
  PROVE  /\ Slot'
         /\ residentHolder' = residentHolder /\ releasePhase' = releasePhase /\ handle' = handle
         /\ \A i \in Jobs : (Flying(i)' <=> Flying(i)) /\ (Resumed(i)' <=> Resumed(i))
<1>1. UNCHANGED <<residentHolder, residentBusy, releasePhase, releaseWaiters, runq, job, handle, session, clearing>>
  BY DEF residency
<1>2. Once(runq') /\ \A i \in Jobs : In(runq', i) <=> In(runq, i)
  BY <1>1 DEF IInv, Queued
<1>3. QED
  BY <1>1, <1>2, SlotAsBefore

\* A coroutine of the mode that owns the slot is launched to release it.
LEMMA Launches ==
  ASSUME IInv, Free, NEW m \in Modes, NEW k \in {"release", "switch"}, NEW then \in {"done", "reflect"},
         job[<<m, k>>].pc = "idle", releaseResidentModel(<<m, k>>, m, then), UNCHANGED <<runq, clearing>>
  PROVE  /\ Slot' /\ Asks(<<m, k>>) /\ Asked(<<m, k>>) /\ Flying(<<m, k>>)' /\ residentHolder' = residentHolder
         /\ ScreensFollow => Shown'
<1> DEFINE j == <<m, k>>
<1>1. j \in Jobs /\ j[1] = m /\ j[2] = k /\ ~Load(j)
  BY JobsAre DEF Kinds, Load
<1>2. /\ residentHolder = m /\ runq = << >> /\ requestReleaseAndAwait(j, then, residentBusy)
      /\ residentHolder' = residentHolder /\ residentBusy' = residentBusy
  BY DEF Free, releaseResidentModel
<1>3. Asks(j)
  BY <1>1, <1>2 DEF Asks
<1>4. \A i \in Jobs : Active(i) => residentBusy
  BY DEF IInv, Exclusive, CallOwns
<1>5. Slot' /\ Asked(j)
  BY <1>2, <1>3, <1>4, Requests
<1>6. Flying(j)'
  BY <1>5 DEF Asked, Flying, Orphaned
<1>7. QED
  BY <1>2, <1>3, <1>5, <1>6, AskShown

\* Unload.
LEMMA UnloadStep ==
  ASSUME IInv, NEW m \in Modes, Unload(m)
  PROVE  Slot' /\ Shown'
<1>1. /\ Free /\ job[<<m, "release">>].pc = "idle" /\ releaseResidentModel(<<m, "release">>, m, "done")
      /\ UNCHANGED <<runq, clearing, phase, selected, onDisk>>
  BY DEF Unload, Main, LaunchRelease, screen, library, activity
<1>2. ScreensFollow
  BY <1>1 DEF ScreensFollow, Present
<1>3. QED
  BY <1>1, <1>2, Launches

\* CollectPresence: a model that has arrived is offered, one that has gone is given up.
LEMMA CollectPresenceStep ==
  ASSUME IInv, NEW m \in Modes, CollectPresence(m)
  PROVE  Slot' /\ Shown'
<1>1. /\ Main /\ Free /\ UNCHANGED <<runq, clearing, selected, onDisk>>
      /\ phase \in [Modes -> {"MISSING", "DOWNLOADED", "LOADING", "READY"}]
      /\ \A n : Present(n)' <=> Present(n)
  BY DEF CollectPresence, Main, library, activity, IInv, TypeOK, Present
<1>2. CASE Present(m)
  <2>1. /\ phase' = [phase EXCEPT ![m] = IF @ = "MISSING" THEN "DOWNLOADED" ELSE @]
        /\ UNCHANGED <<residency, job, handle, session, clearing>>
    BY <1>1, <1>2 DEF CollectPresence, residency
  <2>2. /\ Slot' /\ residentHolder' = residentHolder /\ releasePhase' = releasePhase /\ handle' = handle
        /\ \A i \in Jobs : (Flying(i)' <=> Flying(i)) /\ (Resumed(i)' <=> Resumed(i))
    BY <2>1, SlotKept
  <2>3. LoadShown'
    BY <1>1, <1>2, <2>1, <2>2, JobsAre DEF IInv, Shown, LoadShown, Load
  <2>4. Offers' /\ ReadyIsLoaded'
    BY <1>1, <1>2, <2>1, <2>2 DEF IInv, Shown, Offers, ReadyIsLoaded, GoneShown
  <2>5. GoneShown'
    BY <1>1, <1>2, <2>1, <2>2, JobsAre DEF IInv, Shown, GoneShown, Loads
  <2>6. QED
    BY <2>2, <2>3, <2>4, <2>5 DEF Shown
<1>3. CASE ~Present(m)
  <2>1. phase' = [phase EXCEPT ![m] = "MISSING"] /\ LaunchRelease(m)
    BY <1>3 DEF CollectPresence
  <2>2. CASE residentHolder = m /\ job[<<m, "release">>].pc = "idle"
    <3>1. releaseResidentModel(<<m, "release">>, m, "done")
      BY <2>1, <2>2 DEF LaunchRelease
    <3>2. Slot' /\ Flying(<<m, "release">>)' /\ residentHolder' = residentHolder /\ (ScreensFollow => Shown')
      BY <1>1, <2>2, <3>1, Launches
    <3>3. ScreensFollow
      BY <1>1, <1>3, <2>1, <3>2 DEF ScreensFollow
    <3>4. QED
      BY <3>2, <3>3
  <2>3. CASE ~(residentHolder = m /\ job[<<m, "release">>].pc = "idle")
    <3>1. UNCHANGED <<residency, job, handle, session, clearing>>
      BY <1>1, <2>1, <2>3 DEF LaunchRelease, residency
    <3>2. /\ Slot' /\ residentHolder' = residentHolder /\ releasePhase' = releasePhase /\ handle' = handle
          /\ \A i \in Jobs : (Flying(i)' <=> Flying(i)) /\ (Resumed(i)' <=> Resumed(i))
      BY <3>1, SlotKept
    <3>3. LoadShown'
      BY <1>1, <1>3, <2>1, <3>2, JobsAre DEF IInv, Shown, LoadShown, Load
    <3>4. Offers' /\ ReadyIsLoaded'
      BY <1>1, <2>1, <3>2 DEF IInv, Shown, Offers, ReadyIsLoaded
    <3>5. residentHolder = m => Flying(<<m, "release">>)
      BY <1>1, <2>3, Settled, JobsAre DEF Flying, Kinds
    <3>6. GoneShown'
      <4>1. ASSUME NEW n \in Modes, residentHolder = n, phase'[n] = "MISSING"
            PROVE  ~Present(n)' /\ \E i \in Loads(n) \cup {<<n, "release">>} : Flying(i)'
        <5>1. CASE n = m
          <6>1. <<m, "release">> \in Jobs
            BY JobsAre DEF Kinds
          <6>2. QED
            BY <1>1, <1>3, <3>2, <3>5, <4>1, <5>1, <6>1
        <5>2. CASE n # m
          <6>1. ~Present(n) /\ \E i \in Loads(n) \cup {<<n, "release">>} : Flying(i)
            BY <1>1, <2>1, <4>1, <5>2 DEF IInv, Shown, GoneShown
          <6>2. QED
            BY <1>1, <3>2, <4>1, <6>1, JobsAre
        <5>3. QED
          BY <5>1, <5>2
      <4>2. QED
        BY <3>2, <4>1 DEF GoneShown, Loads
    <3>7. QED
      BY <3>2, <3>3, <3>4, <3>6 DEF Shown
  <2>4. QED
    BY <2>2, <2>3
<1>4. QED
  BY <1>2, <1>3

\* The job of a mode is in flight.
LEMMA InFlightIs ==
  ASSUME NEW j \in Jobs, Flying(j) PROVE InFlight(j[1])
<1>1. j = <<j[1], j[2]>> /\ j[2] \in Kinds /\ job[j].pc # "idle"
  BY JobsAre DEF Flying
<1>2. QED
  BY <1>1 DEF InFlight

\* CollectKey: the session of the previous choice is released, or the screen shows the new one.
LEMMA CollectKeyStep ==
  ASSUME IInv, Free, NEW m \in Modes, CollectKey(m), UNCHANGED <<runq, clearing, onDisk>>,
         \A n \in Modes : n # m => selected'[n] = selected[n],
         \A j \in Jobs : j[1] = m /\ Flying(j) /\ ~Present(m) => ~Present(m)',
         \A j \in Loads(m) : Flying(j) /\ Present(m)' => Present(m)
  PROVE  Slot' /\ Shown'
<1>1. /\ job[<<m, "switch">>].pc = "idle" /\ phase \in [Modes -> {"MISSING", "DOWNLOADED", "LOADING", "READY"}]
      /\ \A n \in Modes : n # m => (Present(n)' <=> Present(n))
  BY DEF CollectKey, IInv, TypeOK, Present
<1>2. CASE releaseResidentModel(<<m, "switch">>, m, "reflect") /\ UNCHANGED phase
  <2>1. Slot' /\ (ScreensFollow => Shown')
    BY <1>1, <1>2, Launches
  <2>2. ScreensFollow
    BY <1>1, <1>2 DEF ScreensFollow
  <2>3. QED
    BY <2>1, <2>2
<1>3. CASE /\ residentHolder # m /\ phase' = Reflect(m, selected'[m])
           /\ UNCHANGED <<residentHolder, residentBusy, releasePhase, releaseWaiters, job, handle, session>>
  <2>1. UNCHANGED <<residency, job, handle, session, clearing>>
    BY <1>3 DEF residency
  <2>2. /\ Slot' /\ residentHolder' = residentHolder /\ releasePhase' = releasePhase /\ handle' = handle
        /\ \A i \in Jobs : (Flying(i)' <=> Flying(i)) /\ (Resumed(i)' <=> Resumed(i))
    BY <2>1, SlotKept
  <2>3. \A n \in Modes : n # m => phase'[n] = phase[n]
    BY <1>1, <1>3 DEF Reflect
  <2>4. phase'[m] = phase[m] \/ (phase[m] # "LOADING" /\ phase'[m] = "DOWNLOADED" /\ Present(m)')
                             \/ (phase[m] # "LOADING" /\ phase'[m] = "MISSING" /\ ~Present(m)')
    BY <1>1, <1>3 DEF Reflect, OnDisk, Present
  <2>5. LoadShown'
    <3>1. ASSUME NEW i \in Jobs, Load(i), Flying(i), ~Resumed(i)
          PROVE  phase'[i[1]] = "LOADING" \/ (phase'[i[1]] = "MISSING" /\ ~Present(i[1])')
      <4>1. i[1] \in Modes /\ (phase[i[1]] = "LOADING" \/ (phase[i[1]] = "MISSING" /\ ~Present(i[1])))
        BY <3>1, JobsAre DEF IInv, Shown, LoadShown
      <4>2. CASE i[1] = m
        BY <2>4, <3>1, <4>1, <4>2
      <4>3. CASE i[1] # m
        BY <1>1, <2>3, <4>1, <4>3
      <4>4. QED
        BY <4>2, <4>3
    <3>2. QED
      BY <2>2, <3>1 DEF LoadShown, Load
  <2>6. Offers' /\ ReadyIsLoaded'
    BY <1>3, <2>2, <2>3, <2>4 DEF IInv, Shown, Offers, ReadyIsLoaded
  <2>7. GoneShown'
    BY <1>1, <1>3, <2>2, <2>3, JobsAre DEF IInv, Shown, GoneShown, Loads
  <2>8. QED
    BY <2>2, <2>5, <2>6, <2>7 DEF Shown
<1>4. QED
  BY <1>2, <1>3 DEF CollectKey

\* CollectPending: the choice made while the collector waited.
LEMMA CollectPendingStep ==
  ASSUME IInv, NEW m \in Modes, CollectPending(m)
  PROVE  Slot' /\ Shown'
<1>1. Free /\ CollectKey(m) /\ UNCHANGED <<runq, clearing, onDisk, selected>>
  BY DEF CollectPending, CollectKey, activity
<1>2. Present(m)' <=> Present(m)
  BY <1>1 DEF Present
<1>3. QED
  BY <1>1, <1>2, CollectKeyStep

\* PickModel: while a job of the mode is in flight only between models that are on the device.
LEMMA PickModelStep ==
  ASSUME Patient, IInv, NEW m \in Modes, NEW k \in Keys, PickModel(m, k)
  PROVE  Slot' /\ Shown'
<1>1. /\ Free /\ selected' = [selected EXCEPT ![m] = k] /\ selected \in [Modes -> Keys]
      /\ InFlight(m) => k \in onDisk /\ Present(m)
  BY DEF PickModel, Patient, Main, IInv, TypeOK, Present
<1>2. /\ selected'[m] = k /\ \A n \in Modes : n # m => selected'[n] = selected[n]
  BY <1>1
<1>3. \A j \in Jobs : j[1] = m /\ Flying(j) => Present(m)
  BY <1>1, InFlightIs
<1>4. CASE CollectKey(m)
  <2>1. UNCHANGED <<runq, clearing, onDisk>>
    BY <1>4 DEF CollectKey, activity
  <2>2. \A j \in Loads(m) : Flying(j) => Present(m)
    BY <1>3, JobsAre
  <2>3. QED
    BY <1>1, <1>2, <1>3, <1>4, <2>1, <2>2, CollectKeyStep
<1>5. CASE job[<<m, "switch">>].pc # "idle" /\ UNCHANGED <<residency, job, screen, handle, session, onDisk, followed, activity>>
  <2>1. /\ Slot' /\ residentHolder' = residentHolder /\ releasePhase' = releasePhase /\ handle' = handle
        /\ \A i \in Jobs : (Flying(i)' <=> Flying(i)) /\ (Resumed(i)' <=> Resumed(i))
    BY <1>5, SlotKept DEF activity
  <2>2. phase' = phase /\ onDisk' = onDisk
    BY <1>5 DEF screen
  <2>3. InFlight(m)
    BY <1>5 DEF InFlight, Kinds
  <2>4. \A n \in Modes : Present(n)' <=> Present(n)
    BY <1>1, <1>2, <2>2, <2>3 DEF Present
  <2>5. LoadShown'
    BY <2>1, <2>2, <2>4, JobsAre DEF IInv, Shown, LoadShown, Load
  <2>6. Offers' /\ ReadyIsLoaded'
    BY <2>1, <2>2 DEF IInv, Shown, Offers, ReadyIsLoaded
  <2>7. GoneShown'
    BY <2>1, <2>2, <2>4, JobsAre DEF IInv, Shown, GoneShown, Loads
  <2>8. QED
    BY <2>1, <2>5, <2>6, <2>7 DEF Shown
<1>6. QED
  BY <1>4, <1>5 DEF PickModel

\* Delete and Download: a mode with a job in flight gets no model.
LEMMA LibraryStep ==
  ASSUME Patient, IInv, NEW k \in Keys, Delete(k) \/ Download(k)
  PROVE  Slot' /\ Shown'
<1>1. /\ UNCHANGED <<residency, job, handle, session, clearing>> /\ phase' = phase /\ selected' = selected
  BY DEF Delete, Download, screen, activity
<1>2. /\ Slot' /\ residentHolder' = residentHolder /\ releasePhase' = releasePhase /\ handle' = handle
      /\ \A i \in Jobs : (Flying(i)' <=> Flying(i)) /\ (Resumed(i)' <=> Resumed(i))
  BY <1>1, SlotKept
<1>3. ASSUME NEW j \in Jobs, Flying(j), ~Present(j[1]) PROVE ~Present(j[1])'
  <2>1. InFlight(j[1]) /\ j[1] \in Modes /\ selected[j[1]] \in Offered[j[1]]
    BY <1>3, InFlightIs, JobsAre DEF IInv, Chosen
  <2>2. selected[j[1]] # k \/ onDisk' \subseteq onDisk
    BY <2>1 DEF Delete, Download, Patient
  <2>3. onDisk' \subseteq onDisk \cup {k}
    BY DEF Delete, Download
  <2>4. QED
    BY <1>1, <1>3, <2>2, <2>3 DEF Present
<1>4. LoadShown'
  BY <1>1, <1>2, <1>3 DEF IInv, Shown, LoadShown, Load
<1>5. Offers' /\ ReadyIsLoaded'
  BY <1>1, <1>2 DEF IInv, Shown, Offers, ReadyIsLoaded
<1>6. GoneShown'
  BY <1>1, <1>2, <1>3, JobsAre DEF IInv, Shown, GoneShown, Loads
<1>7. QED
  BY <1>2, <1>4, <1>5, <1>6 DEF Shown

-----------------------------------------------------------------------------
(* The end of a release, and the jobs it resumes.                          *)

\* FreeDone: the slot is empty, and every job that waited for it is resumed.
LEMMA FreeDoneStep ==
  ASSUME IInv, NEW j \in Jobs, FreeDone(j)
  PROVE  Slot' /\ Shown'
<1> DEFINE m == job[j].of
<1>1. /\ Main /\ job[j].pc = "free" /\ m \in Modes /\ handle[m] = None /\ releasePhase = "RUNNING"
      /\ job \in [Jobs -> JobState] /\ releaseWaiters \in Seq(Jobs \cup {None})
      /\ phase \in [Modes -> {"MISSING", "DOWNLOADED", "LOADING", "READY"}]
      /\ session \in [Sessions -> [of : Modes \cup {None}, st : {"none", "loading", "live", "freeing"}]]
  BY DEF FreeDone, IInv, TypeOK, Exclusive, FreeOwns
<1>2. runq = << >> /\ clearing = << >> /\ \A i \in Jobs : ~In(runq, i) /\ ~Resumed(i)
  BY <1>1, Settled
<1>3. residentHolder = m /\ residentHolder # None
  BY <1>1, <1>2, JobsAre DEF IInv, Exclusive, FreeOwns
<1>4. Orphans = {} /\ \A i \in Jobs : ~Orphaned(i)
  BY <1>1, <1>3, Settled
<1>5. \A i \in Jobs : ~Active(i) /\ (job[i].pc = "free" => i = j)
  BY <1>1 DEF IInv, Exclusive, FreeAlone
<1>6. /\ Moves(j) /\ job'[j].pc = "wait" /\ job'[j].then = job[j].then /\ \A i \in Jobs : i # j => job'[i] = job[i]
      /\ residentHolder' = None /\ releaseWaiters' = << >> /\ runq' = Append(releaseWaiters, j)
      /\ session' = Gone(job[j].sess) /\ phase' = [phase EXCEPT ![m] = OnDisk(selected[m])]
      /\ UNCHANGED <<handle, clearing, selected, onDisk>>
  <2> DEFINE r == [job[j] EXCEPT !.pc = "wait", !.sess = None]
  <2>1. job[j] \in JobState
    BY <1>1
  <2>2. r \in JobState
    BY <2>1 DEF JobState
  <2>3. r.pc = "wait" /\ r.then = job[j].then
    BY <2>1 DEF JobState
  <2>4. job' = [job EXCEPT ![j] = r]
    BY <1>1 DEF FreeDone
  <2>5. QED
    BY <1>1, <1>3, <2>2, <2>3, <2>4 DEF FreeDone, Moves, library, activity
<1>7. /\ Once(releaseWaiters') /\ Once(runq')
      /\ \A i \in Jobs : (In(runq', i) <=> In(releaseWaiters, i) \/ i = j) /\ ~In(releaseWaiters', i)
  <2>1. Once(releaseWaiters) /\ ~In(releaseWaiters, j)
    BY <1>1 DEF IInv, Queued
  <2>2. Once(<< >>) /\ \A i \in Jobs : ~In(<< >>, i)
    BY Alone
  <2>3. QED
    BY <1>1, <1>6, <2>1, <2>2, Appended
<1>8. /\ \A i \in Jobs : Flying(i)' <=> Flying(i)
      /\ \A i \in Jobs : ~Active(i)' /\ ~Orphaned(i)' /\ ~Holding(i)' /\ job'[i].pc # "free"
  <2>1. job'[j].pc = "wait" /\ job[j].pc = "free" /\ \A i \in Jobs : i # j => job'[i] = job[i]
    BY <1>1, <1>6
  <2>2. ~Active(j)' /\ ~Orphaned(j)' /\ ~Holding(j)' /\ Flying(j)' /\ Flying(j)
    BY <2>1 DEF Active, Holding, Flying, Orphaned
  <2>3. \A i \in Jobs : i # j => ~Active(i) /\ ~Orphaned(i) /\ ~Holding(i) /\ job[i].pc # "free"
    BY <1>1, <1>4, <1>5 DEF Active, Holding, Orphaned
  <2>4. \A i \in Jobs : i # j => /\ Flying(i)' <=> Flying(i)
                                 /\ ~Active(i)' /\ ~Orphaned(i)' /\ ~Holding(i)' /\ job'[i].pc # "free"
    BY <2>1, <2>3 DEF Active, Holding, Flying, Orphaned
  <2>5. QED
    BY <2>1, <2>2, <2>4
<1>9. \A s \in Sessions : session'[s].st = "none"
  <2>1. CASE job[j].sess = None
    <3>1. \A i \in Jobs : ~Holding(i)
      BY <1>1, <1>4, <1>5, <2>1 DEF Holding, Active, Orphaned
    <3>2. \A s \in Sessions : session[s].st = "none"
      BY <1>1, <1>3, <3>1, JobsAre DEF IInv, Owned, Accounted, NoSessionLeaks
    <3>3. QED
      BY <1>6, <2>1, <3>2 DEF Gone
  <2>2. CASE job[j].sess # None
    <3>1. Holding(j)
      BY <1>1, <2>2 DEF Holding
    <3>2. /\ job[j].sess \in Sessions /\ session[job[j].sess].st \in {"loading", "freeing"}
          /\ \A t \in Sessions : t # job[j].sess => session[t].st = "none"
      BY <3>1, HoldsWhat DEF IInv, Owned, AtMostOneSession
    <3>3. QED
      BY <1>1, <1>6, <2>2, <3>2 DEF Gone, NoSession
  <2>3. QED
    BY <2>1, <2>2
<1>10. \A n \in Modes : handle[n] = None
  <2>1. ASSUME NEW n \in Modes, handle[n] # None PROVE FALSE
    <3>1. handle[n] \in Sessions /\ session[handle[n]] = [of |-> n, st |-> "live"]
      BY <2>1 DEF IInv, TypeOK, Owned, Handles
    <3>2. session[handle[n]].st = "live" /\ session[handle[n]].of = n
      BY <3>1
    <3>3. n = m
      BY <1>3, <3>1, <3>2 DEF IInv, Owned, NoSessionLeaks
    <3>4. QED
      BY <1>1, <2>1, <3>3
  <2>2. QED
    BY <2>1
<1>11. Shapes'
  BY <1>1, <1>6 DEF Shapes, IInv, Load
<1>12. Queued'
  BY <1>2, <1>6, <1>7 DEF Queued, IInv
<1>13. Exclusive'
  <2>1. OneCall' /\ CallOwns' /\ FreeAlone' /\ FreeOwns'
    BY <1>8 DEF OneCall, CallOwns, FreeAlone, FreeOwns
  <2>2. OneLoad'
    BY <1>8 DEF OneLoad, IInv, Exclusive, Load
  <2>3. QED
    BY <2>1, <2>2 DEF Exclusive
<1>14. Owned'
  <2>1. AtMostOneSession' /\ Handles' /\ NoSessionLeaks' /\ Accounted'
    BY <1>6, <1>9, <1>10 DEF AtMostOneSession, Handles, NoSessionLeaks, Accounted
  <2>2. OneHolding' /\ Loading' /\ Leaving' /\ Called'
    BY <1>8 DEF OneHolding, Loading, Leaving, Called, Holding, Active
  <2>3. QED
    BY <2>1, <2>2 DEF Owned
<1>15. Entitled'
  BY <1>6, <1>8, <1>9, JobsAre DEF Entitled, Foreign, Vacant, Overtaken
<1>16. Cleared'
  <2>1. Orphans' = {} /\ clearing' = << >>
    BY <1>2, <1>4, <1>6, <1>8, OrphansKept
  <2>2. QED
    BY <1>8, <2>1 DEF Cleared, Swept, OrphanHolds, OneWaits
<1>17. Shown'
  <2>1. LoadShown'
    <3>1. ASSUME NEW i \in Jobs, Load(i), Flying(i), ~Resumed(i)'
          PROVE  phase'[i[1]] = "LOADING" \/ (phase'[i[1]] = "MISSING" /\ ~Present(i[1])')
      <4>1. i[1] \in Modes /\ (phase[i[1]] = "LOADING" \/ (phase[i[1]] = "MISSING" /\ ~Present(i[1])))
        BY <1>2, <3>1, JobsAre DEF IInv, Shown, LoadShown
      <4>2. i[1] # m
        <5>1. job[i].pc \in {"wait", "free"}
          BY <1>1, <1>5, <3>1 DEF Flying, Active, Orphaned, JobState
        <5>2. In(runq', i)
          BY <1>2, <1>5, <1>7, <5>1 DEF IInv, Queued
        <5>3. Wants(i)
          BY <1>6, <3>1, <5>1, <5>2 DEF Resumed, Wants
        <5>4. QED
          BY <1>3, <5>3 DEF IInv, Entitled, Foreign
      <4>3. QED
        BY <1>1, <1>6, <4>1, <4>2 DEF Present
    <3>2. QED
      BY <1>8, <3>1 DEF LoadShown, Load
  <2>2. Offers' /\ GoneShown'
    BY <1>6, JobsAre DEF Offers, GoneShown
  <2>3. ReadyIsLoaded'
    BY <1>1, <1>3, <1>6 DEF IInv, Shown, ReadyIsLoaded, OnDisk
  <2>4. QED
    BY <2>1, <2>2, <2>3 DEF Shown
<1>18. QED
  BY <1>11, <1>12, <1>13, <1>14, <1>15, <1>16, <1>17 DEF Slot

\* acquireResidency of an empty slot: the load starts, with no session beside the one it makes.
LEMMA GrantStep ==
  ASSUME IInv, NEW j \in Jobs, runq # << >>, Head(runq) = j, runq' = Tail(runq),
         job[j].then = "acquire", residentHolder \in {None, j[1]}, acquireResidency(j, j[1]),
         UNCHANGED <<clearing, phase, selected, onDisk>>
  PROVE  Slot' /\ Shown'
<1> DEFINE m == j[1]
<1>1. /\ m \in Modes /\ m # None /\ job \in [Jobs -> JobState] /\ In(runq, j) /\ job[j].pc = "wait"
      /\ handle \in [Modes -> Sessions \cup {None}] /\ Load(j)
      /\ session \in [Sessions -> [of : Modes \cup {None}, st : {"none", "loading", "live", "freeing"}]]
  <2>1. job \in [Jobs -> JobState] /\ runq \in Seq(Jobs \cup {None}) /\ Once(runq)
    BY DEF IInv, TypeOK, Queued
  <2>2. In(runq, j)
    BY <2>1, Popped
  <2>3. job[j].pc = "wait"
    BY <2>2 DEF IInv, Queued
  <2>4. QED
    BY <2>1, <2>2, <2>3, JobsAre DEF IInv, TypeOK, Shapes
<1>2. residentHolder = None /\ Flying(j) /\ Ready(j) /\ ~Resumed(j) /\ Acquires(j) /\ Wants(j)
  BY <1>1 DEF IInv, Entitled, Foreign, Wants, Flying, Orphaned, Ready, Resumed, Acquires
<1>3. (\A t \in Sessions : session[t].st = "none") /\ \A i \in Jobs : job[i].pc # "free" /\ ~Active(i)
  BY <1>2, JobsAre DEF IInv, Entitled, Vacant, Exclusive, CallOwns
<1>4. PICK s \in Sessions : /\ s # None /\ session' = [session EXCEPT ![s] = [of |-> m, st |-> "loading"]]
                            /\ job' = [job EXCEPT ![j].pc = "init", ![j].sess = s]
  <2> DEFINE c == CHOOSE t \in Sessions : session[t].st = "none"
  <2>1. c \in Sessions /\ c # None
    BY <1>1, <1>3, SessionOne, JobsAre
  <2>2. /\ session' = [session EXCEPT ![c] = [of |-> m, st |-> "loading"]]
        /\ job' = [job EXCEPT ![j].pc = "init", ![j].sess = c]
    BY DEF acquireResidency
  <2> HIDE DEF c
  <2>3. QED
    BY <2>1, <2>2
<1>5. residentHolder' = m /\ residentBusy' = TRUE /\ UNCHANGED <<releasePhase, releaseWaiters, handle>>
  BY DEF acquireResidency
<1>6. /\ Moves(j) /\ job'[j].pc = "init" /\ job'[j].sess = s /\ \A i \in Jobs : i # j => job'[i] = job[i]
      /\ session'[s] = [of |-> m, st |-> "loading"] /\ session'[s].st = "loading"
      /\ \A t \in Sessions : t # s => session'[t].st = "none"
  <2> DEFINE r == [job[j] EXCEPT !.pc = "init", !.sess = s]
  <2>1. r \in JobState /\ r.pc = "init" /\ r.sess = s
    BY <1>1, <1>4 DEF JobState
  <2>2. job' = [job EXCEPT ![j] = r]
    BY <1>1, <1>4
  <2>3. session'[s] = [of |-> m, st |-> "loading"] /\ \A t \in Sessions : t # s => session'[t] = session[t]
    BY <1>1, <1>4, <1>5
  <2>4. QED
    BY <1>1, <1>3, <2>1, <2>2, <2>3 DEF Moves
<1>7. /\ \A i \in Jobs : ~Holding(i)
      /\ \A n \in Modes : handle[n] = None
  <2>1. \A i \in Jobs : ~Holding(i)
    BY <1>3, HoldsWhat
  <2>2. ASSUME NEW n \in Modes, handle[n] # None PROVE FALSE
    <3>1. handle[n] \in Sessions /\ session[handle[n]] = [of |-> n, st |-> "live"]
      BY <2>2 DEF IInv, TypeOK, Owned, Handles
    <3>2. session[handle[n]].st = "live"
      BY <3>1
    <3>3. QED
      BY <1>3, <3>1, <3>2
  <2>3. QED
    BY <2>1, <2>2
<1>8. /\ \A i \in Jobs : i # j => (Active(i)' <=> Active(i)) /\ (Holding(i)' <=> Holding(i))
                               /\ (Flying(i)' <=> Flying(i)) /\ (Orphaned(i)' <=> Orphaned(i))
      /\ Active(j)' /\ ~Orphaned(j)' /\ ~Orphaned(j) /\ Flying(j)' /\ Holding(j)'
  BY <1>1, <1>6 DEF Active, Holding, Flying, Orphaned
<1>9. /\ Once(releaseWaiters') /\ Once(runq') /\ ~In(releaseWaiters, j)
      /\ \A i \in Jobs : (In(runq', i) <=> In(runq, i) /\ i # j) /\ (In(releaseWaiters', i) <=> In(releaseWaiters, i))
  BY <1>1, <1>5, Popped DEF IInv, TypeOK, Queued
<1>10. Shapes'
  BY <1>1, <1>6 DEF Shapes, IInv, Load
<1>11. Queued'
  BY <1>6, <1>9 DEF Queued, IInv
<1>12. Exclusive'
  <2>1. OneCall' /\ CallOwns' /\ FreeAlone' /\ FreeOwns'
    BY <1>3, <1>5, <1>6, <1>8 DEF OneCall, CallOwns, FreeAlone, FreeOwns
  <2>2. OneLoad'
    BY <1>2, <1>8 DEF OneLoad, IInv, Exclusive, Load
  <2>3. QED
    BY <2>1, <2>2 DEF Exclusive
<1>13. Owned'
  <2>1. AtMostOneSession' /\ Handles' /\ NoSessionLeaks' /\ Accounted'
    BY <1>5, <1>6, <1>7, <1>8 DEF AtMostOneSession, Handles, NoSessionLeaks, Accounted
  <2>2. OneHolding' /\ Loading'
    <3>1. OneHolding'
      BY <1>7, <1>8 DEF OneHolding
    <3>2. ASSUME NEW i \in Jobs, i # j
          PROVE  job[i].pc \notin {"init", "orphanLoad"} /\ job'[i] = job[i]
      BY <1>6, <1>7, <3>2 DEF Holding
    <3>3. job'[j].pc = "init" /\ job'[j].sess = s /\ session'[s] = [of |-> j[1], st |-> "loading"]
      BY <1>4, <1>6
    <3>4. QED
      BY <3>1, <3>2, <3>3 DEF Loading
  <2>3. Leaving' /\ Called'
    BY <1>3, <1>6, <1>7, <1>8 DEF Leaving, Called, Holding, Active
  <2>4. QED
    BY <2>1, <2>2, <2>3 DEF Owned
<1>14. Entitled'
  <2>1. Foreign'
    <3>1. ASSUME NEW i \in Jobs, Wants(i)' PROVE i[1] # m
      <4>1. i # j /\ Wants(i) /\ Load(i) /\ Flying(i)
        BY <1>6, <3>1 DEF Wants, IInv, Shapes, Flying, Orphaned
      <4>2. QED
        BY <1>1, <1>2, <4>1 DEF IInv, Exclusive, OneLoad
    <3>2. QED
      BY <1>5, <3>1 DEF Foreign
  <2>2. Vacant'
    BY <1>1, <1>5 DEF Vacant
  <2>3. Overtaken'
    <3>1. j \in Loads(m)
      BY <1>1, JobsAre
    <3>2. ASSUME NEW i \in Jobs, i[1] = m PROVE \E l \in Loads(i[1]) : job'[l].pc = "init"
      BY <1>6, <3>1, <3>2
    <3>3. QED
      BY <1>5, <3>2 DEF Overtaken, Loads
  <2>4. QED
    BY <2>1, <2>2, <2>3 DEF Entitled
<1>15. Cleared'
  <2>1. Orphans' = Orphans
    BY <1>8, OrphansKept
  <2>2. clearing # << >> \/ Orphans # {} => In(clearing, m)
    BY <1>1, <1>2 DEF IInv, Cleared, Swept
  <2>3. Swept'
    BY <1>5, <1>8, <2>1, <2>2 DEF IInv, Cleared, Swept
  <2>4. OrphanHolds'
    BY <1>7, <1>8 DEF OrphanHolds
  <2>5. OneWaits'
    <3>1. clearing # << >> => \A i \in Jobs : ~Acquires(i)'
      BY <1>2, <1>6 DEF IInv, Cleared, OneWaits, Acquires
    <3>2. QED
      BY <3>1 DEF OneWaits
  <2>6. QED
    BY <2>3, <2>4, <2>5 DEF Cleared
<1>16. Shown'
  <2>1. phase[m] = "LOADING" \/ (phase[m] = "MISSING" /\ ~Present(m))
    BY <1>1, <1>2 DEF IInv, Shown, LoadShown
  <2>2. \A i \in Jobs : (Flying(i)' <=> Flying(i)) /\ (Resumed(i)' <=> Resumed(i))
    BY <1>2, <1>6, <1>8, <1>9 DEF Resumed
  <2>3. LoadShown'
    BY <2>2 DEF IInv, Shown, LoadShown, Load, Present
  <2>4. Offers' /\ ReadyIsLoaded'
    <3>1. ASSUME NEW n \in Modes, phase[n] = "READY" PROVE FALSE
      BY <1>2, <3>1, JobsAre DEF IInv, Shown, ReadyIsLoaded
    <3>2. QED
      BY <1>1, <1>5, <2>1, <3>1 DEF Offers, ReadyIsLoaded
  <2>5. GoneShown'
    BY <1>1, <1>2, <1>5, <2>1, <2>2, JobsAre DEF GoneShown, Present
  <2>6. QED
    BY <2>3, <2>4, <2>5 DEF Shown
<1>17. QED
  BY <1>10, <1>11, <1>12, <1>13, <1>14, <1>15, <1>16 DEF Slot

\* A resumed job ends: a load that was overtaken, a turn, a variant collector that shows the choice,
\* or a failed load that shows what is on the device.
LEMMA ResumedEnds ==
  ASSUME IInv, NEW j \in Jobs, runq # << >>, Head(runq) = j, runq' = Tail(runq),
         job' = [job EXCEPT ![j] = Idle], job[j].then # "acquire",
         UNCHANGED <<residentHolder, residentBusy, releasePhase, releaseWaiters, handle, session, clearing,
                     selected, onDisk>>,
         \A n \in Modes : n # j[1] => phase'[n] = phase[n],
         \/ phase'[j[1]] = phase[j[1]]
         \/ phase[j[1]] # "LOADING" /\ phase'[j[1]] = OnDisk(selected[j[1]])
         \/ Load(j) /\ phase'[j[1]] \in {"DOWNLOADED", "MISSING"}
  PROVE  Slot' /\ Shown'
<1> DEFINE m == j[1]
<1>1. /\ m \in Modes /\ job \in [Jobs -> JobState] /\ In(runq, j) /\ job[j].pc = "wait" /\ ~In(releaseWaiters, j)
      /\ releaseWaiters \in Seq(Jobs \cup {None}) /\ runq \in Seq(Jobs \cup {None})
      /\ Once(releaseWaiters) /\ Once(runq)
  <2>1. /\ job \in [Jobs -> JobState] /\ runq \in Seq(Jobs \cup {None}) /\ Once(runq)
        /\ releaseWaiters \in Seq(Jobs \cup {None}) /\ Once(releaseWaiters)
    BY DEF IInv, TypeOK, Queued
  <2>2. In(runq, j)
    BY <2>1, Popped
  <2>3. job[j].pc = "wait" /\ ~In(releaseWaiters, j)
    BY <2>2 DEF IInv, Queued
  <2>4. QED
    BY <2>1, <2>2, <2>3, JobsAre
<1>2. Moves(j) /\ job'[j] = Idle /\ \A i \in Jobs : i # j => job'[i] = job[i]
  <2>1. Idle \in JobState
    BY DEF Idle, JobState
  <2>2. QED
    BY <1>1, <2>1 DEF Moves
<1>3. /\ Detached(j) /\ \A i \in Jobs : In(runq', i) <=> In(runq, i) /\ i # j
  BY <1>1, Popped DEF Detached
<1>4. \A i \in Jobs : Active(i) => residentBusy
  BY DEF IInv, Exclusive, CallOwns
<1>5. Slot'
  BY <1>1, <1>2, <1>3, <1>4, JobEnds
<1>6. /\ \A i \in Jobs : i # j => (Flying(i)' <=> Flying(i)) /\ (Resumed(i)' <=> Resumed(i))
      /\ ~Flying(j)' /\ Flying(j) /\ Resumed(j)
  BY <1>1, <1>2, <1>3 DEF Flying, Orphaned, Resumed, Idle
<1>7. \A n : Present(n)' <=> Present(n)
  BY DEF Present
<1>8. ASSUME residentHolder = m
      PROVE  /\ ~Load(j)
             /\ phase'[m] = "LOADING" \/ (phase'[m] = "MISSING" /\ ~Present(m))
             /\ \E i \in Loads(m) : Flying(i) /\ i # j
  <2>1. PICK l \in Loads(m) : job[l].pc \in {"init", "inited", "failed"}
    BY <1>6, <1>8 DEF IInv, Entitled, Overtaken
  <2>2. l \in Jobs /\ Load(l) /\ l[1] = m /\ l # j /\ Active(l)
    BY <1>1, <2>1, JobsAre DEF Active
  <2>3. Flying(l) /\ ~Resumed(l)
    BY <2>2, InCall
  <2>4. ~Load(j)
    BY <1>6, <2>2, <2>3 DEF IInv, Exclusive, OneLoad
  <2>5. phase[m] = "LOADING" \/ (phase[m] = "MISSING" /\ ~Present(m))
    BY <2>2, <2>3 DEF IInv, Shown, LoadShown
  <2>6. QED
    BY <2>1, <2>2, <2>3, <2>4, <2>5 DEF OnDisk, Present
<1>9. LoadShown'
  <2>1. ASSUME NEW i \in Jobs, Load(i), Flying(i)', ~Resumed(i)'
        PROVE  phase'[i[1]] = "LOADING" \/ (phase'[i[1]] = "MISSING" /\ ~Present(i[1]))
    <3>1. /\ i # j /\ i[1] \in Modes /\ Flying(i)
          /\ phase[i[1]] = "LOADING" \/ (phase[i[1]] = "MISSING" /\ ~Present(i[1]))
      BY <1>6, <2>1, JobsAre DEF IInv, Shown, LoadShown
    <3>2. CASE i[1] = m
      <4>1. ~Load(j)
        BY <1>6, <2>1, <3>1, <3>2 DEF IInv, Exclusive, OneLoad
      <4>2. QED
        BY <3>1, <3>2, <4>1 DEF OnDisk, Present
    <3>3. CASE i[1] # m
      BY <3>1, <3>3
    <3>4. QED
      BY <3>2, <3>3
  <2>2. QED
    BY <1>7, <2>1 DEF LoadShown, Load
<1>10. Offers'
  BY <1>8 DEF IInv, Shown, Offers
<1>11. GoneShown'
  <2>1. ASSUME NEW n \in Modes, residentHolder = n, phase'[n] = "MISSING"
        PROVE  ~Present(n) /\ \E i \in Loads(n) \cup {<<n, "release">>} : Flying(i)'
    <3>1. CASE n = m
      BY <1>6, <1>8, <2>1, <3>1, JobsAre
    <3>2. CASE n # m
      <4>1. ~Present(n) /\ \E i \in Loads(n) \cup {<<n, "release">>} : Flying(i)
        BY <2>1, <3>2 DEF IInv, Shown, GoneShown
      <4>2. \A i \in Loads(n) \cup {<<n, "release">>} : i \in Jobs /\ i # j
        BY <3>2, JobsAre
      <4>3. QED
        BY <1>6, <4>1, <4>2
    <3>3. QED
      BY <3>1, <3>2
  <2>2. QED
    BY <1>7, <2>1 DEF GoneShown, Loads
<1>12. ReadyIsLoaded'
  BY DEF IInv, Shown, ReadyIsLoaded, OnDisk
<1>13. QED
  BY <1>5, <1>9, <1>10, <1>11, <1>12 DEF Shown

\* Resume.
LEMMA ResumeStep ==
  ASSUME IInv, Resume
  PROVE  Slot' /\ Shown'
<1> DEFINE j == Head(runq)
<1>1. /\ runq # << >> /\ runq' = Tail(runq) /\ UNCHANGED <<clearing, selected, onDisk>>
      /\ runq \in Seq(Jobs \cup {None}) /\ Once(runq) /\ j \in Jobs \cup {None}
      /\ phase \in [Modes -> {"MISSING", "DOWNLOADED", "LOADING", "READY"}]
  <2>1. runq \in Seq(Jobs \cup {None}) /\ Once(runq) /\ runq # << >>
    BY DEF Resume, IInv, TypeOK, Queued
  <2>2. j \in Jobs \cup {None}
    BY <2>1, Popped
  <2>3. QED
    BY <2>1, <2>2 DEF Resume, IInv, TypeOK, library, activity
<1>2. CASE j = None
  <2>1. UNCHANGED <<residentHolder, residentBusy, releasePhase, releaseWaiters, job, screen, handle, session>>
    BY <1>2 DEF Resume
  <2>2. Once(runq') /\ \A i \in Jobs : In(runq', i) <=> In(runq, i)
    BY <1>1, <1>2, Popped, JobsAre
  <2>3. Slot' /\ \A i \in Jobs : (Flying(i)' <=> Flying(i)) /\ (Resumed(i)' <=> Resumed(i))
    BY <1>1, <2>1, <2>2, SlotAsBefore
  <2>4. \A m \in Modes : phase[m] = "READY" => residentHolder' = m /\ (handle'[m] = None => releasePhase' = "RUNNING")
    BY <2>1 DEF IInv, Shown, ReadyIsLoaded
  <2>5. QED
    BY <1>1, <2>1, <2>3, <2>4, ShownKept DEF screen
<1>3. CASE j # None /\ GoesOn(j)
  <2>1. /\ j \in Jobs /\ j[1] \in Modes /\ In(runq, j) /\ job[j].pc = "wait" /\ job \in [Jobs -> JobState]
    <3>1. j \in Jobs /\ In(runq, j)
      BY <1>1, <1>3, Popped
    <3>2. QED
      BY <3>1, JobsAre DEF IInv, Queued, TypeOK
  <2>2. CASE job[j].then = "acquire" /\ acquireResidency(j, j[1]) /\ UNCHANGED screen
    <3>1. phase' = phase
      BY <2>2 DEF screen
    <3>2. CASE residentHolder \in {None, j[1]}
      BY <1>1, <2>1, <2>2, <3>1, <3>2, GrantStep
    <3>3. CASE residentHolder \notin {None, j[1]}
      <4>1. /\ requestReleaseAndAwait(j, "acquire", residentBusy)
            /\ residentHolder' = residentHolder /\ residentBusy' = residentBusy
        BY <2>2, <3>3 DEF acquireResidency
      <4>2. Asks(j) /\ Acquires(j) /\ Load(j)
        BY <2>1, <2>2, <3>3 DEF Asks, Ready, Acquires, IInv, TypeOK, Shapes
      <4>3. \A i \in Jobs : Active(i) => residentBusy
        BY DEF IInv, Exclusive, CallOwns
      <4>4. Slot' /\ Asked(j)
        BY <1>1, <4>1, <4>2, <4>3, Requests
      <4>5. ScreensFollow
        BY <1>1, <3>1 DEF ScreensFollow, Present
      <4>6. QED
        BY <4>2, <4>4, <4>5, AskShown
    <3>4. QED
      BY <3>2, <3>3
  <2>3. CASE job[j].then = "finish" /\ FinishLoad(j, j[1]) /\ UNCHANGED <<residentHolder, generating>>
    <3>1. Load(j) /\ Resumed(j) /\ Flying(j)
      BY <2>1, <2>3 DEF IInv, Shapes, Resumed, Flying, Orphaned
    <3>2. residentHolder # j[1]
      <4>1. ASSUME residentHolder = j[1] PROVE FALSE
        <5>1. PICK l \in Loads(j[1]) : job[l].pc \in {"init", "inited", "failed"}
          BY <2>1, <3>1, <4>1 DEF IInv, Entitled, Overtaken
        <5>2. l \in Jobs /\ Load(l) /\ l[1] = j[1] /\ l # j /\ Flying(l)
          BY <2>1, <5>1, JobsAre DEF Flying, Orphaned
        <5>3. QED
          BY <2>1, <3>1, <5>2 DEF IInv, Exclusive, OneLoad
      <4>2. QED
        BY <4>1
    <3>3. job' = [job EXCEPT ![j] = Idle] /\ UNCHANGED <<residentBusy, releasePhase, releaseWaiters, handle, session, phase>>
      BY <2>3, <3>2 DEF FinishLoad
    <3>4. QED
      BY <1>1, <2>1, <2>3, <3>3, ResumedEnds
  <2>4. CASE /\ job[j].then = "finishTurn" /\ FinishTurn(j, j[1])
             /\ UNCHANGED <<residentHolder, residentBusy, releasePhase, releaseWaiters, handle, session, phase>>
    BY <1>1, <2>1, <2>4, ResumedEnds DEF FinishTurn
  <2>5. CASE /\ job[j].then \in {"reflect", "back", "done"} /\ job' = [job EXCEPT ![j] = Idle]
             /\ phase' = CASE job[j].then = "reflect" -> Reflect(j[1], selected[j[1]])
                           [] job[j].then = "back" -> [phase EXCEPT ![j[1]] = OnDisk(job[j].key)]
                           [] job[j].then = "done" -> phase
             /\ UNCHANGED <<residentHolder, residentBusy, releasePhase, releaseWaiters, handle, session, generating>>
    <3>1. CASE job[j].then = "reflect"
      <4>1. phase' = Reflect(j[1], selected[j[1]])
        BY <2>5, <3>1
      <4>2. /\ \A n \in Modes : n # j[1] => phase'[n] = phase[n]
            /\ \/ phase'[j[1]] = phase[j[1]]
               \/ phase[j[1]] # "LOADING" /\ phase'[j[1]] = OnDisk(selected[j[1]])
        BY <1>1, <2>1, <4>1 DEF Reflect
      <4>3. QED
        BY <1>1, <2>1, <2>5, <3>1, <4>2, ResumedEnds
    <3>2. CASE job[j].then = "back"
      <4>1. phase' = [phase EXCEPT ![j[1]] = OnDisk(job[j].key)]
        BY <2>5, <3>2
      <4>2. Load(j) /\ phase'[j[1]] \in {"DOWNLOADED", "MISSING"} /\ \A n \in Modes : n # j[1] => phase'[n] = phase[n]
        BY <1>1, <2>1, <3>2, <4>1 DEF OnDisk, IInv, Shapes
      <4>3. QED
        BY <1>1, <2>1, <2>5, <3>2, <4>2, ResumedEnds
    <3>3. CASE job[j].then = "done"
      <4>1. phase' = phase
        BY <2>5, <3>3
      <4>2. QED
        BY <1>1, <2>1, <2>5, <3>3, <4>1, ResumedEnds
    <3>4. QED
      BY <2>5, <3>1, <3>2, <3>3
  <2>6. QED
    BY <1>3, <2>2, <2>3, <2>4, <2>5 DEF GoesOn
<1>4. QED
  BY <1>1, <1>2, <1>3 DEF Resume

-----------------------------------------------------------------------------
(* The end of an activity.                                                 *)

\* An order in which the view models are cleared leaves none out.
LEMMA OrdersAreComplete ==
  ASSUME NEW o \in Orders, NEW m \in Modes
  PROVE  o \in Seq(Modes) /\ In(o, m)
<1> DEFINE N == Cardinality(Modes)
<1>1. N \in Nat /\ IsFiniteSet(Modes)
  BY AppResidencyAssumption, FS_CardinalityType
<1>2. o \in [1 .. N -> Modes] /\ \A a, b \in 1 .. N : a # b => o[a] # o[b]
  BY DEF Orders
<1>3. o \in Injection(1 .. N, Modes)
  BY <1>2 DEF Injection, IsInjective
<1>4. Cardinality(1 .. N) = N
  <2>1. Cardinality(1 .. N) = IF 1 > N THEN 0 ELSE N - 1 + 1
    BY <1>1, FS_Interval
  <2>2. QED
    BY <1>1, <2>1
<1>5. o \in Surjection(1 .. N, Modes)
  BY <1>1, <1>3, <1>4, FS_Injection
<1>6. In(o, m)
  BY <1>2, <1>5 DEF Surjection, In
<1>7. QED
  BY <1>1, <1>2, <1>6

\* FinishActivity: every view model is to be cleared, and at most one load waits for the slot.
LEMMA FinishActivityStep ==
  ASSUME Patient, IInv, NEW o \in Orders, FinishActivity(o)
  PROVE  Slot' /\ Shown'
<1>1. /\ clearing' = o /\ UNCHANGED <<residency, job, screen, handle, session, library>> /\ Main
      /\ \A i, j \in Jobs : i # j /\ Acquires(j) => ~Acquires(i) /\ job[i].pc \notin {"init", "abandon"}
  BY DEF FinishActivity, Patient
<1>2. UNCHANGED <<residentHolder, residentBusy, releasePhase, releaseWaiters, runq, job, handle, session, phase, selected, onDisk>>
  BY <1>1 DEF residency, screen, library
<1>3. clearing = << >> /\ Once(runq') /\ \A i \in Jobs : In(runq', i) <=> In(runq, i)
  BY <1>1, <1>2, Settled DEF IInv, Queued
<1>4. \A m \in Modes : In(clearing', m)
  BY <1>1, OrdersAreComplete
<1>5. Swept'
  BY <1>4 DEF Swept
<1>6. OneWaits'
  BY <1>1, <1>2 DEF OneWaits, Acquires
<1>7. Slot' /\ \A i \in Jobs : (Flying(i)' <=> Flying(i)) /\ (Resumed(i)' <=> Resumed(i))
  BY <1>2, <1>3, <1>5, <1>6, SlotAsBefore
<1>8. \A m \in Modes : phase[m] = "READY" => residentHolder' = m /\ (handle'[m] = None => releasePhase' = "RUNNING")
  BY <1>2 DEF IInv, Shown, ReadyIsLoaded
<1>9. QED
  BY <1>2, <1>7, <1>8, ShownKept

\* OrphanEnds: what a native call of an earlier activity leaves.
LEMMA OrphanEndsStep ==
  ASSUME IInv, NEW j \in Jobs, OrphanEnds(j)
  PROVE  Slot' /\ Shown'
<1>1. /\ Orphaned(j) /\ job \in [Jobs -> JobState]
      /\ session \in [Sessions -> [of : Modes \cup {None}, st : {"none", "loading", "live", "freeing"}]]
      /\ job' = [job EXCEPT ![j] = Idle]
      /\ session' = IF job[j].pc = "orphanCall" THEN session ELSE Gone(job[j].sess)
  BY DEF OrphanEnds, Orphans, Orphaned, IInv, TypeOK
<1>2. /\ job'[j].pc = "idle" /\ \A i \in Jobs : i # j => job'[i] = job[i]
      /\ UNCHANGED <<residentHolder, residentBusy, releasePhase, releaseWaiters, runq, handle, clearing, phase, selected, onDisk>>
  BY <1>1 DEF OrphanEnds, residency, screen, library, activity, Idle
<1>3. /\ \A i \in Jobs : (Active(i)' <=> Active(i)) /\ (Flying(i)' <=> Flying(i)) /\ (Acquires(i)' <=> Acquires(i))
                         /\ (Resumed(i)' <=> Resumed(i)) /\ (Ready(i)' <=> Ready(i)) /\ (Wants(i)' <=> Wants(i))
      /\ \A i \in Jobs : i # j => (Holding(i)' <=> Holding(i)) /\ (Orphaned(i)' <=> Orphaned(i))
      /\ ~Orphaned(j)' /\ ~Holding(j)'
  <2>1. CASE runq' = runq /\ ~In(runq, j)
    BY <1>1, <1>2, <2>1 DEF Active, Holding, Flying, Orphaned, Acquires, Resumed, Ready, Wants
  <2>2. ~In(runq, j)
    BY <1>1 DEF IInv, Queued, Orphaned
  <2>3. QED
    BY <1>2, <2>1, <2>2
<1>4. /\ \A s \in Sessions : session'[s] = session[s] \/ session'[s].st = "none"
      /\ \A s \in Sessions : session[s].st = "live" => session'[s] = session[s]
      /\ Holding(j) => \A s \in Sessions : session'[s].st \notin {"loading", "freeing"}
      /\ ~Holding(j) => session' = session
  <2>1. CASE ~Holding(j)
    <3>1. session' = session
      BY <1>1, <2>1 DEF Gone, Holding, Orphaned
    <3>2. QED
      BY <2>1, <3>1
  <2>2. CASE Holding(j)
    <3>1. /\ job[j].sess \in Sessions /\ session[job[j].sess].st \in {"loading", "freeing"}
          /\ \A t \in Sessions : t # job[j].sess => session[t].st = "none"
      BY <2>2, HoldsWhat DEF IInv, Owned, AtMostOneSession
    <3>2. session' = [session EXCEPT ![job[j].sess] = NoSession]
      BY <1>1, <2>2, <3>1, JobsAre DEF Gone, Holding
    <3>3. session'[job[j].sess].st = "none" /\ \A t \in Sessions : t # job[j].sess => session'[t] = session[t]
      BY <1>1, <3>1, <3>2 DEF NoSession
    <3>4. QED
      BY <2>2, <3>1, <3>3
  <2>3. QED
    BY <2>1, <2>2
<1>5. Shapes' /\ Queued'
  BY <1>1, <1>2 DEF IInv, Shapes, Queued, Load, Orphaned
<1>6. Exclusive'
  <2>1. OneCall' /\ CallOwns' /\ OneLoad'
    BY <1>2, <1>3 DEF IInv, Exclusive, OneCall, CallOwns, OneLoad, Load
  <2>2. FreeAlone' /\ FreeOwns'
    BY <1>2, <1>3 DEF IInv, Exclusive, FreeAlone, FreeOwns
  <2>3. QED
    BY <2>1, <2>2 DEF Exclusive
<1>7. Owned'
  <2>1. AtMostOneSession'
    BY <1>4 DEF IInv, Owned, AtMostOneSession
  <2>2. Handles'
    <3>1. ASSUME NEW m \in Modes, handle[m] # None PROVE session'[handle[m]] = [of |-> m, st |-> "live"]
      <4>1. handle[m] \in Sessions /\ session[handle[m]] = [of |-> m, st |-> "live"]
        BY <3>1 DEF IInv, TypeOK, Owned, Handles
      <4>2. session[handle[m]].st = "live"
        BY <4>1
      <4>3. QED
        BY <1>4, <4>1, <4>2
    <3>2. QED
      BY <1>2, <3>1 DEF Handles
  <2>3. NoSessionLeaks'
    <3>1. ASSUME NEW s \in Sessions, session'[s].st = "live" PROVE session'[s] = session[s]
      BY <1>4, <3>1
    <3>2. QED
      BY <1>2, <3>1 DEF IInv, Owned, NoSessionLeaks
  <2>4. OneHolding' /\ Loading' /\ Leaving'
    <3>1. CASE Holding(j)
      BY <1>2, <1>3, <3>1 DEF IInv, Owned, OneHolding, Loading, Leaving, Holding
    <3>2. CASE ~Holding(j)
      BY <1>2, <1>3, <1>4, <3>2 DEF IInv, Owned, OneHolding, Loading, Leaving
    <3>3. QED
      BY <3>1, <3>2
  <2>5. Called'
    BY <1>2 DEF IInv, Owned, Called
  <2>6. Accounted'
    <3>1. CASE Holding(j)
      BY <1>4, <3>1 DEF IInv, Owned, Accounted
    <3>2. CASE ~Holding(j)
      BY <1>2, <1>3, <1>4, <3>2 DEF IInv, Owned, Accounted
    <3>3. QED
      BY <3>1, <3>2
  <2>7. QED
    BY <2>1, <2>2, <2>3, <2>4, <2>5, <2>6 DEF Owned
<1>8. Entitled'
  <2>1. Foreign' /\ Vacant'
    BY <1>2, <1>3, <1>4 DEF IInv, Entitled, Foreign, Vacant
  <2>2. Overtaken'
    <3>1. \A l \in Jobs : job[l].pc \in {"init", "inited", "failed"} => job'[l].pc = job[l].pc
      BY <1>1, <1>2 DEF Orphaned
    <3>2. QED
      BY <1>2, <1>3, <3>1, JobsAre DEF IInv, Entitled, Overtaken, Loads
  <2>3. QED
    BY <2>1, <2>2 DEF Entitled
<1>9. Cleared'
  <2>1. Orphans' \subseteq Orphans
    BY <1>3 DEF Orphans, Orphaned
  <2>2. Swept'
    BY <1>2, <1>3, <2>1 DEF IInv, Cleared, Swept
  <2>3. OrphanHolds'
    BY <1>2, <1>3 DEF IInv, Cleared, OrphanHolds
  <2>4. OneWaits'
    BY <1>2, <1>3 DEF IInv, Cleared, OneWaits
  <2>5. QED
    BY <2>2, <2>3, <2>4 DEF Cleared
<1>10. Shown'
  BY <1>2, <1>3, ShownKept DEF IInv, Shown, ReadyIsLoaded
<1>11. QED
  BY <1>5, <1>6, <1>7, <1>8, <1>9, <1>10 DEF Slot

\* What becomes of the jobs of a view model that is cleared.
LEMMA Orphaning ==
  ASSUME TypeOK, NEW j \in Jobs, NEW r, r = Orphan(j)
  PROVE  /\ r \in JobState /\ r.pc \in {"idle", "orphanLoad", "orphanFree", "orphanCall"}
         /\ r.pc = "orphanLoad" <=> job[j].pc \in {"init", "orphanLoad"}
         /\ r.pc = "orphanFree" <=> job[j].pc \in {"free", "abandon", "orphanFree"}
         /\ r.pc = "orphanCall" <=> job[j].pc \in {"call", "orphanCall"}
         /\ r.pc # "idle" => r.sess = job[j].sess
<1>1. job[j] \in JobState /\ Idle \in JobState /\ Idle.pc = "idle"
  BY DEF TypeOK, Idle, JobState
<1>2. CASE job[j].pc = "init"
  <2>1. r = [job[j] EXCEPT !.pc = "orphanLoad"]
    BY <1>2 DEF Orphan
  <2>2. QED
    BY <1>1, <1>2, <2>1 DEF JobState
<1>3. CASE job[j].pc \in {"free", "abandon"}
  <2>1. r = [job[j] EXCEPT !.pc = "orphanFree"]
    BY <1>3 DEF Orphan
  <2>2. QED
    BY <1>1, <1>3, <2>1 DEF JobState
<1>4. CASE job[j].pc = "call"
  <2>1. r = [job[j] EXCEPT !.pc = "orphanCall"]
    BY <1>4 DEF Orphan
  <2>2. QED
    BY <1>1, <1>4, <2>1 DEF JobState
<1>5. CASE job[j].pc \in {"orphanLoad", "orphanFree", "orphanCall"}
  <2>1. r = job[j]
    BY <1>5 DEF Orphan
  <2>2. QED
    BY <1>1, <1>5, <2>1
<1>6. CASE job[j].pc \in {"idle", "wait", "inited", "failed", "returned"}
  <2>1. r = Idle
    BY <1>6 DEF Orphan
  <2>2. QED
    BY <1>1, <1>6, <2>1
<1>7. QED
  BY <1>1, <1>2, <1>3, <1>4, <1>5, <1>6 DEF JobState

\* Clear: the view model's session goes, its slot is given up and its jobs are cancelled.
LEMMA ClearStep ==
  ASSUME IInv, Clear
  PROVE  Slot' /\ Shown'
<1> DEFINE m == Head(clearing)
           left == [i \in DOMAIN releaseWaiters |-> IF releaseWaiters[i] \in {m} \X Kinds THEN None ELSE releaseWaiters[i]]
<1>1. /\ m \in Modes /\ m # None /\ clearing # << >> /\ clearing' = Tail(clearing) /\ runq = << >>
      /\ \A n : In(clearing, n) <=> n = m \/ In(Tail(clearing), n)
      /\ job \in [Jobs -> JobState] /\ handle \in [Modes -> Sessions \cup {None}]
      /\ releaseWaiters \in Seq(Jobs \cup {None}) /\ Once(releaseWaiters)
      /\ phase \in [Modes -> {"MISSING", "DOWNLOADED", "LOADING", "READY"}]
      /\ session \in [Sessions -> [of : Modes \cup {None}, st : {"none", "loading", "live", "freeing"}]]
  <2>1. clearing \in Seq(Modes) /\ clearing # << >> /\ runq = << >> /\ clearing' = Tail(clearing)
    BY DEF Clear, IInv, TypeOK
  <2>2. /\ m \in Modes /\ DOMAIN clearing = 1 .. Len(clearing) /\ m = clearing[1] /\ Len(clearing) \in Nat \ {0}
        /\ DOMAIN Tail(clearing) = 1 .. Len(clearing) - 1
        /\ \A i \in 1 .. Len(clearing) - 1 : Tail(clearing)[i] = clearing[i + 1]
    BY <2>1
  <2>3. ASSUME NEW n PROVE In(clearing, n) <=> n = m \/ In(Tail(clearing), n)
    <3>1. ASSUME In(clearing, n), n # m PROVE In(Tail(clearing), n)
      <4>1. PICK i \in 1 .. Len(clearing) : clearing[i] = n
        BY <2>2, <3>1 DEF In
      <4>2. i - 1 \in 1 .. Len(clearing) - 1 /\ Tail(clearing)[i - 1] = n
        BY <2>2, <3>1, <4>1
      <4>3. QED
        BY <2>2, <4>2 DEF In
    <3>2. ASSUME n = m \/ In(Tail(clearing), n) PROVE In(clearing, n)
      BY <2>2, <3>2 DEF In
    <3>3. QED
      BY <3>1, <3>2
  <2>4. QED
    BY <2>1, <2>2, <2>3, JobsAre DEF IInv, TypeOK, Queued
<1>2. \A j \in Jobs : j \in {m} \X Kinds <=> j[1] = m
  BY JobsAre DEF Jobs
<1>3. /\ \A j \in Jobs : j[1] # m => job'[j] = job[j]
      /\ \A j \in Jobs : j[1] = m => job'[j] = Orphan(j)
  BY <1>2 DEF Clear
<1>4. /\ \A j \in Jobs : j[1] = m =>
           /\ job'[j].pc \in {"idle", "orphanLoad", "orphanFree", "orphanCall"}
           /\ job'[j].pc = "orphanLoad" <=> job[j].pc \in {"init", "orphanLoad"}
           /\ job'[j].pc = "orphanFree" <=> job[j].pc \in {"free", "abandon", "orphanFree"}
           /\ job'[j].pc = "orphanCall" <=> job[j].pc \in {"call", "orphanCall"}
           /\ job'[j].pc # "idle" => job'[j].sess = job[j].sess
  BY <1>3, Orphaning DEF IInv
<1>5. /\ \A j \in Jobs : j[1] = m => ~Flying(j)' /\ ~Active(j)' /\ job'[j].pc \notin {"wait", "free"}
      /\ \A j \in Jobs : j[1] # m => (Flying(j)' <=> Flying(j)) /\ (Active(j)' <=> Active(j)) /\ (Orphaned(j)' <=> Orphaned(j))
      /\ \A j \in Jobs : Holding(j)' <=> Holding(j)
      /\ \A j \in Jobs : Holding(j) => job'[j].sess = job[j].sess
  <2>1. \A j \in Jobs : j[1] = m => ~Flying(j)' /\ ~Active(j)' /\ job'[j].pc \notin {"wait", "free"}
    BY <1>4 DEF Flying, Orphaned, Active
  <2>2. \A j \in Jobs : j[1] # m => (Flying(j)' <=> Flying(j)) /\ (Active(j)' <=> Active(j)) /\ (Orphaned(j)' <=> Orphaned(j))
    BY <1>3 DEF Flying, Orphaned, Active
  <2>3. ASSUME NEW j \in Jobs PROVE (Holding(j)' <=> Holding(j)) /\ (Holding(j) => job'[j].sess = job[j].sess)
    <3>1. CASE j[1] # m
      BY <1>3, <3>1 DEF Holding
    <3>2. CASE j[1] = m
      <4>1. job[j].pc = "abandon" => job[j].sess # None
        <5>1. job[j].pc = "abandon" => Holding(j)
          BY DEF Holding
        <5>2. QED
          BY <5>1, HoldsWhat, JobsAre
      <4>2. QED
        BY <1>4, <3>2, <4>1 DEF Holding
    <3>3. QED
      BY <3>1, <3>2
  <2>4. QED
    BY <2>1, <2>2, <2>3
<1>6. /\ residentHolder' = IF residentHolder = m THEN None ELSE residentHolder
      /\ releasePhase = "RUNNING" => releasePhase' = "RUNNING"
      /\ residentHolder # m => residentBusy' = residentBusy /\ releasePhase' = releasePhase
      /\ handle' = [handle EXCEPT ![m] = None] /\ session' = Gone(handle[m])
      /\ phase' = [phase EXCEPT ![m] = OnDisk(selected[m])] /\ UNCHANGED <<selected, onDisk>>
      /\ \/ releaseWaiters' = left /\ runq' = << >>
         \/ releaseWaiters' = << >> /\ runq' = left /\ residentHolder = m /\ releasePhase # "RUNNING"
  BY <1>1 DEF Clear, library
<1>7. /\ Once(releaseWaiters') /\ Once(runq')
      /\ \A i \in Jobs : /\ In(releaseWaiters', i) \/ In(runq', i) <=> In(releaseWaiters, i) /\ i[1] # m
                         /\ ~(In(releaseWaiters', i) /\ In(runq', i))
                         /\ In(runq', i) => residentHolder = m /\ releasePhase # "RUNNING" /\ job[i].pc = "wait" /\ i[1] # m
  <2>1. Once(left) /\ \A i \in Jobs : In(left, i) <=> In(releaseWaiters, i) /\ i[1] # m
    <3> DEFINE mine == {m} \X Kinds
    <3>1. /\ left \in Seq(Jobs \cup {None}) /\ DOMAIN left = DOMAIN releaseWaiters
          /\ \A i \in DOMAIN releaseWaiters :
               left[i] = IF releaseWaiters[i] \in mine THEN None ELSE releaseWaiters[i]
      <4>1. releaseWaiters \in Seq(Jobs \cup {None})
        BY <1>1
      <4>2. DOMAIN left = 1 .. Len(releaseWaiters) /\ DOMAIN left = DOMAIN releaseWaiters
        BY <4>1
      <4>3. \A i \in 1 .. Len(releaseWaiters) : left[i] \in Jobs \cup {None}
        BY <4>1
      <4>4. \A i \in DOMAIN releaseWaiters :
              left[i] = IF releaseWaiters[i] \in mine THEN None ELSE releaseWaiters[i]
        OBVIOUS
      <4>5. left \in Seq(Jobs \cup {None})
        BY <4>1, <4>2, <4>3
      <4>6. QED
        BY <4>2, <4>4, <4>5
    <3>2. \A j \in Jobs : j \in mine <=> j[1] = m
      BY <1>2
    <3> HIDE DEF mine, left
    <3>3. releaseWaiters \in Seq(Jobs \cup {None}) /\ Once(releaseWaiters)
      BY <1>1
    <3>4. Once(left) /\ \A i \in Jobs : In(left, i) <=> In(releaseWaiters, i) /\ i \notin mine
      BY <3>1, <3>3, Struck
    <3>5. QED
      BY <3>2, <3>4
  <2>2. Once(<< >>) /\ \A i \in Jobs : ~In(<< >>, i)
    BY Alone
  <2>3. \A i \in Jobs : In(releaseWaiters, i) => job[i].pc = "wait"
    BY DEF IInv, Queued
  <2> HIDE DEF left
  <2>4. CASE releaseWaiters' = left /\ runq' = << >>
    BY <2>1, <2>2, <2>4
  <2>5. CASE releaseWaiters' = << >> /\ runq' = left /\ residentHolder = m /\ releasePhase # "RUNNING"
    BY <2>1, <2>2, <2>3, <2>5
  <2>6. QED
    BY <1>6, <2>4, <2>5
<1>8. \A n \in Modes : handle[n] # None => /\ handle[n] \in Sessions /\ session[handle[n]] = [of |-> n, st |-> "live"]
                                           /\ session[handle[n]].st = "live" /\ residentHolder = n
  <2>1. ASSUME NEW n \in Modes, handle[n] # None
        PROVE  /\ handle[n] \in Sessions /\ session[handle[n]] = [of |-> n, st |-> "live"]
               /\ session[handle[n]].st = "live" /\ residentHolder = n
    <3>1. handle[n] \in Sessions /\ session[handle[n]] = [of |-> n, st |-> "live"]
      BY <1>1, <2>1 DEF IInv, Owned, Handles
    <3>2. session[handle[n]].st = "live" /\ session[handle[n]].of = n
      BY <3>1
    <3>3. QED
      BY <3>1, <3>2 DEF IInv, Owned, NoSessionLeaks
  <2>2. QED
    BY <2>1
<1>9. /\ residentHolder # m => session' = session /\ handle' = handle
      /\ residentHolder = m => \A s \in Sessions : session'[s].st # "live"
      /\ residentHolder = m => \A n \in Modes : handle'[n] = None
      /\ handle'[m] = None /\ \A n \in Modes : handle'[n] = None \/ handle'[n] = handle[n]
      /\ \A s \in Sessions : session[s].st # "live" => session'[s] = session[s]
      /\ \A s \in Sessions : session'[s] = session[s] \/ session'[s].st = "none"
  <2>1. CASE handle[m] = None
    <3>1. session' = session /\ handle' = handle
      BY <1>1, <1>6, <2>1 DEF Gone
    <3>2. residentHolder = m => \A s \in Sessions : session[s].st # "live"
      BY <2>1, JobsAre DEF IInv, Owned, NoSessionLeaks
    <3>3. residentHolder = m => \A n \in Modes : handle[n] = None
      BY <1>8, <2>1
    <3>4. QED
      BY <2>1, <3>1, <3>2, <3>3
  <2>2. CASE handle[m] # None
    <3>1. residentHolder = m /\ handle[m] \in Sessions /\ session[handle[m]].st = "live"
      BY <1>1, <1>8, <2>2
    <3>2. session'[handle[m]].st = "none" /\ \A s \in Sessions : s # handle[m] => session'[s] = session[s]
      BY <1>1, <1>6, <2>2, <3>1 DEF Gone, NoSession
    <3>3. \A s \in Sessions : s # handle[m] => session[s].st = "none"
      BY <3>1 DEF IInv, Owned, AtMostOneSession
    <3>4. handle'[m] = None /\ \A n \in Modes : n # m => handle'[n] = handle[n]
      BY <1>1, <1>6
    <3>5. \A n \in Modes : n # m => handle[n] = None
      BY <1>8, <3>1
    <3>6. QED
      BY <3>1, <3>2, <3>3, <3>4, <3>5
  <2>3. QED
    BY <2>1, <2>2
<1>10. Shapes'
  BY <1>3, <1>4 DEF IInv, Shapes, Load
<1>11. Queued'
  <2>1. \A j \in Jobs : job'[j].pc = "wait" <=> In(releaseWaiters', j) \/ In(runq', j)
    BY <1>1, <1>3, <1>5, <1>7, Alone DEF IInv, Queued
  <2>2. QED
    BY <1>7, <2>1 DEF Queued
<1>12. Exclusive'
  <2>1. \A j \in Jobs : Active(j)' => Active(j) /\ j[1] # m /\ residentHolder = j[1]
    BY <1>5 DEF IInv, Exclusive, CallOwns
  <2>2. OneCall' /\ CallOwns'
    BY <1>6, <2>1 DEF IInv, Exclusive, OneCall, CallOwns
  <2>3. \A j \in Jobs : job'[j].pc = "free" => j[1] # m /\ job'[j] = job[j]
    BY <1>3, <1>5
  <2>4. FreeAlone'
    BY <2>1, <2>3 DEF IInv, Exclusive, FreeAlone
  <2>5. FreeOwns'
    <3>1. ASSUME NEW j \in Jobs, job'[j].pc = "free"
          PROVE  /\ releasePhase' = "RUNNING" /\ job'[j].of \in Modes /\ handle'[job'[j].of] = None
                 /\ residentHolder' = job'[j].of \/ (residentHolder' = None /\ clearing' # <<>>)
      <4>1. /\ j[1] # m /\ job'[j] = job[j] /\ releasePhase = "RUNNING" /\ job[j].of \in Modes /\ handle[job[j].of] = None
            /\ residentHolder = job[j].of \/ residentHolder = None
        BY <2>3, <3>1 DEF IInv, Exclusive, FreeOwns
      <4>2. Flying(j) /\ j[1] \in Modes
        BY <2>3, <3>1, JobsAre DEF Flying, Orphaned
      <4>3. In(clearing, j[1])
        BY <1>1, <4>2 DEF IInv, Cleared, Swept
      <4>4. In(clearing', j[1])
        BY <1>1, <4>1, <4>3
      <4>5. clearing' # << >>
        BY <4>4, Alone
      <4>6. QED
        BY <1>6, <1>9, <4>1, <4>5
    <3>2. QED
      BY <3>1 DEF FreeOwns
  <2>6. OneLoad'
    BY <1>5 DEF IInv, Exclusive, OneLoad, Load
  <2>7. QED
    BY <2>2, <2>4, <2>5, <2>6 DEF Exclusive
<1>13. Owned'
  <2>1. AtMostOneSession'
    BY <1>9 DEF IInv, Owned, AtMostOneSession
  <2>2. OneHolding'
    BY <1>5 DEF IInv, Owned, OneHolding
  <2>3. \A j \in Jobs : Holding(j) => /\ job[j].sess \in Sessions /\ session'[job[j].sess] = session[job[j].sess]
    BY <1>9, HoldsWhat
  <2>4. Loading'
    <3>1. ASSUME NEW j \in Jobs, job'[j].pc = "init"
          PROVE  job'[j].sess \in Sessions /\ session'[job'[j].sess] = [of |-> j[1], st |-> "loading"]
      <4>1. job'[j] = job[j] /\ job[j].pc = "init" /\ Holding(j)
        BY <1>3, <1>4, <3>1 DEF Holding
      <4>2. QED
        BY <2>3, <4>1 DEF IInv, Owned, Loading
    <3>2. ASSUME NEW j \in Jobs, job'[j].pc = "orphanLoad"
          PROVE  job'[j].sess \in Sessions /\ session'[job'[j].sess].st = "loading"
      <4>1. job[j].pc \in {"init", "orphanLoad"} /\ Holding(j) /\ job'[j].sess = job[j].sess
        BY <1>3, <1>4, <3>2 DEF Holding
      <4>2. session[job[j].sess].st = "loading"
        <5>1. CASE job[j].pc = "init"
          <6>1. session[job[j].sess] = [of |-> j[1], st |-> "loading"]
            BY <5>1 DEF IInv, Owned, Loading
          <6>2. QED
            BY <6>1
        <5>2. CASE job[j].pc = "orphanLoad"
          BY <5>2 DEF IInv, Owned, Loading
        <5>3. QED
          BY <4>1, <5>1, <5>2
      <4>3. QED
        BY <2>3, <4>1, <4>2
    <3>3. QED
      BY <3>1, <3>2 DEF Loading
  <2>5. Leaving'
    <3>1. ASSUME NEW j \in Jobs, job'[j].pc \in {"free", "abandon", "orphanFree"}, Holding(j)'
          PROVE  job'[j].sess \in Sessions /\ session'[job'[j].sess].st = "freeing"
      <4>1. job[j].pc \in {"free", "abandon", "orphanFree"} /\ Holding(j) /\ job'[j].sess = job[j].sess
        BY <1>3, <1>4, <1>5, <3>1
      <4>2. session[job[j].sess].st = "freeing"
        BY <4>1 DEF IInv, Owned, Leaving
      <4>3. QED
        BY <2>3, <4>1, <4>2
    <3>2. QED
      BY <3>1 DEF Leaving
  <2>6. Called'
    <3>1. ASSUME NEW j \in Jobs, job'[j].pc \in {"inited", "call"}
          PROVE  job'[j].sess # None /\ job'[j].sess = handle'[j[1]]
      <4>1. j[1] # m /\ job'[j] = job[j] /\ Active(j)
        BY <1>3, <1>4, <3>1 DEF Active
      <4>2. residentHolder # m
        BY <4>1 DEF IInv, Exclusive, CallOwns
      <4>3. QED
        BY <1>9, <3>1, <4>1, <4>2 DEF IInv, Owned, Called
    <3>2. QED
      BY <3>1 DEF Called
  <2>7. Handles' /\ NoSessionLeaks'
    BY <1>6, <1>9 DEF IInv, Owned, Handles, NoSessionLeaks
  <2>8. Accounted'
    BY <1>5, <1>9 DEF IInv, Owned, Accounted
  <2>9. QED
    BY <2>1, <2>2, <2>4, <2>5, <2>6, <2>7, <2>8 DEF Owned
<1>14. Entitled'
  <2>1. Foreign'
    <3>1. \A j \in Jobs : Wants(j)' => Wants(j)
      BY <1>3, <1>5 DEF Wants
    <3>2. QED
      BY <1>6, <3>1, JobsAre DEF IInv, Entitled, Foreign
  <2>2. Vacant'
    <3>1. ASSUME NEW j \in Jobs, Ready(j)'
          PROVE  (\A s \in Sessions : session'[s].st = "none") /\ \A i \in Jobs : job'[i].pc # "free"
      <4>1. residentHolder = m /\ releasePhase # "RUNNING" /\ job[j].pc = "wait" /\ j[1] # m
        BY <1>7, <3>1 DEF Ready
      <4>2. Acquires(j)
        BY <1>3, <3>1, <4>1 DEF Acquires, Ready
      <4>3. \A i \in Jobs : i # j => job[i].pc \notin {"init", "abandon"}
        BY <1>1, <4>2 DEF IInv, Cleared, OneWaits
      <4>4. \A i \in Jobs : job[i].pc # "free"
        BY <4>1 DEF IInv, Exclusive, FreeOwns
      <4>5. \A i \in Jobs : ~(Orphaned(i) /\ Holding(i))
        BY <1>1, <4>1 DEF IInv, Cleared, OrphanHolds
      <4>6. \A i \in Jobs : ~Holding(i)
        BY <4>1, <4>3, <4>4, <4>5 DEF Holding, Orphaned
      <4>7. \A s \in Sessions : session[s].st \notin {"loading", "freeing"}
        BY <4>6 DEF IInv, Owned, Accounted
      <4>8. \A s \in Sessions : session[s].st \in {"none", "live"}
        BY <1>1, <4>7
      <4>9. \A i \in Jobs : job'[i].pc # "free"
        BY <1>3, <1>5, <4>4
      <4>10. QED
        BY <1>9, <4>1, <4>8, <4>9
    <3>2. QED
      BY <3>1 DEF Vacant
  <2>3. Overtaken'
    <3>1. \A j \in Jobs : Resumed(j)' => residentHolder' # j[1]
      BY <1>6, <1>7, JobsAre DEF Resumed
    <3>2. QED
      BY <3>1 DEF Overtaken
  <2>4. QED
    BY <2>1, <2>2, <2>3 DEF Entitled
<1>15. Cleared'
  <2>1. Swept'
    <3>1. ASSUME NEW n \in Modes, ~In(clearing', n)
          PROVE  residentHolder' # n /\ handle'[n] = None /\ \A j \in Jobs : j[1] = n => ~Flying(j)'
      <4>1. CASE n = m
        BY <1>1, <1>5, <1>6, <1>9, <4>1
      <4>2. CASE n # m
        <5>1. ~In(clearing, n)
          BY <1>1, <3>1, <4>2
        <5>2. residentHolder # n /\ handle[n] = None /\ \A j \in Jobs : j[1] = n => ~Flying(j)
          BY <1>1, <5>1 DEF IInv, Cleared, Swept
        <5>3. QED
          BY <1>5, <1>6, <1>9, <4>2, <5>2, JobsAre
      <4>3. QED
        BY <4>1, <4>2
    <3>2. QED
      BY <3>1 DEF Swept
  <2>2. OrphanHolds'
    <3>1. ASSUME NEW j \in Jobs, Orphaned(j)', Holding(j)', residentHolder' # None
          PROVE  job'[j].pc = "orphanFree" /\ releasePhase' = "RUNNING"
      <4>1. residentHolder # m /\ residentHolder' = residentHolder /\ Holding(j) /\ releasePhase' = releasePhase
        BY <1>5, <1>6, <3>1
      <4>2. CASE j[1] # m
        BY <1>3, <1>5, <3>1, <4>1, <4>2 DEF IInv, Cleared, OrphanHolds
      <4>3. CASE j[1] = m
        <5>1. ~Active(j)
          BY <4>1, <4>3 DEF IInv, Exclusive, CallOwns
        <5>2. CASE Orphaned(j)
          BY <1>4, <3>1, <4>1, <4>3, <5>2 DEF IInv, Cleared, OrphanHolds
        <5>3. CASE ~Orphaned(j)
          <6>1. job[j].pc = "free"
            BY <4>1, <5>1, <5>3 DEF Holding, Active, Orphaned
          <6>2. QED
            BY <1>4, <4>1, <4>3, <6>1 DEF IInv, Exclusive, FreeOwns
        <5>4. QED
          BY <5>2, <5>3
      <4>4. QED
        BY <4>2, <4>3
    <3>2. QED
      BY <3>1 DEF OrphanHolds
  <2>3. OneWaits'
    <3>1. \A j \in Jobs : Acquires(j)' => Acquires(j)
      BY <1>3, <1>5 DEF Acquires
    <3>2. \A j \in Jobs : job'[j].pc \in {"init", "abandon"} => job[j].pc = job'[j].pc
      BY <1>3, <1>4
    <3>3. QED
      BY <1>1, <3>1, <3>2 DEF IInv, Cleared, OneWaits
  <2>4. QED
    BY <2>1, <2>2, <2>3 DEF Cleared
<1>16. Shown'
  <2>1. \A n \in Modes : n # m => phase'[n] = phase[n]
    BY <1>6
  <2>2. phase'[m] \in {"DOWNLOADED", "MISSING"}
    BY <1>1, <1>6 DEF OnDisk
  <2>3. \A n : Present(n)' <=> Present(n)
    BY <1>6 DEF Present
  <2>4. LoadShown'
    <3>1. ASSUME NEW i \in Jobs, Load(i), Flying(i)'
          PROVE  phase'[i[1]] = "LOADING" \/ (phase'[i[1]] = "MISSING" /\ ~Present(i[1])')
      <4>1. i[1] # m /\ i[1] \in Modes /\ Flying(i) /\ ~Resumed(i)
        BY <1>1, <1>5, <3>1, JobsAre, Alone DEF Resumed
      <4>2. QED
        BY <2>1, <2>3, <3>1, <4>1 DEF IInv, Shown, LoadShown
    <3>2. QED
      BY <3>1 DEF LoadShown, Load
  <2>5. Offers'
    BY <1>1, <1>6, <2>1, JobsAre DEF IInv, Shown, Offers
  <2>6. GoneShown'
    <3>1. ASSUME NEW n \in Modes, residentHolder' = n, phase'[n] = "MISSING"
          PROVE  ~Present(n)' /\ \E i \in Loads(n) \cup {<<n, "release">>} : Flying(i)'
      <4>1. n # m /\ residentHolder = n /\ phase[n] = "MISSING"
        BY <1>1, <1>6, <2>1, <3>1, JobsAre
      <4>2. ~Present(n) /\ \E i \in Loads(n) \cup {<<n, "release">>} : Flying(i)
        BY <4>1 DEF IInv, Shown, GoneShown
      <4>3. \A i \in Loads(n) \cup {<<n, "release">>} : i \in Jobs /\ i[1] = n
        BY <3>1, JobsAre
      <4>4. QED
        BY <1>5, <2>3, <4>1, <4>2, <4>3
    <3>2. QED
      BY <3>1 DEF GoneShown, Loads
  <2>7. ReadyIsLoaded'
    <3>1. ASSUME NEW n \in Modes, phase'[n] = "READY"
          PROVE  residentHolder' = n /\ (handle'[n] = None => releasePhase' = "RUNNING")
      <4>1. n # m /\ residentHolder = n /\ (handle[n] = None => releasePhase = "RUNNING")
        BY <2>1, <2>2, <3>1 DEF IInv, Shown, ReadyIsLoaded
      <4>2. QED
        BY <1>6, <1>9, <4>1
    <3>2. QED
      BY <3>1 DEF ReadyIsLoaded
  <2>8. QED
    BY <2>4, <2>5, <2>6, <2>7 DEF Shown
<1>17. QED
  BY <1>10, <1>11, <1>12, <1>13, <1>14, <1>15, <1>16 DEF Slot

-----------------------------------------------------------------------------
(* Types.                                                                  *)

SessionState == [of : Modes \cup {None}, st : {"none", "loading", "live", "freeing"}]
Screens      == [Modes -> {"MISSING", "DOWNLOADED", "LOADING", "READY"}]

\* The steps of a native session.
LEMMA SessionsTyped ==
  ASSUME TypeOK, NEW s \in Sessions \cup {None}
  PROVE  /\ Gone(s) \in [Sessions -> SessionState]
         /\ s # None => Freeing(s) \in [Sessions -> SessionState]
         /\ s # None => [session EXCEPT ![s].st = "live"] \in [Sessions -> SessionState]
<1>1. session \in [Sessions -> SessionState]
  BY DEF TypeOK, SessionState
<1>2. NoSession \in SessionState
  BY DEF NoSession, SessionState
<1>3. Gone(s) \in [Sessions -> SessionState]
  BY <1>1, <1>2 DEF Gone
<1>4. ASSUME s # None
      PROVE  /\ Freeing(s) \in [Sessions -> SessionState]
             /\ [session EXCEPT ![s].st = "live"] \in [Sessions -> SessionState]
  <2>1. s \in Sessions /\ session[s] \in SessionState
    BY <1>1, <1>4
  <2>2. /\ [session[s] EXCEPT !.st = "freeing"] \in SessionState
        /\ [session[s] EXCEPT !.st = "live"] \in SessionState
    BY <2>1 DEF SessionState
  <2>3. QED
    BY <1>1, <2>1, <2>2 DEF Freeing
<1>5. QED
  BY <1>3, <1>4

\* requestReleaseAndAwait and releaseResidentNow.
LEMMA RequestTyped ==
  ASSUME TypeOK, NEW j \in Jobs, residentHolder \in Modes,
         NEW then \in {"acquire", "finish", "finishTurn", "reflect", "back", "done"}, NEW busy,
         requestReleaseAndAwait(j, then, busy) \/ (releaseResidentNow(j, then) /\ UNCHANGED releaseWaiters)
  PROVE  /\ releasePhase' \in {"NONE", "REQUESTED", "RUNNING"} /\ releaseWaiters' \in Seq(Jobs \cup {None})
         /\ job' \in [Jobs -> JobState] /\ handle' \in [Modes -> Sessions \cup {None}]
         /\ session' \in [Sessions -> SessionState]
<1>1. /\ job \in [Jobs -> JobState] /\ job[j] \in JobState /\ handle \in [Modes -> Sessions \cup {None}]
      /\ handle[residentHolder] \in Sessions \cup {None} /\ session \in [Sessions -> SessionState]
      /\ releaseWaiters \in Seq(Jobs \cup {None}) /\ releasePhase \in {"NONE", "REQUESTED", "RUNNING"}
  BY DEF TypeOK, SessionState
<1>2. CASE releaseResidentNow(j, then) /\ UNCHANGED releaseWaiters
  <2>1. job' \in [Jobs -> JobState]
    BY <1>2, ReleaseMoves DEF Moves
  <2>2. session' \in [Sessions -> SessionState]
    BY <1>1, <1>2, SessionsTyped DEF releaseResidentNow
  <2>3. QED
    BY <1>1, <1>2, <2>1, <2>2 DEF releaseResidentNow
<1>3. CASE /\ releasePhase' = IF releasePhase = "NONE" THEN "REQUESTED" ELSE releasePhase
           /\ releaseWaiters' = Append(releaseWaiters, j)
           /\ job' = [job EXCEPT ![j].pc = "wait", ![j].then = then]
           /\ UNCHANGED <<handle, session>>
  <2> DEFINE r == [job[j] EXCEPT !.pc = "wait", !.then = then]
  <2>1. r \in JobState
    BY <1>1 DEF JobState
  <2>2. job' = [job EXCEPT ![j] = r]
    BY <1>1, <1>3
  <2>3. QED
    BY <1>1, <1>3, <2>1, <2>2
<1>4. QED
  BY <1>2, <1>3 DEF requestReleaseAndAwait

\* dropResidency.
LEMMA DropTyped ==
  ASSUME TypeOK, NEW m \in Modes, NEW j \in Jobs, dropResidency(m, <<j>>)
  PROVE  /\ residentHolder' \in Modes \cup {None} /\ residentBusy' \in BOOLEAN
         /\ releasePhase' \in {"NONE", "REQUESTED", "RUNNING"}
         /\ releaseWaiters' \in Seq(Jobs \cup {None}) /\ runq' \in Seq(Jobs \cup {None})
<1>1. releaseWaiters \in Seq(Jobs \cup {None})
  BY DEF TypeOK
<1>2. /\ releaseWaiters \o <<j>> \in Seq(Jobs \cup {None}) /\ <<j>> \in Seq(Jobs \cup {None})
      /\ << >> \in Seq(Jobs \cup {None})
  BY <1>1
<1>3. residentHolder \in Modes \cup {None} /\ residentBusy \in BOOLEAN /\ releasePhase \in {"NONE", "REQUESTED", "RUNNING"}
  BY DEF TypeOK
<1>4. QED
  BY <1>1, <1>2, <1>3 DEF dropResidency

\* CollectKey.
LEMMA CollectKeyTyped ==
  ASSUME TypeOK, NEW m \in Modes, CollectKey(m), selected' \in [Modes -> Keys]
  PROVE  TypeOK'
<1> DEFINE j == <<m, "switch">>
<1>1. /\ seenKey' \in [Modes -> Keys] /\ UNCHANGED <<runq, generating, seenPresent, onDisk, clearing, clears>>
  BY DEF CollectKey, TypeOK, activity
<1>2. CASE releaseResidentModel(j, m, "reflect") /\ UNCHANGED phase
  <2>1. /\ residentHolder = m /\ requestReleaseAndAwait(j, "reflect", residentBusy)
        /\ UNCHANGED <<residentHolder, residentBusy>>
    BY <1>2 DEF releaseResidentModel
  <2>2. j \in Jobs
    BY JobsAre DEF Kinds
  <2>3. /\ releasePhase' \in {"NONE", "REQUESTED", "RUNNING"} /\ releaseWaiters' \in Seq(Jobs \cup {None})
        /\ job' \in [Jobs -> JobState] /\ handle' \in [Modes -> Sessions \cup {None}]
        /\ session' \in [Sessions -> SessionState]
    BY <2>1, <2>2, RequestTyped
  <2>4. QED
    BY <1>1, <1>2, <2>1, <2>3 DEF TypeOK, SessionState
<1>3. CASE /\ phase' = Reflect(m, selected'[m])
           /\ UNCHANGED <<residentHolder, residentBusy, releasePhase, releaseWaiters, job, handle, session>>
  <2>1. phase' \in Screens
    BY <1>3 DEF Reflect, OnDisk, TypeOK, Screens
  <2>2. QED
    BY <1>1, <1>3, <2>1 DEF TypeOK, Screens
<1>4. QED
  BY <1>2, <1>3 DEF CollectKey

\* What the user does.
LEMMA UserTyped ==
  ASSUME IInv, User
  PROVE  TypeOK' /\ Chosen'
<1> USE DEF IInv
<1>1. ASSUME NEW m \in Modes, NEW j \in Loads(m), LoadModel(m, j) PROVE TypeOK' /\ Chosen'
  <2>1. j \in Jobs
    BY JobsAre
  <2>2. [Idle EXCEPT !.pc = "wait", !.then = "acquire", !.key = selected[m]] \in JobState
    BY DEF Idle, JobState, TypeOK
  <2>3. job' \in [Jobs -> JobState]
    BY <1>1, <2>1, <2>2 DEF LoadModel, TypeOK
  <2>4. runq' \in Seq(Jobs \cup {None})
    BY <1>1, <2>1 DEF LoadModel
  <2>5. phase' \in Screens
    BY <1>1 DEF LoadModel, TypeOK, Screens
  <2>6. QED
    BY <1>1, <2>3, <2>4, <2>5 DEF LoadModel, TypeOK, Screens, library, followed, activity, Chosen
<1>2. ASSUME NEW m \in Modes, StartTurn(m) PROVE TypeOK' /\ Chosen'
  <2> DEFINE j == <<m, "turn">>
             r == [job[j] EXCEPT !.pc = "call", !.sess = handle[m]]
  <2>1. j \in Jobs
    BY JobsAre DEF Kinds
  <2>2. r \in JobState
    <3>1. job[j] \in JobState /\ handle[m] \in Sessions \cup {None}
      BY <2>1 DEF TypeOK
    <3>2. QED
      BY <3>1 DEF JobState
  <2>3. job' \in [Jobs -> JobState]
    <3>1. job' = [job EXCEPT ![j] = r]
      BY <1>2, <2>1 DEF StartTurn, TypeOK
    <3>2. QED
      BY <2>1, <2>2, <3>1 DEF TypeOK
  <2>4. QED
    BY <1>2, <2>3 DEF StartTurn, TypeOK, library, followed, activity, Chosen
<1>3. ASSUME NEW m \in Modes, Unload(m) PROVE TypeOK' /\ Chosen'
  <2>1. /\ residentHolder = m /\ requestReleaseAndAwait(<<m, "release">>, "done", residentBusy)
        /\ UNCHANGED <<residentHolder, residentBusy, runq, screen, library, followed, activity>>
    BY <1>3 DEF Unload, LaunchRelease, releaseResidentModel
  <2>2. <<m, "release">> \in Jobs
    BY JobsAre DEF Kinds
  <2>3. /\ releasePhase' \in {"NONE", "REQUESTED", "RUNNING"} /\ releaseWaiters' \in Seq(Jobs \cup {None})
        /\ job' \in [Jobs -> JobState] /\ handle' \in [Modes -> Sessions \cup {None}]
        /\ session' \in [Sessions -> SessionState]
    BY <2>1, <2>2, RequestTyped
  <2>4. QED
    BY <2>1, <2>3 DEF TypeOK, SessionState, screen, library, followed, activity, Chosen
<1>4. ASSUME NEW k \in Keys, Delete(k) \/ Download(k) PROVE TypeOK' /\ Chosen'
  <2>1. onDisk' \subseteq Keys /\ UNCHANGED <<residency, job, screen, handle, session, selected, followed, activity>>
    BY <1>4 DEF Delete, Download, TypeOK
  <2>2. QED
    BY <2>1 DEF TypeOK, residency, screen, followed, activity, Chosen
<1>5. ASSUME NEW o \in Orders, FinishActivity(o) PROVE TypeOK' /\ Chosen'
  <2>1. clearing' \in Seq(Modes)
    <3>1. Cardinality(Modes) \in Nat
      BY AppResidencyAssumption, FS_CardinalityType
    <3>2. QED
      BY <1>5, <3>1 DEF FinishActivity, Orders
  <2>2. clears' \in 0 .. MaxClears
    BY <1>5, AppResidencyAssumption DEF FinishActivity, TypeOK
  <2>3. QED
    BY <1>5, <2>1, <2>2 DEF FinishActivity, TypeOK, residency, screen, library, followed, Chosen
<1>6. ASSUME NEW m \in Modes, NEW k \in Keys, PickModel(m, k) PROVE TypeOK' /\ Chosen'
  <2>1. selected' \in [Modes -> Keys] /\ selected'[m] = k /\ Chosen'
    BY <1>6 DEF PickModel, TypeOK, Chosen
  <2>2. CASE UNCHANGED <<residency, job, screen, handle, session, onDisk, followed, activity>>
    BY <2>1, <2>2 DEF TypeOK, residency, screen, followed, activity
  <2>3. CASE CollectKey(m)
    BY <2>1, <2>3, CollectKeyTyped
  <2>4. QED
    BY <1>6, <2>2, <2>3 DEF PickModel
<1>7. QED
  BY <1>1, <1>2, <1>3, <1>4, <1>5, <1>6 DEF User

\* FinishLoad.
LEMMA FinishLoadTyped ==
  ASSUME TypeOK, NEW j \in Jobs, FinishLoad(j, j[1])
  PROVE  /\ releasePhase' \in {"NONE", "REQUESTED", "RUNNING"} /\ releaseWaiters' \in Seq(Jobs \cup {None})
         /\ job' \in [Jobs -> JobState] /\ handle' \in [Modes -> Sessions \cup {None}]
         /\ session' \in [Sessions -> SessionState] /\ residentBusy' \in BOOLEAN /\ phase' \in Screens
<1>1. j[1] \in Modes /\ Idle \in JobState
  BY JobsAre DEF Idle, JobState
<1>2. /\ releasePhase \in {"NONE", "REQUESTED", "RUNNING"} /\ releaseWaiters \in Seq(Jobs \cup {None})
      /\ job \in [Jobs -> JobState] /\ handle \in [Modes -> Sessions \cup {None}]
      /\ session \in [Sessions -> SessionState] /\ residentBusy \in BOOLEAN /\ phase \in Screens
  BY DEF TypeOK, SessionState, Screens
<1>3. CASE /\ job' = [job EXCEPT ![j] = Idle] /\ UNCHANGED <<releasePhase, releaseWaiters, handle, session>>
           /\ residentBusy' \in {residentBusy, FALSE} /\ phase' \in {phase, [phase EXCEPT ![j[1]] = "READY"]}
  BY <1>1, <1>2, <1>3 DEF Screens
<1>4. CASE /\ residentHolder = j[1] /\ residentBusy' \in {residentBusy, FALSE}
           /\ requestReleaseAndAwait(j, "done", residentBusy') /\ UNCHANGED phase
  <2>1. residentHolder \in Modes
    BY <1>1, <1>4
  <2>2. /\ releasePhase' \in {"NONE", "REQUESTED", "RUNNING"} /\ releaseWaiters' \in Seq(Jobs \cup {None})
        /\ job' \in [Jobs -> JobState] /\ handle' \in [Modes -> Sessions \cup {None}]
        /\ session' \in [Sessions -> SessionState]
    BY <1>4, <2>1, RequestTyped
  <2>3. QED
    BY <1>2, <1>4, <2>2
<1>5. QED
  BY <1>3, <1>4 DEF FinishLoad

\* What goes on by itself.
LEMMA JobStepTyped ==
  ASSUME IInv, NEW j \in Jobs, JobStep(j)
  PROVE  TypeOK' /\ Chosen'
<1> USE DEF IInv
<1>1. /\ job \in [Jobs -> JobState] /\ job[j] \in JobState /\ j[1] \in Modes
      /\ job[j].sess \in Sessions \cup {None} /\ Idle \in JobState
      /\ handle \in [Modes -> Sessions \cup {None}] /\ session \in [Sessions -> SessionState]
  <2>1. job \in [Jobs -> JobState] /\ job[j] \in JobState /\ j[1] \in Modes
    BY JobsAre DEF TypeOK
  <2>2. job[j].sess \in Sessions \cup {None} /\ Idle \in JobState
    BY <2>1 DEF Idle, JobState
  <2>3. QED
    BY <2>1, <2>2 DEF TypeOK, SessionState
<1>2. CASE FreeDone(j)
  <2>1. [job[j] EXCEPT !.pc = "wait", !.sess = None] \in JobState
    BY <1>1 DEF JobState
  <2>2. job' \in [Jobs -> JobState]
    BY <1>1, <1>2, <2>1 DEF FreeDone
  <2>3. session' \in [Sessions -> SessionState]
    BY <1>1, <1>2, SessionsTyped DEF FreeDone
  <2>4. releaseWaiters' \in Seq(Jobs \cup {None}) /\ runq' \in Seq(Jobs \cup {None})
    BY <1>2 DEF FreeDone, TypeOK
  <2>5. phase' \in Screens /\ generating' \in [Modes -> BOOLEAN]
    BY <1>2 DEF FreeDone, TypeOK, Screens, OnDisk
  <2>6. QED
    BY <1>2, <2>2, <2>3, <2>4, <2>5 DEF FreeDone, TypeOK, SessionState, Screens, library, followed, activity, Chosen
<1>3. CASE InitOk(j)
  <2>1. job[j].sess \in Sessions
    BY <1>3 DEF InitOk, Owned, Loading
  <2>2. [job[j] EXCEPT !.pc = "inited"] \in JobState
    BY <1>1 DEF JobState
  <2>3. job' \in [Jobs -> JobState] /\ handle' \in [Modes -> Sessions \cup {None}]
    BY <1>1, <1>3, <2>1, <2>2 DEF InitOk
  <2>4. session' \in [Sessions -> SessionState]
    BY <1>3, <2>1, SessionsTyped, JobsAre DEF InitOk
  <2>5. QED
    BY <1>3, <2>3, <2>4 DEF InitOk, TypeOK, SessionState, residency, screen, library, followed, activity, Chosen
<1>4. CASE InitFails(j)
  <2>1. job[j].sess \in Sessions /\ job[j].sess # None
    <3>1. job[j].pc = "init"
      BY <1>4 DEF InitFails
    <3>2. job[j].sess \in Sessions
      BY <3>1 DEF Owned, Loading
    <3>3. QED
      BY <3>2, JobsAre
  <2>2. [job[j] EXCEPT !.pc = "failed", !.sess = None] \in JobState
    BY <1>1 DEF JobState
  <2>3. job' \in [Jobs -> JobState]
    BY <1>1, <1>4, <2>2 DEF InitFails
  <2>4. session' \in [Sessions -> SessionState] /\ handle' \in [Modes -> Sessions \cup {None}]
    BY <1>1, <1>4, <2>1, SessionsTyped DEF InitFails
  <2>5. QED
    BY <1>4, <2>3, <2>4 DEF InitFails, TypeOK, SessionState, residency, screen, library, followed, activity, Chosen
<1>5. CASE LoadSettled(j)
  <2>1. CASE SettledIntoRelease(j, j[1], "finish") /\ UNCHANGED phase
    <3>1. /\ residentHolder \in Modes /\ releaseResidentNow(j, "finish") /\ residentBusy' = FALSE
          /\ UNCHANGED <<residentHolder, releaseWaiters>>
      BY <1>1, <2>1 DEF SettledIntoRelease
    <3>2. /\ releasePhase' \in {"NONE", "REQUESTED", "RUNNING"} /\ releaseWaiters' \in Seq(Jobs \cup {None})
          /\ job' \in [Jobs -> JobState] /\ handle' \in [Modes -> Sessions \cup {None}]
          /\ session' \in [Sessions -> SessionState]
      BY <3>1, RequestTyped
    <3>3. QED
      BY <1>5, <2>1, <3>1, <3>2 DEF LoadSettled, TypeOK, SessionState, library, followed, activity, Chosen
  <2>2. CASE FinishLoad(j, j[1]) /\ UNCHANGED residentHolder
    <3>1. /\ releasePhase' \in {"NONE", "REQUESTED", "RUNNING"} /\ releaseWaiters' \in Seq(Jobs \cup {None})
          /\ job' \in [Jobs -> JobState] /\ handle' \in [Modes -> Sessions \cup {None}]
          /\ session' \in [Sessions -> SessionState] /\ residentBusy' \in BOOLEAN /\ phase' \in Screens
      BY <2>2, FinishLoadTyped
    <3>2. QED
      BY <1>5, <2>2, <3>1 DEF LoadSettled, TypeOK, SessionState, Screens, library, followed, activity, Chosen
  <2>3. QED
    BY <1>5, <2>1, <2>2 DEF LoadSettled
<1>6. CASE LoadFailed(j)
  <2> DEFINE h == handle[j[1]]
  <2>1. h \in Sessions \cup {None}
    BY <1>1
  <2>2. CASE h # None
    <3>1. [job[j] EXCEPT !.pc = "abandon", !.sess = h] \in JobState
      BY <1>1, <2>1 DEF JobState
    <3>2. job' \in [Jobs -> JobState] /\ handle' \in [Modes -> Sessions \cup {None}]
      BY <1>1, <1>6, <2>2, <3>1 DEF LoadFailed
    <3>3. session' \in [Sessions -> SessionState]
      BY <1>6, <2>1, <2>2, SessionsTyped DEF LoadFailed
    <3>4. QED
      BY <1>6, <2>2, <3>2, <3>3 DEF LoadFailed, TypeOK, SessionState, residency, screen, library, followed, activity, Chosen
  <2>3. CASE h = None
    <3>1. [job[j] EXCEPT !.pc = "wait", !.then = "back"] \in JobState
      BY <1>1 DEF JobState
    <3>2. job' \in [Jobs -> JobState]
      BY <1>1, <1>6, <2>3, <3>1 DEF LoadFailed
    <3>3. /\ residentHolder' \in Modes \cup {None} /\ residentBusy' \in BOOLEAN
          /\ releasePhase' \in {"NONE", "REQUESTED", "RUNNING"}
          /\ releaseWaiters' \in Seq(Jobs \cup {None}) /\ runq' \in Seq(Jobs \cup {None})
      BY <1>1, <1>6, <2>3, DropTyped DEF LoadFailed
    <3>4. QED
      BY <1>6, <2>3, <3>2, <3>3 DEF LoadFailed, TypeOK, SessionState, screen, library, followed, activity, Chosen
  <2>4. QED
    BY <2>2, <2>3
<1>7. CASE Abandoned(j)
  <2>1. [job[j] EXCEPT !.pc = "wait", !.then = "back", !.sess = None] \in JobState
    BY <1>1 DEF JobState
  <2>2. job' \in [Jobs -> JobState]
    BY <1>1, <1>7, <2>1 DEF Abandoned
  <2>3. /\ residentHolder' \in Modes \cup {None} /\ residentBusy' \in BOOLEAN
        /\ releasePhase' \in {"NONE", "REQUESTED", "RUNNING"}
        /\ releaseWaiters' \in Seq(Jobs \cup {None}) /\ runq' \in Seq(Jobs \cup {None})
    BY <1>1, <1>7, DropTyped DEF Abandoned
  <2>4. session' \in [Sessions -> SessionState]
    BY <1>1, <1>7, SessionsTyped DEF Abandoned
  <2>5. QED
    BY <1>7, <2>2, <2>3, <2>4 DEF Abandoned, TypeOK, SessionState, screen, library, followed, activity, Chosen
<1>8. CASE CallReturns(j)
  <2>1. [job[j] EXCEPT !.pc = "returned"] \in JobState
    BY <1>1 DEF JobState
  <2>2. job' \in [Jobs -> JobState]
    BY <1>1, <1>8, <2>1 DEF CallReturns
  <2>3. QED
    BY <1>8, <2>2 DEF CallReturns, TypeOK, residency, screen, library, followed, activity, Chosen
<1>9. CASE TurnSettled(j)
  <2>1. CASE SettledIntoRelease(j, j[1], "finishTurn") /\ UNCHANGED generating
    <3>1. /\ residentHolder \in Modes /\ releaseResidentNow(j, "finishTurn") /\ residentBusy' = FALSE
          /\ UNCHANGED <<residentHolder, releaseWaiters>>
      BY <1>1, <2>1 DEF SettledIntoRelease
    <3>2. /\ releasePhase' \in {"NONE", "REQUESTED", "RUNNING"} /\ releaseWaiters' \in Seq(Jobs \cup {None})
          /\ job' \in [Jobs -> JobState] /\ handle' \in [Modes -> Sessions \cup {None}]
          /\ session' \in [Sessions -> SessionState]
      BY <3>1, RequestTyped
    <3>3. QED
      BY <1>9, <2>1, <3>1, <3>2 DEF TurnSettled, TypeOK, SessionState, library, followed, activity, Chosen
  <2>2. CASE /\ FinishTurn(j, j[1]) /\ residentBusy' \in {residentBusy, FALSE}
             /\ UNCHANGED <<residentHolder, releasePhase, releaseWaiters, handle, session>>
    <3>1. job' \in [Jobs -> JobState] /\ generating' \in [Modes -> BOOLEAN]
      BY <1>1, <2>2 DEF FinishTurn, TypeOK
    <3>2. QED
      BY <1>9, <2>2, <3>1 DEF TurnSettled, TypeOK, library, followed, activity, Chosen
  <2>3. QED
    BY <1>9, <2>1, <2>2 DEF TurnSettled
<1>10. CASE OrphanEnds(j)
  <2>1. job' \in [Jobs -> JobState]
    BY <1>1, <1>10 DEF OrphanEnds
  <2>2. session' \in [Sessions -> SessionState]
    BY <1>1, <1>10, SessionsTyped DEF OrphanEnds
  <2>3. QED
    BY <1>10, <2>1, <2>2 DEF OrphanEnds, TypeOK, SessionState, residency, screen, library, followed, activity, Chosen
<1>11. QED
  BY <1>2, <1>3, <1>4, <1>5, <1>6, <1>7, <1>8, <1>9, <1>10 DEF JobStep

\* A resumed job.
LEMMA ResumeTyped ==
  ASSUME IInv, Resume
  PROVE  TypeOK' /\ Chosen'
<1> USE DEF IInv
<1> DEFINE j == Head(runq)
<1>1. /\ runq' \in Seq(Jobs \cup {None}) /\ j \in Jobs \cup {None}
      /\ UNCHANGED <<selected, onDisk, seenKey, seenPresent, clearing, clears>>
      /\ job \in [Jobs -> JobState] /\ handle \in [Modes -> Sessions \cup {None}] /\ session \in [Sessions -> SessionState]
      /\ phase \in Screens /\ Idle \in JobState
  <2>1. runq' \in Seq(Jobs \cup {None}) /\ j \in Jobs \cup {None}
    BY Popped DEF Resume, TypeOK, Queued
  <2>2. QED
    BY <2>1 DEF Resume, library, followed, activity, TypeOK, SessionState, Screens, Idle, JobState
<1>2. CASE UNCHANGED <<residentHolder, residentBusy, releasePhase, releaseWaiters, job, screen, handle, session>>
  BY <1>1, <1>2 DEF TypeOK, screen, Chosen
<1>3. CASE j # None /\ GoesOn(j)
  <2>1. j \in Jobs /\ j[1] \in Modes
    BY <1>1, <1>3, JobsAre
  <2>2. CASE job[j].then = "acquire" /\ acquireResidency(j, j[1]) /\ UNCHANGED screen
    <3>1. CASE residentHolder \in {None, j[1]}
      <4> DEFINE c == CHOOSE t \in Sessions : session[t].st = "none"
      <4>1. In(runq, j) /\ job[j].pc = "wait"
        BY <1>3, Popped DEF Resume, TypeOK, Queued
      <4>2. c \in Sessions
        <5>1. residentHolder = None
          BY <2>1, <2>2, <3>1, <4>1 DEF Entitled, Foreign, Wants
        <5>2. \A t \in Sessions : session[t].st = "none"
          BY <2>1, <2>2, <4>1, <5>1 DEF Entitled, Vacant, Ready
        <5>3. QED
          BY <2>1, <5>2, SessionOne
      <4>3. /\ session' = [session EXCEPT ![c] = [of |-> j[1], st |-> "loading"]]
            /\ job' = [job EXCEPT ![j].pc = "init", ![j].sess = c]
            /\ residentHolder' = j[1] /\ residentBusy' = TRUE /\ UNCHANGED <<releasePhase, releaseWaiters, handle>>
        BY <2>2, <3>1 DEF acquireResidency
      <4> HIDE DEF c
      <4>4. [job[j] EXCEPT !.pc = "init", !.sess = c] \in JobState /\ [of |-> j[1], st |-> "loading"] \in SessionState
        BY <1>1, <2>1, <4>2 DEF JobState, SessionState
      <4>5. job' \in [Jobs -> JobState] /\ session' \in [Sessions -> SessionState]
        BY <1>1, <2>1, <4>2, <4>3, <4>4
      <4>6. QED
        BY <1>1, <2>1, <2>2, <4>3, <4>5 DEF TypeOK, SessionState, screen, Chosen
    <3>2. CASE residentHolder \notin {None, j[1]}
      <4>1. /\ residentHolder \in Modes /\ requestReleaseAndAwait(j, "acquire", residentBusy)
            /\ UNCHANGED <<residentHolder, residentBusy>>
        BY <2>2, <3>2 DEF acquireResidency, TypeOK
      <4>2. /\ releasePhase' \in {"NONE", "REQUESTED", "RUNNING"} /\ releaseWaiters' \in Seq(Jobs \cup {None})
            /\ job' \in [Jobs -> JobState] /\ handle' \in [Modes -> Sessions \cup {None}]
            /\ session' \in [Sessions -> SessionState]
        BY <2>1, <4>1, RequestTyped
      <4>3. QED
        BY <1>1, <2>2, <4>1, <4>2 DEF TypeOK, SessionState, screen, Chosen
    <3>3. QED
      BY <3>1, <3>2
  <2>3. CASE FinishLoad(j, j[1]) /\ UNCHANGED <<residentHolder, generating>>
    <3>1. /\ releasePhase' \in {"NONE", "REQUESTED", "RUNNING"} /\ releaseWaiters' \in Seq(Jobs \cup {None})
          /\ job' \in [Jobs -> JobState] /\ handle' \in [Modes -> Sessions \cup {None}]
          /\ session' \in [Sessions -> SessionState] /\ residentBusy' \in BOOLEAN /\ phase' \in Screens
      BY <2>1, <2>3, FinishLoadTyped
    <3>2. QED
      BY <1>1, <2>3, <3>1 DEF TypeOK, SessionState, Screens, Chosen
  <2>4. CASE /\ FinishTurn(j, j[1])
             /\ UNCHANGED <<residentHolder, residentBusy, releasePhase, releaseWaiters, handle, session, phase>>
    <3>1. job' \in [Jobs -> JobState] /\ generating' \in [Modes -> BOOLEAN]
      BY <1>1, <2>1, <2>4 DEF FinishTurn, TypeOK
    <3>2. QED
      BY <1>1, <2>4, <3>1 DEF TypeOK, Chosen
  <2>5. CASE /\ job[j].then \in {"reflect", "back", "done"} /\ job' = [job EXCEPT ![j] = Idle]
             /\ phase' = CASE job[j].then = "reflect" -> Reflect(j[1], selected[j[1]])
                           [] job[j].then = "back" -> [phase EXCEPT ![j[1]] = OnDisk(job[j].key)]
                           [] job[j].then = "done" -> phase
             /\ UNCHANGED <<residentHolder, residentBusy, releasePhase, releaseWaiters, handle, session, generating>>
    <3>1. job' \in [Jobs -> JobState]
      BY <1>1, <2>1, <2>5
    <3>2. Reflect(j[1], selected[j[1]]) \in Screens /\ [phase EXCEPT ![j[1]] = OnDisk(job[j].key)] \in Screens
      BY <1>1 DEF Reflect, OnDisk, Screens
    <3>3. phase' \in Screens
      BY <1>1, <2>5, <3>2
    <3>4. QED
      BY <1>1, <2>5, <3>1, <3>3 DEF TypeOK, Screens, Chosen
  <2>6. QED
    BY <1>3, <2>2, <2>3, <2>4, <2>5 DEF GoesOn
<1>4. QED
  BY <1>2, <1>3 DEF Resume

\* onCleared.
LEMMA ClearTyped ==
  ASSUME IInv, Clear
  PROVE  TypeOK' /\ Chosen'
<1> USE DEF IInv
<1> DEFINE m    == Head(clearing)
           mine == {m} \X Kinds
           left == [i \in DOMAIN releaseWaiters |-> IF releaseWaiters[i] \in mine THEN None ELSE releaseWaiters[i]]
<1>1. /\ m \in Modes /\ clearing' \in Seq(Modes)
      /\ releaseWaiters \in Seq(Jobs \cup {None}) /\ handle[m] \in Sessions \cup {None}
  BY DEF Clear, TypeOK
<1>2. job' \in [Jobs -> JobState]
  <2>1. \A j \in Jobs : Orphan(j) \in JobState /\ job[j] \in JobState
    BY Orphaning DEF TypeOK
  <2>2. job' = [j \in Jobs |-> IF j \in mine THEN Orphan(j) ELSE job[j]]
    BY DEF Clear
  <2>3. QED
    BY <2>1, <2>2
<1>3. left \in Seq(Jobs \cup {None}) /\ << >> \in Seq(Jobs \cup {None})
  BY <1>1
<1>4. /\ residentHolder' \in {residentHolder, None} /\ residentBusy' \in {residentBusy, FALSE}
      /\ releasePhase' \in {releasePhase, "NONE"} /\ releaseWaiters' \in {left, << >>} /\ runq' \in {runq, left}
  BY DEF Clear
<1>5. session' \in [Sessions -> SessionState]
  BY <1>1, SessionsTyped DEF Clear
<1>6. /\ phase' \in Screens /\ generating' \in [Modes -> BOOLEAN] /\ handle' \in [Modes -> Sessions \cup {None}]
      /\ seenKey' \in [Modes -> Keys] /\ seenPresent' \in [Modes -> BOOLEAN]
  BY <1>1 DEF Clear, TypeOK, Screens, OnDisk, Present
<1>7. UNCHANGED <<selected, onDisk, clears>>
  BY DEF Clear, library
<1> HIDE DEF left, mine
<1>8. QED
  BY <1>1, <1>2, <1>3, <1>4, <1>5, <1>6, <1>7 DEF TypeOK, SessionState, Screens, Chosen

\* The collectors.
LEMMA CollectTyped ==
  ASSUME IInv, NEW m \in Modes, Collect(m)
  PROVE  TypeOK' /\ Chosen'
<1> USE DEF IInv
<1>1. CASE CollectPending(m)
  <2>1. CollectKey(m) /\ selected' = selected /\ selected \in [Modes -> Keys]
    BY <1>1 DEF CollectPending, TypeOK
  <2>2. QED
    BY <2>1, CollectKeyTyped DEF Chosen
<1>2. CASE CollectPresence(m)
  <2>1. /\ seenPresent' \in [Modes -> BOOLEAN] /\ phase' \in Screens
        /\ UNCHANGED <<runq, generating, selected, onDisk, seenKey, clearing, clears>>
    <3>1. Present(m) \in BOOLEAN /\ seenPresent' = [seenPresent EXCEPT ![m] = Present(m)]
      BY <1>2 DEF CollectPresence, Present
    <3>2. seenPresent' \in [Modes -> BOOLEAN]
      BY <3>1 DEF TypeOK
    <3>3. \/ phase' = [phase EXCEPT ![m] = IF @ = "MISSING" THEN "DOWNLOADED" ELSE @]
          \/ phase' = [phase EXCEPT ![m] = "MISSING"]
      BY <1>2 DEF CollectPresence
    <3>4. phase' \in Screens
      BY <3>3 DEF TypeOK, Screens
    <3>5. UNCHANGED <<runq, generating, selected, onDisk, seenKey, clearing, clears>>
      BY <1>2 DEF CollectPresence, library, activity
    <3>6. QED
      BY <3>2, <3>4, <3>5
  <2>2. CASE UNCHANGED <<residentHolder, residentBusy, releasePhase, releaseWaiters, job, handle, session>>
    BY <2>1, <2>2 DEF TypeOK, Screens, Chosen
  <2>3. CASE residentHolder = m /\ releaseResidentModel(<<m, "release">>, m, "done")
    <3>1. /\ residentHolder \in Modes /\ requestReleaseAndAwait(<<m, "release">>, "done", residentBusy)
          /\ UNCHANGED <<residentHolder, residentBusy>>
      BY <2>3 DEF releaseResidentModel
    <3>2. <<m, "release">> \in Jobs
      BY JobsAre DEF Kinds
    <3>3. /\ releasePhase' \in {"NONE", "REQUESTED", "RUNNING"} /\ releaseWaiters' \in Seq(Jobs \cup {None})
          /\ job' \in [Jobs -> JobState] /\ handle' \in [Modes -> Sessions \cup {None}]
          /\ session' \in [Sessions -> SessionState]
      BY <3>1, <3>2, RequestTyped
    <3>4. QED
      BY <2>1, <3>1, <3>3 DEF TypeOK, SessionState, Screens, Chosen
  <2>4. QED
    BY <1>2, <2>2, <2>3 DEF CollectPresence, LaunchRelease
<1>3. QED
  BY <1>1, <1>2 DEF Collect

-----------------------------------------------------------------------------
(* The theorems.                                                           *)

\* The app starts with an empty slot and screens that show what is on the device.
LEMMA Starts ==
  ASSUME Init
  PROVE  IInv
<1>1. /\ residentHolder = None /\ residentBusy = FALSE /\ releasePhase = "NONE"
      /\ releaseWaiters = << >> /\ runq = << >> /\ job = [j \in Jobs |-> Idle] /\ clearing = << >>
      /\ \A m \in Modes : handle[m] = None
      /\ \A s \in Sessions : session[s] = NoSession /\ session[s].st = "none"
  BY DEF Init, NoSession
<1>2. \A j \in Jobs : job[j].pc = "idle" /\ job[j].then = "done"
  BY <1>1 DEF Idle
<1>3. \A j \in Jobs : ~Active(j) /\ ~Orphaned(j) /\ ~Flying(j) /\ ~Holding(j) /\ ~Wants(j) /\ ~Acquires(j)
  BY <1>2 DEF Active, Orphaned, Flying, Holding, Wants, Acquires
<1>4. \A j \in Jobs : ~In(runq, j) /\ ~In(releaseWaiters, j) /\ ~Resumed(j) /\ ~Ready(j)
  BY <1>1, Alone DEF Resumed, Ready
<1>5. \A m \in Modes : phase[m] \in {"DOWNLOADED", "MISSING"}
  BY DEF Init, OnDisk
<1>6. TypeOK /\ Chosen
  <2>1. job \in [Jobs -> JobState]
    BY <1>1 DEF Idle, JobState
  <2>2. session \in [Sessions -> [of : Modes \cup {None}, st : {"none", "loading", "live", "freeing"}]]
    BY DEF Init, NoSession
  <2>3. selected \in [Modes -> Keys] /\ Chosen /\ onDisk \subseteq Keys
    BY AppResidencyAssumption DEF Init, Chosen
  <2>4. phase \in [Modes -> {"MISSING", "DOWNLOADED", "LOADING", "READY"}] /\ generating \in [Modes -> BOOLEAN]
    BY DEF Init, OnDisk
  <2>5. handle \in [Modes -> Sessions \cup {None}] /\ seenPresent \in [Modes -> BOOLEAN]
    <3>1. handle = [m \in Modes |-> None] /\ seenPresent = [m \in Modes |-> Present(m)]
      BY DEF Init
    <3>2. \A m \in Modes : Present(m) \in BOOLEAN
      BY DEF Present
    <3>3. [m \in Modes |-> Present(m)] \in [Modes -> BOOLEAN]
      BY <3>2, Zenon
    <3>4. QED
      BY <3>1, <3>3
  <2>6. clears \in 0 .. MaxClears /\ seenKey = selected
    BY AppResidencyAssumption DEF Init
  <2>7. {releaseWaiters, runq} \subseteq Seq(Jobs \cup {None}) /\ clearing \in Seq(Modes)
    BY <1>1
  <2>8. QED
    BY <1>1, <2>1, <2>2, <2>3, <2>4, <2>5, <2>6, <2>7 DEF TypeOK
<1>7. Shapes /\ Queued
  BY <1>1, <1>2, <1>4, Alone DEF Shapes, Queued
<1>8. Exclusive
  BY <1>2, <1>3 DEF Exclusive, OneCall, CallOwns, FreeAlone, FreeOwns, OneLoad
<1>9. Owned
  <2>1. AtMostOneSession /\ Handles /\ NoSessionLeaks /\ Accounted
    BY <1>1 DEF AtMostOneSession, Handles, NoSessionLeaks, Accounted
  <2>2. OneHolding /\ Loading /\ Leaving /\ Called
    BY <1>2, <1>3 DEF OneHolding, Loading, Leaving, Called
  <2>3. QED
    BY <2>1, <2>2 DEF Owned
<1>10. Shown
  BY <1>1, <1>3, <1>5, JobsAre DEF Shown, LoadShown, Offers, GoneShown, ReadyIsLoaded
<1>11. Entitled
  BY <1>3, <1>4 DEF Entitled, Foreign, Vacant, Overtaken
<1>12. Cleared
  <2>1. Orphans = {}
    BY <1>3 DEF Orphans, Orphaned
  <2>2. QED
    BY <1>1, <1>3, <2>1 DEF Cleared, Swept, OrphanHolds, OneWaits
<1>13. QED
  BY <1>6, <1>7, <1>8, <1>9, <1>10, <1>11, <1>12 DEF IInv

\* Every step of the user, of a job, of a collector and of the activity keeps the invariant.
LEMMA Steps ==
  ASSUME Patient, IInv, [Next]_vars
  PROVE  IInv'
<1>1. CASE User
  <2>1. Slot' /\ Shown'
    BY <1>1, LoadModelStep, StartTurnStep, UnloadStep, PickModelStep, LibraryStep, FinishActivityStep DEF User
  <2>2. QED
    BY <1>1, <2>1, UserTyped DEF IInv, Slot
<1>2. CASE Resume
  BY <1>2, ResumeStep, ResumeTyped DEF IInv, Slot
<1>3. CASE Clear
  BY <1>3, ClearStep, ClearTyped DEF IInv, Slot
<1>4. ASSUME NEW j \in Jobs, JobStep(j) PROVE IInv'
  <2>1. Slot' /\ Shown'
    BY <1>4, FreeDoneStep, InitOkStep, InitFailsStep, LoadSettledStep, LoadFailedStep, AbandonedStep,
       CallReturnsStep, TurnSettledStep, OrphanEndsStep DEF JobStep
  <2>2. QED
    BY <1>4, <2>1, JobStepTyped DEF IInv, Slot
<1>5. ASSUME NEW m \in Modes, Collect(m) PROVE IInv'
  <2>1. Slot' /\ Shown'
    BY <1>5, CollectPresenceStep, CollectPendingStep DEF Collect
  <2>2. QED
    BY <1>5, <2>1, CollectTyped DEF IInv, Slot
<1>6. CASE UNCHANGED vars
  <2>1. /\ UNCHANGED <<residency, job, handle, session, clearing>>
        /\ UNCHANGED <<phase, generating, selected, onDisk, seenKey, seenPresent, clears>>
    BY <1>6 DEF vars, screen, library, followed, activity
  <2>2. /\ Slot' /\ residentHolder' = residentHolder /\ releasePhase' = releasePhase /\ handle' = handle
        /\ \A i \in Jobs : (Flying(i)' <=> Flying(i)) /\ (Resumed(i)' <=> Resumed(i))
    BY <2>1, SlotKept
  <2>3. Shown'
    BY <2>1, <2>2, ShownKept DEF IInv, Shown, ReadyIsLoaded
  <2>4. TypeOK' /\ Chosen'
    BY <2>1 DEF IInv, TypeOK, Chosen, residency
  <2>5. QED
    BY <2>2, <2>3, <2>4 DEF IInv, Slot
<1>7. QED
  BY <1>1, <1>2, <1>3, <1>4, <1>5, <1>6 DEF Next

\* The invariant of the model slot: while the user waits for the jobs in flight, whatever loads fail,
\* models come and go, and activities are finished in the middle of it.
THEOREM Invariance == ASSUME Patient PROVE Spec => []IInv
<1>1. Init => IInv
  BY Starts
<1>2. IInv /\ [Next]_vars => IInv'
  BY Steps
<1>3. QED
  BY <1>1, <1>2, PTL DEF Spec

\* The fields of ModelResidency and of the view models have their types.
THEOREM TypeCorrect == ASSUME Patient PROVE Spec => []TypeOK
<1>1. IInv => TypeOK
  BY DEF IInv
<1>2. QED
  BY <1>1, Invariance, PTL

\* ModelResidency.kt:6-9: a load never starts beside a session that is loaded, live or being freed.
THEOREM OneSession == ASSUME Patient PROVE Spec => []AtMostOneSession
<1>1. IInv => AtMostOneSession
  BY DEF IInv, Owned
<1>2. QED
  BY <1>1, Invariance, PTL

\* ModelResidency.kt:13-17: a release waits for the native call of a turn.
THEOREM CallsKeepTheirSession == ASSUME Patient PROVE Spec => []NoFreeDuringCall
<1>1. IInv => NoFreeDuringCall
  <2>1. ASSUME IInv, NEW j \in Jobs, job[j].pc = "call" PROVE session[job[j].sess].st = "live"
    <3>1. j[1] \in Modes /\ job[j].sess = handle[j[1]] /\ handle[j[1]] # None
      BY <2>1, JobsAre DEF IInv, Owned, Called
    <3>2. session[job[j].sess] = [of |-> j[1], st |-> "live"]
      BY <2>1, <3>1 DEF IInv, Owned, Handles
    <3>3. QED
      BY <3>2
  <2>2. QED
    BY <2>1 DEF NoFreeDuringCall
<1>2. QED
  BY <1>1, Invariance, PTL

\* requestReleaseAndAwait, dropResidency and onCleared leave no live session that nobody can free.
THEOREM SessionsAreReachable == ASSUME Patient PROVE Spec => []NoSessionLeaks
<1>1. IInv => NoSessionLeaks
  BY DEF IInv, Owned
<1>2. QED
  BY <1>1, Invariance, PTL

\* A screen in READY, CAMERA or VIEWER has the session it offers.
THEOREM ReadyScreens == ASSUME Patient PROVE Spec => []ReadyIsLoaded
<1>1. IInv => ReadyIsLoaded
  BY DEF IInv, Shown
<1>2. QED
  BY <1>1, Invariance, PTL

-----------------------------------------------------------------------------
(* What a screen tells, for ScreenIsTrue.                                  *)

\* A job that waits for a release with more to do than to load waits for the release of its own mode,
\* and performs no other.
OwnRelease ==
  \A j \in Jobs : job[j].then # "acquire" =>
    /\ In(releaseWaiters, j) => residentHolder = j[1] \/ ReleaseAbandoned
    /\ job[j].pc = "free" => job[j].of = j[1]

\* A screen that shows a load has one that is going on, or gives its model up.
Alight(j) == Flying(j) /\ (Resumed(j) => job[j].then = "back")
LoadingShown ==
  \A m \in Modes : phase[m] = "LOADING" =>
    (\E j \in Loads(m) : Alight(j)) \/ (residentHolder = m /\ releasePhase = "RUNNING")

\* A load is for the chosen model, or both are on the device.
KeyFate ==
  \A j \in Jobs : Load(j) /\ Flying(j) =>
    /\ job[j].key \in Offered[j[1]]
    /\ job[j].key = selected[j[1]] \/ {job[j].key, selected[j[1]]} \subseteq onDisk

\* A screen that is wrong about the device has a collector that will correct it.
Faces ==
  \A m \in Modes :
    /\ phase[m] = "DOWNLOADED" /\ ~Present(m) => seenPresent[m]
    /\ phase[m] = "MISSING" /\ Present(m) => ~seenPresent[m]

Told == OwnRelease /\ LoadingShown /\ KeyFate /\ Faces

\* What a step does with the jobs, the slot and the queues.  Nobody starts to wait, and the slot stays
\* with its owner or goes to job j;
Quietly(j) ==
  /\ \A i \in Jobs : i # j => job'[i] = job[i]
  /\ j \in Jobs =>
       /\ job'[j].pc \notin {"wait", "free"}
       /\ Load(j) /\ Flying(j)' => Flying(j) /\ job'[j].key = job[j].key /\ job'[j].then = job[j].then
       /\ Load(j) /\ Alight(j) /\ ~Flying(j)' => phase'[j[1]] # "LOADING"
  /\ residentHolder' = residentHolder \/ residentHolder = None
  /\ releasePhase' = releasePhase /\ releaseWaiters' = releaseWaiters
  /\ \A i \in Jobs : In(runq', i) => In(runq, i)
\* job j asks for a release, or performs it;
Asking(j) ==
  /\ j \in Jobs /\ \A i \in Jobs : i # j => job'[i] = job[i]
  /\ job'[j].pc \in {"wait", "free"} /\ job'[j].key = job[j].key /\ (Load(j) => Flying(j))
  /\ job'[j].then = "acquire" \/ residentHolder = j[1]
  /\ job'[j].pc = "free" => job'[j].of = residentHolder /\ releasePhase # "RUNNING"
  /\ releasePhase = "RUNNING" => releasePhase' = "RUNNING"
  /\ \A i \in Jobs : In(releaseWaiters', i) => In(releaseWaiters, i) \/ i = j
  /\ \A i \in Jobs : In(runq', i) <=> In(runq, i) /\ i # j
  /\ residentHolder' = residentHolder
\* or the failed load j gives the slot up.
Dropping(j) ==
  /\ j \in Jobs /\ Main /\ Active(j) /\ Load(j) /\ \A i \in Jobs : i # j => job'[i] = job[i]
  /\ job'[j].pc = "wait" /\ job'[j].then = "back" /\ job'[j].key = job[j].key
  /\ dropResidency(j[1], <<j>>)

\* The other steps: a load starts, a release is over, a view model is cleared.
Turning == \/ \E m \in Modes : \E j \in Loads(m) : LoadModel(m, j)
           \/ \E j \in Jobs : FreeDone(j)
           \/ Clear
Kindly  == (\E j : Quietly(j)) \/ (\E j \in Jobs : Asking(j)) \/ (\E j \in Jobs : Dropping(j)) \/ Turning

\* requestReleaseAndAwait, and the release itself.
LEMMA Seeks ==
  ASSUME TypeOK, NEW j \in Jobs, NEW then, NEW busy,
         \/ requestReleaseAndAwait(j, then, busy)
         \/ releaseResidentNow(j, then) /\ releaseWaiters' = releaseWaiters /\ releasePhase # "RUNNING",
         then = "acquire" \/ residentHolder = j[1], Load(j) => Flying(j), residentHolder' = residentHolder,
         \A i \in Jobs : In(runq', i) <=> In(runq, i) /\ i # j
  PROVE  Asking(j)
<1>1. job \in [Jobs -> JobState] /\ releaseWaiters \in Seq(Jobs \cup {None})
  BY DEF TypeOK
<1>2. CASE releaseResidentNow(j, then) /\ releaseWaiters' = releaseWaiters /\ releasePhase # "RUNNING"
  <2>1. job' = [job EXCEPT ![j].pc = "free", ![j].then = then, ![j].sess = handle[residentHolder], ![j].of = residentHolder]
    BY <1>2 DEF releaseResidentNow
  <2>2. /\ \A i \in Jobs : i # j => job'[i] = job[i]
        /\ job'[j].pc = "free" /\ job'[j].then = then /\ job'[j].of = residentHolder /\ job'[j].key = job[j].key
    BY <1>1, <2>1 DEF JobState
  <2>3. QED
    BY <1>2, <2>2 DEF Asking
<1>3. CASE /\ releaseWaiters' = Append(releaseWaiters, j) /\ job' = [job EXCEPT ![j].pc = "wait", ![j].then = then]
           /\ releasePhase = "RUNNING" => releasePhase' = "RUNNING"
  <2>1. \A i \in Jobs : In(releaseWaiters', i) => In(releaseWaiters, i) \/ i = j
    BY <1>1, <1>3 DEF In
  <2>2. /\ \A i \in Jobs : i # j => job'[i] = job[i]
        /\ job'[j].pc = "wait" /\ job'[j].then = then /\ job'[j].key = job[j].key
    BY <1>1, <1>3 DEF JobState
  <2>3. QED
    BY <1>3, <2>1, <2>2 DEF Asking
<1>4. requestReleaseAndAwait(j, then, busy) =>
        \/ releaseResidentNow(j, then) /\ releaseWaiters' = releaseWaiters /\ releasePhase # "RUNNING"
        \/ /\ releaseWaiters' = Append(releaseWaiters, j) /\ job' = [job EXCEPT ![j].pc = "wait", ![j].then = then]
           /\ releasePhase = "RUNNING" => releasePhase' = "RUNNING"
  BY DEF requestReleaseAndAwait
<1>5. QED
  BY <1>2, <1>3, <1>4

\* The steps that leave the jobs alone.
LEMMA Stays ==
  ASSUME job' = job, residentHolder' = residentHolder, releasePhase' = releasePhase,
         releaseWaiters' = releaseWaiters, \A i \in Jobs : In(runq', i) => In(runq, i)
  PROVE  \E j : Quietly(j)
<1>1. Quietly(None)
  BY JobsAre DEF Quietly
<1>2. QED
  BY <1>1

\* What the user does to the jobs.
LEMMA UserKind ==
  ASSUME IInv, User
  PROVE  Kindly
<1>1. job \in [Jobs -> JobState]
  BY DEF IInv, TypeOK
<1>2. ASSUME NEW m \in Modes, StartTurn(m) PROVE Kindly
  <2> DEFINE j == <<m, "turn">>
  <2>1. j \in Jobs /\ ~Load(j)
    BY JobsAre DEF Kinds, Load
  <2>2. job' = [job EXCEPT ![j].pc = "call", ![j].sess = handle[m]]
    BY <1>2 DEF StartTurn
  <2>3. job'[j].pc = "call" /\ \A i \in Jobs : i # j => job'[i] = job[i]
    BY <1>1, <2>1, <2>2 DEF JobState
  <2>4. Quietly(j)
    BY <1>2, <2>1, <2>3 DEF Quietly, StartTurn
  <2>5. QED
    BY <2>4 DEF Kindly
<1>3. ASSUME NEW m \in Modes, NEW k \in {"release", "switch"}, NEW then, releaseResidentModel(<<m, k>>, m, then),
             runq' = runq, job[<<m, k>>].pc = "idle"
      PROVE  Kindly
  <2>1. /\ <<m, k>> \in Jobs /\ ~Load(<<m, k>>) /\ <<m, k>>[1] = m
        /\ \A i \in Jobs : In(runq', i) <=> In(runq, i) /\ i # <<m, k>>
    BY <1>3, JobsAre DEF Kinds, Load, IInv, Queued
  <2>2. Asking(<<m, k>>)
    BY <1>3, <2>1, Seeks DEF releaseResidentModel, IInv
  <2>3. QED
    BY <2>1, <2>2 DEF Kindly
<1>4. ASSUME NEW m \in Modes, Unload(m) PROVE Kindly
  BY <1>3, <1>4 DEF Unload, LaunchRelease
<1>5. ASSUME NEW m \in Modes, NEW k \in Keys, PickModel(m, k) PROVE Kindly
  <2>1. CASE CollectKey(m)
    <3>1. CASE releaseResidentModel(<<m, "switch">>, m, "reflect")
      BY <1>3, <2>1, <3>1 DEF CollectKey
    <3>2. CASE UNCHANGED <<residentHolder, residentBusy, releasePhase, releaseWaiters, job, handle, session>>
      <4>1. \E j : Quietly(j)
        BY <2>1, <3>2, Stays DEF CollectKey
      <4>2. QED
        BY <4>1 DEF Kindly
    <3>3. QED
      BY <2>1, <3>1, <3>2 DEF CollectKey
  <2>2. CASE UNCHANGED <<residency, job, screen, handle, session, onDisk, followed, activity>>
    <3>1. \E j : Quietly(j)
      BY <2>2, Stays DEF residency
    <3>2. QED
      BY <3>1 DEF Kindly
  <2>3. QED
    BY <1>5, <2>1, <2>2 DEF PickModel
<1>6. ASSUME \/ \E k \in Keys : Delete(k) \/ Download(k)
             \/ \E o \in Orders : FinishActivity(o)
      PROVE  Kindly
  <2>1. UNCHANGED <<residency, job>>
    BY <1>6 DEF Delete, Download, FinishActivity
  <2>2. \E j : Quietly(j)
    BY <2>1, Stays DEF residency
  <2>3. QED
    BY <2>2 DEF Kindly
<1>7. ASSUME NEW m \in Modes, NEW j \in Loads(m), LoadModel(m, j) PROVE Kindly
  BY <1>7 DEF Kindly, Turning
<1>8. QED
  BY <1>2, <1>4, <1>5, <1>6, <1>7 DEF User

\* What the native calls and the releases do to the jobs.
LEMMA JobKind ==
  ASSUME IInv, NEW j \in Jobs, JobStep(j)
  PROVE  Kindly
<1>1. /\ job \in [Jobs -> JobState] /\ job[j] \in JobState /\ j[1] \in Modes
      /\ phase \in [Modes -> {"MISSING", "DOWNLOADED", "LOADING", "READY"}]
  BY JobsAre DEF IInv, TypeOK
<1>2. ASSUME NEW pc \in {"inited", "failed", "abandon", "returned"}, NEW s,
             job' = [job EXCEPT ![j].pc = pc] \/ job' = [job EXCEPT ![j].pc = pc, ![j].sess = s],
             job[j].pc \in {"init", "call", "failed"}, UNCHANGED residency
      PROVE  Kindly
  <2>1. /\ job'[j].pc = pc /\ job'[j].then = job[j].then /\ job'[j].key = job[j].key
        /\ \A i \in Jobs : i # j => job'[i] = job[i]
    BY <1>1, <1>2 DEF JobState
  <2>2. Flying(j) /\ Flying(j)'
    BY <1>2, <2>1 DEF Flying, Orphaned
  <2>3. Quietly(j)
    BY <1>2, <2>1, <2>2 DEF Quietly, residency
  <2>4. QED
    BY <2>3 DEF Kindly
<1>3. ASSUME job' = [job EXCEPT ![j] = Idle], UNCHANGED <<residentHolder, releasePhase, releaseWaiters, runq>>,
             Load(j) /\ Alight(j) => phase'[j[1]] # "LOADING"
      PROVE  Kindly
  <2>1. job'[j] = Idle /\ ~Flying(j)' /\ job'[j].pc = "idle" /\ \A i \in Jobs : i # j => job'[i] = job[i]
    BY <1>1, <1>3 DEF Flying, Idle
  <2>2. Quietly(j)
    BY <1>3, <2>1 DEF Quietly
  <2>3. QED
    BY <2>2 DEF Kindly
<1>4. ASSUME Main, NEW then, job[j].pc \in {"inited", "returned"}, runq' = runq, residentHolder' = residentHolder,
             residentHolder = j[1],
             \/ requestReleaseAndAwait(j, then, residentBusy')
             \/ releaseResidentNow(j, then) /\ releaseWaiters' = releaseWaiters /\ releasePhase # "RUNNING"
      PROVE  Kindly
  <2>1. Flying(j) /\ \A i \in Jobs : In(runq', i) <=> In(runq, i) /\ i # j
    BY <1>4 DEF Flying, Orphaned, IInv, Queued
  <2>2. Asking(j)
    BY <1>4, <2>1, Seeks DEF IInv
  <2>3. QED
    BY <2>2 DEF Kindly
<1>5. ASSUME Main, job[j].pc \in {"failed", "abandon"}, dropResidency(j[1], <<j>>), NEW s,
             \/ job' = [job EXCEPT ![j].pc = "wait", ![j].then = "back"]
             \/ job' = [job EXCEPT ![j].pc = "wait", ![j].then = "back", ![j].sess = s]
      PROVE  Kindly
  <2>1. Active(j) /\ Load(j)
    BY <1>5 DEF Active, IInv, Shapes
  <2>2. /\ job'[j].pc = "wait" /\ job'[j].then = "back" /\ job'[j].key = job[j].key
        /\ \A i \in Jobs : i # j => job'[i] = job[i]
    BY <1>1, <1>5 DEF JobState
  <2>3. Dropping(j)
    BY <1>5, <2>1, <2>2 DEF Dropping
  <2>4. QED
    BY <2>3 DEF Kindly
<1>6. ASSUME LoadSettled(j) PROVE Kindly
  <2>1. CASE SettledIntoRelease(j, j[1], "finish")
    BY <1>4, <1>6, <2>1 DEF LoadSettled, SettledIntoRelease
  <2>2. CASE FinishLoad(j, j[1]) /\ UNCHANGED residentHolder
    <3>1. residentHolder = j[1] /\ Active(j)
      BY <1>6, InCall DEF LoadSettled, Active
    <3>2. CASE requestReleaseAndAwait(j, "done", residentBusy')
      BY <1>4, <1>6, <2>2, <3>1, <3>2 DEF LoadSettled
    <3>3. CASE /\ phase' = [phase EXCEPT ![j[1]] = "READY"] /\ job' = [job EXCEPT ![j] = Idle]
               /\ UNCHANGED <<releasePhase, releaseWaiters, handle, session>>
      BY <1>1, <1>3, <1>6, <2>2, <3>3 DEF LoadSettled
    <3>4. QED
      BY <2>2, <3>1, <3>2, <3>3 DEF FinishLoad
  <2>3. QED
    BY <1>6, <2>1, <2>2 DEF LoadSettled
<1>7. ASSUME TurnSettled(j) PROVE Kindly
  <2>1. CASE SettledIntoRelease(j, j[1], "finishTurn")
    BY <1>4, <1>7, <2>1 DEF TurnSettled, SettledIntoRelease
  <2>2. CASE FinishTurn(j, j[1]) /\ UNCHANGED <<residentHolder, releasePhase, releaseWaiters, handle, session>>
    <3>1. ~Load(j)
      BY <1>7 DEF TurnSettled, IInv, Shapes, Load
    <3>2. QED
      BY <1>3, <1>7, <2>2, <3>1 DEF TurnSettled, FinishTurn
  <2>3. QED
    BY <1>7, <2>1, <2>2 DEF TurnSettled
<1>8. ASSUME InitOk(j) \/ InitFails(j) \/ CallReturns(j) PROVE Kindly
  BY <1>2, <1>8 DEF InitOk, InitFails, CallReturns
<1>9. ASSUME LoadFailed(j) PROVE Kindly
  <2>1. CASE handle[j[1]] # None
    BY <1>2, <1>9, <2>1 DEF LoadFailed
  <2>2. CASE handle[j[1]] = None
    BY <1>5, <1>9, <2>2 DEF LoadFailed
  <2>3. QED
    BY <2>1, <2>2
<1>10. ASSUME Abandoned(j) PROVE Kindly
  BY <1>5, <1>10 DEF Abandoned
<1>11. ASSUME OrphanEnds(j) PROVE Kindly
  <2>1. ~Alight(j)
    BY <1>11 DEF OrphanEnds, Orphans, Alight, Flying, Orphaned
  <2>2. QED
    BY <1>3, <1>11, <2>1 DEF OrphanEnds, residency
<1>12. ASSUME FreeDone(j) PROVE Kindly
  BY <1>12 DEF Kindly, Turning
<1>13. QED
  BY <1>6, <1>7, <1>8, <1>9, <1>10, <1>11, <1>12 DEF JobStep

\* What the collectors do to the jobs.
LEMMA CollectKind ==
  ASSUME IInv, NEW m \in Modes, Collect(m)
  PROVE  Kindly
<1>1. ASSUME NEW k \in {"release", "switch"}, NEW then, releaseResidentModel(<<m, k>>, m, then),
             runq' = runq, job[<<m, k>>].pc = "idle"
      PROVE  Kindly
  <2>1. /\ <<m, k>> \in Jobs /\ ~Load(<<m, k>>) /\ <<m, k>>[1] = m
        /\ \A i \in Jobs : In(runq', i) <=> In(runq, i) /\ i # <<m, k>>
    BY <1>1, JobsAre DEF Kinds, Load, IInv, Queued
  <2>2. Asking(<<m, k>>)
    BY <1>1, <2>1, Seeks DEF releaseResidentModel, IInv
  <2>3. QED
    BY <2>1, <2>2 DEF Kindly
<1>2. ASSUME UNCHANGED <<residentHolder, residentBusy, releasePhase, releaseWaiters, job>>, runq' = runq PROVE Kindly
  <2>1. \E j : Quietly(j)
    BY <1>2, Stays
  <2>2. QED
    BY <2>1 DEF Kindly
<1>3. CASE CollectPresence(m)
  <2>1. runq' = runq
    BY <1>3 DEF CollectPresence
  <2>2. CASE LaunchRelease(m)
    BY <1>1, <1>2, <2>1, <2>2 DEF LaunchRelease
  <2>3. CASE UNCHANGED <<residentHolder, residentBusy, releasePhase, releaseWaiters, job, handle, session>>
    BY <1>2, <2>1, <2>3
  <2>4. QED
    BY <1>3, <2>2, <2>3 DEF CollectPresence
<1>4. CASE CollectPending(m)
  <2>1. CollectKey(m)
    BY <1>4 DEF CollectPending
  <2>2. QED
    BY <1>1, <1>2, <2>1 DEF CollectKey
<1>5. QED
  BY <1>3, <1>4 DEF Collect

\* What a resumed job does.  One that finishes a load finds the slot another's or empty.
LEMMA ResumeKind ==
  ASSUME IInv, Resume
  PROVE  Kindly
<1>0. PICK j : j = Head(runq)
  OBVIOUS
<1>1. /\ runq # << >> /\ runq' = Tail(runq) /\ runq \in Seq(Jobs \cup {None}) /\ Once(runq)
      /\ j \in Jobs \cup {None} /\ In(runq, j) /\ \A i \in Jobs : In(runq', i) <=> In(runq, i) /\ i # j
      /\ job \in [Jobs -> JobState] /\ phase \in [Modes -> {"MISSING", "DOWNLOADED", "LOADING", "READY"}]
  <2>1. runq \in Seq(Jobs \cup {None}) /\ Once(runq) /\ runq # << >> /\ runq' = Tail(runq)
    BY DEF Resume, IInv, TypeOK, Queued
  <2>2. j \in Jobs \cup {None} /\ In(runq, j) /\ \A i \in Jobs : In(Tail(runq), i) <=> In(runq, i) /\ i # j
    BY <1>0, <2>1, Popped
  <2>3. QED
    BY <2>1, <2>2 DEF IInv, TypeOK
<1>2. CASE UNCHANGED <<residentHolder, residentBusy, releasePhase, releaseWaiters, job, screen, handle, session>>
  <2>1. \E i : Quietly(i)
    BY <1>1, <1>2, Stays
  <2>2. QED
    BY <2>1 DEF Kindly
<1>3. CASE j # None /\ GoesOn(j)
  <2>1. j \in Jobs /\ j[1] \in Modes /\ job[j].pc = "wait" /\ Flying(j) /\ job[j] \in JobState
    <3>1. j \in Jobs
      BY <1>1, <1>3
    <3>2. QED
      BY <1>1, <3>1, JobsAre DEF IInv, Queued, Flying, Orphaned
  <2>2. ASSUME job' = [job EXCEPT ![j] = Idle], Load(j) => job[j].then # "back" \/ phase'[j[1]] # "LOADING",
               UNCHANGED <<residentHolder, releasePhase, releaseWaiters>>, job[j].then # "acquire"
        PROVE  Kindly
    <3>1. job'[j] = Idle /\ \A i \in Jobs : i # j => job'[i] = job[i]
      <4>1. j \in Jobs /\ job \in [Jobs -> JobState]
        BY <1>1, <2>1
      <4>2. QED
        BY <2>2, <4>1
    <3>2. ~Flying(j)' /\ job'[j].pc = "idle"
      BY <3>1 DEF Flying, Idle
    <3>3. Alight(j) => job[j].then = "back"
      BY <1>1, <2>2 DEF Alight, Resumed
    <3>4. Quietly(j)
      BY <1>1, <2>2, <3>1, <3>2, <3>3 DEF Quietly
    <3>5. QED
      BY <3>4 DEF Kindly
  <2>3. CASE job[j].then = "acquire" /\ acquireResidency(j, j[1])
    <3>1. CASE residentHolder \in {None, j[1]}
      <4>1. PICK s : job' = [job EXCEPT ![j].pc = "init", ![j].sess = s]
        BY <2>3, <3>1 DEF acquireResidency
      <4>2. /\ job'[j].pc = "init" /\ job'[j].then = job[j].then /\ job'[j].key = job[j].key
            /\ \A i \in Jobs : i # j => job'[i] = job[i]
        BY <1>1, <2>1, <4>1 DEF JobState
      <4>3. Flying(j)'
        BY <4>2 DEF Flying, Orphaned
      <4>4. /\ residentHolder' = residentHolder \/ residentHolder = None
            /\ releasePhase' = releasePhase /\ releaseWaiters' = releaseWaiters
        BY <2>3, <3>1 DEF acquireResidency
      <4>5. Quietly(j)
        BY <1>1, <2>1, <4>2, <4>3, <4>4 DEF Quietly
      <4>6. QED
        BY <4>5 DEF Kindly
    <3>2. CASE residentHolder \notin {None, j[1]}
      <4>1. requestReleaseAndAwait(j, "acquire", residentBusy) /\ residentHolder' = residentHolder
        BY <2>3, <3>2 DEF acquireResidency
      <4>2. Asking(j)
        BY <1>1, <2>1, <4>1, Seeks DEF IInv
      <4>3. QED
        BY <2>1, <4>2 DEF Kindly
    <3>3. QED
      BY <3>1, <3>2
  <2>4. CASE job[j].then = "finish" /\ FinishLoad(j, j[1]) /\ UNCHANGED <<residentHolder, generating>>
    <3>1. Load(j) /\ Resumed(j)
      BY <1>1, <2>1, <2>4 DEF IInv, Shapes, Resumed
    <3>2. ASSUME residentHolder = j[1] PROVE FALSE
      <4>1. PICK l \in Loads(j[1]) : job[l].pc \in {"init", "inited", "failed"}
        BY <2>1, <3>1, <3>2 DEF IInv, Entitled, Overtaken
      <4>2. l \in Jobs /\ Load(l) /\ l[1] = j[1] /\ l # j /\ Flying(l)
        BY <2>1, <4>1, JobsAre DEF Flying, Orphaned
      <4>3. QED
        BY <2>1, <3>1, <4>2 DEF IInv, Exclusive, OneLoad
    <3>3. job' = [job EXCEPT ![j] = Idle] /\ UNCHANGED <<releasePhase, releaseWaiters>>
      BY <2>4, <3>2 DEF FinishLoad
    <3>4. QED
      BY <2>2, <2>4, <3>3
  <2>5. CASE /\ job[j].then = "finishTurn" /\ FinishTurn(j, j[1])
             /\ UNCHANGED <<residentHolder, residentBusy, releasePhase, releaseWaiters, handle, session, phase>>
    BY <2>2, <2>5 DEF FinishTurn
  <2>6. CASE /\ job[j].then \in {"reflect", "back", "done"} /\ job' = [job EXCEPT ![j] = Idle]
             /\ phase' = CASE job[j].then = "reflect" -> Reflect(j[1], selected[j[1]])
                           [] job[j].then = "back" -> [phase EXCEPT ![j[1]] = OnDisk(job[j].key)]
                           [] job[j].then = "done" -> phase
             /\ UNCHANGED <<residentHolder, residentBusy, releasePhase, releaseWaiters, handle, session, generating>>
    <3>1. CASE job[j].then = "back"
      <4>1. phase' = [phase EXCEPT ![j[1]] = OnDisk(job[j].key)]
        BY <2>6, <3>1
      <4>2. phase'[j[1]] # "LOADING"
        BY <1>1, <2>1, <4>1 DEF OnDisk
      <4>3. QED
        BY <2>2, <2>6, <3>1, <4>2
    <3>2. CASE job[j].then # "back"
      BY <2>2, <2>6, <3>2
    <3>3. QED
      BY <3>1, <3>2
  <2>7. QED
    BY <1>3, <2>3, <2>4, <2>5, <2>6 DEF GoesOn
<1>4. QED
  BY <1>0, <1>2, <1>3 DEF Resume

\* Every step is one of these.
LEMMA StepKinds ==
  ASSUME IInv, [Next]_vars
  PROVE  Kindly
<1>1. CASE UNCHANGED vars
  <2>1. \E j : Quietly(j)
    BY <1>1, Stays DEF vars, residency
  <2>2. QED
    BY <2>1 DEF Kindly
<1>2. CASE Clear
  BY <1>2 DEF Kindly, Turning
<1>3. QED
  BY <1>1, <1>2, UserKind, JobKind, CollectKind, ResumeKind DEF Next

\* dropResidency between two events: the waiters are resumed unless a release runs.
LEMMA DropsWhat ==
  ASSUME IInv, NEW j \in Jobs, Dropping(j)
  PROVE  /\ residentHolder = j[1] /\ residentHolder' = None /\ \A i \in Jobs : job[i].pc # "free"
         /\ \/ /\ releasePhase = "RUNNING" /\ releasePhase' = "RUNNING" /\ releaseWaiters' = releaseWaiters
               /\ \A i \in Jobs : In(runq', i) => i = j
            \/ /\ releasePhase # "RUNNING" /\ releaseWaiters' = << >>
               /\ \A i \in Jobs : In(runq', i) => In(releaseWaiters, i) \/ i = j
<1>1. residentHolder = j[1] /\ \A i \in Jobs : job[i].pc # "free"
  BY InCall DEF Dropping
<1>2. \/ releasePhase = "RUNNING" /\ releasePhase' = "RUNNING" /\ releaseWaiters' = releaseWaiters /\ runq' = <<j>>
      \/ releasePhase # "RUNNING" /\ releaseWaiters' = << >> /\ runq' = releaseWaiters \o <<j>>
  BY <1>1 DEF Dropping, dropResidency
<1>3. residentHolder' = None
  BY <1>1 DEF Dropping, dropResidency
<1>4. releaseWaiters \in Seq(Jobs \cup {None})
  BY DEF IInv, TypeOK
<1>5. CASE runq' = <<j>>
  BY <1>1, <1>2, <1>3, <1>5, Alone
<1>6. CASE runq' = releaseWaiters \o <<j>>
  <2>1. \A i \in Jobs : In(runq', i) => In(releaseWaiters, i) \/ i = j
    BY <1>4, <1>6 DEF In
  <2>2. QED
    BY <1>1, <1>2, <1>3, <1>5, <2>1
<1>7. QED
  BY <1>2, <1>5, <1>6

\* FreeDone between two events: the mode whose session it was owned the slot until now.
LEMMA FreesWhat ==
  ASSUME IInv, NEW j \in Jobs, FreeDone(j)
  PROVE  /\ job[j].pc = "free" /\ job[j].of \in Modes /\ residentHolder = job[j].of /\ releaseWaiters' = << >>
         /\ phase'[job[j].of] # "LOADING" /\ \A n \in Modes : n # job[j].of => phase'[n] = phase[n]
         /\ \A i \in Jobs : i # j => job'[i] = job[i]
         /\ job'[j].pc = "wait" /\ job'[j].then = job[j].then /\ job'[j].key = job[j].key
         /\ \A i \in Jobs : In(runq', i) => In(releaseWaiters, i) \/ i = j
<1>1. /\ Main /\ job[j].pc = "free" /\ job[j].of \in Modes
      /\ residentHolder = job[j].of \/ (residentHolder = None /\ clearing # << >>)
      /\ job \in [Jobs -> JobState] /\ releaseWaiters \in Seq(Jobs \cup {None})
      /\ phase \in [Modes -> {"MISSING", "DOWNLOADED", "LOADING", "READY"}]
  BY DEF FreeDone, IInv, Exclusive, FreeOwns, TypeOK
<1>2. residentHolder = job[j].of
  BY <1>1, Settled
<1>3. /\ job' = [job EXCEPT ![j].pc = "wait", ![j].sess = None]
      /\ phase' = [phase EXCEPT ![job[j].of] = OnDisk(selected[job[j].of])]
      /\ runq' = Append(releaseWaiters, j) /\ releaseWaiters' = << >>
  BY DEF FreeDone
<1>4. phase'[job[j].of] # "LOADING" /\ \A n \in Modes : n # job[j].of => phase'[n] = phase[n]
  BY <1>1, <1>3 DEF OnDisk
<1>5. /\ \A i \in Jobs : i # j => job'[i] = job[i]
      /\ job'[j].pc = "wait" /\ job'[j].then = job[j].then /\ job'[j].key = job[j].key
  BY <1>1, <1>3 DEF JobState
<1>6. \A i \in Jobs : In(runq', i) => In(releaseWaiters, i) \/ i = j
  BY <1>1, <1>3 DEF In
<1>7. QED
  BY <1>1, <1>2, <1>3, <1>4, <1>5, <1>6

\* Clear: the jobs of the mode are cancelled, and the others wait on or are resumed.
LEMMA ClearsWhat ==
  ASSUME IInv, Clear
  PROVE  \E m \in Modes :
           /\ m = Head(clearing) /\ phase'[m] # "LOADING" /\ \A n \in Modes : n # m => phase'[n] = phase[n]
           /\ phase'[m] = OnDisk(selected[m])
           /\ \A i \in Jobs : IF i[1] = m THEN ~Flying(i)' ELSE job'[i] = job[i]
           /\ residentHolder # m => residentHolder' = residentHolder /\ releasePhase' = releasePhase
           /\ releasePhase = "RUNNING" => releasePhase' = "RUNNING"
           /\ \A i \in Jobs : In(runq', i) => In(releaseWaiters, i) /\ residentHolder = m /\ releasePhase # "RUNNING"
           /\ \A i \in Jobs : In(releaseWaiters', i) =>
                In(releaseWaiters, i) /\ i[1] # m /\ (residentHolder = m => releasePhase = "RUNNING")
<1> DEFINE m    == Head(clearing)
           mine == {m} \X Kinds
           left == [i \in DOMAIN releaseWaiters |-> IF releaseWaiters[i] \in mine THEN None ELSE releaseWaiters[i]]
<1>1. /\ m \in Modes /\ runq = << >> /\ releaseWaiters \in Seq(Jobs \cup {None}) /\ Once(releaseWaiters)
      /\ phase \in [Modes -> {"MISSING", "DOWNLOADED", "LOADING", "READY"}]
  BY DEF Clear, IInv, TypeOK, Queued
<1>2. \A j \in Jobs : j \in mine <=> j[1] = m
  BY JobsAre DEF Jobs
<1>3. /\ \A j \in Jobs : j[1] # m => job'[j] = job[j]
      /\ \A j \in Jobs : j[1] = m => job'[j] = Orphan(j)
  BY <1>2 DEF Clear
<1>4. \A j \in Jobs : j[1] = m => ~Flying(j)'
  BY <1>3, Orphaning DEF IInv, Flying, Orphaned
<1>5. \A i \in Jobs : In(left, i) <=> In(releaseWaiters, i) /\ i[1] # m
  <2>1. /\ left \in Seq(Jobs \cup {None}) /\ DOMAIN left = DOMAIN releaseWaiters
        /\ \A i \in DOMAIN releaseWaiters :
             left[i] = IF releaseWaiters[i] \in mine THEN None ELSE releaseWaiters[i]
    BY <1>1
  <2> HIDE DEF mine, left
  <2>2. \A i \in Jobs : In(left, i) <=> In(releaseWaiters, i) /\ i \notin mine
    BY <1>1, <2>1, Struck
  <2>3. QED
    BY <1>2, <2>2
<1>6. /\ residentHolder # m => residentHolder' = residentHolder /\ releasePhase' = releasePhase
      /\ releasePhase = "RUNNING" => releasePhase' = "RUNNING"
      /\ \/ releaseWaiters' = left /\ runq' = << >> /\ (residentHolder = m => releasePhase = "RUNNING")
         \/ releaseWaiters' = << >> /\ runq' = left /\ residentHolder = m /\ releasePhase # "RUNNING"
  BY <1>1 DEF Clear
<1>7. phase'[m] = OnDisk(selected[m]) /\ \A n \in Modes : n # m => phase'[n] = phase[n]
  BY <1>1 DEF Clear
<1>8. phase'[m] # "LOADING"
  BY <1>7 DEF OnDisk
<1>9. \A i \in Jobs : ~In(<< >>, i)
  BY Alone
<1> HIDE DEF mine, left
<1>10. /\ \A i \in Jobs : In(runq', i) => In(releaseWaiters, i) /\ residentHolder = m /\ releasePhase # "RUNNING"
       /\ \A i \in Jobs : In(releaseWaiters', i) =>
            In(releaseWaiters, i) /\ i[1] # m /\ (residentHolder = m => releasePhase = "RUNNING")
  BY <1>5, <1>6, <1>9
<1>11. QED
  BY <1>1, <1>3, <1>4, <1>6, <1>7, <1>8, <1>10

\* LoadModel: the load is resumed at once.
LEMMA LoadsWhat ==
  ASSUME IInv, NEW m \in Modes, NEW j \in Loads(m), LoadModel(m, j)
  PROVE  /\ j \in Jobs /\ Load(j) /\ j[1] = m /\ \A i \in Jobs : i # j => job'[i] = job[i]
         /\ job[j].pc = "idle" /\ job'[j].pc = "wait" /\ job'[j].then = "acquire" /\ job'[j].key = selected[m]
         /\ \A i \in Jobs : In(runq', i) => i = j
         /\ UNCHANGED <<residentHolder, releasePhase, releaseWaiters, selected, onDisk>>
         /\ phase'[m] = "LOADING" /\ \A n \in Modes : n # m => phase'[n] = phase[n]
<1>1. /\ j \in Jobs /\ Load(j) /\ j[1] = m /\ job \in [Jobs -> JobState]
      /\ phase \in [Modes -> {"MISSING", "DOWNLOADED", "LOADING", "READY"}]
  BY JobsAre DEF IInv, TypeOK
<1>2. job' = [job EXCEPT ![j] = [Idle EXCEPT !.pc = "wait", !.then = "acquire", !.key = selected[m]]]
  BY DEF LoadModel
<1>3. /\ \A i \in Jobs : i # j => job'[i] = job[i]
      /\ job'[j].pc = "wait" /\ job'[j].then = "acquire" /\ job'[j].key = selected[m]
  BY <1>1, <1>2 DEF Idle
<1>4. \A i \in Jobs : In(<<j>>, i) => i = j
  BY <1>1, Alone
<1>5. QED
  BY <1>1, <1>3, <1>4 DEF LoadModel, library

\* A release whose job was cancelled is never over.
LEMMA AbandonedStays ==
  ASSUME IInv, [Next]_vars, ReleaseAbandoned
  PROVE  ReleaseAbandoned'
<1>1. releasePhase = "RUNNING" /\ \A j \in Jobs : job[j].pc # "free"
  BY DEF ReleaseAbandoned
<1>2. ASSUME NEW j, Quietly(j) PROVE ReleaseAbandoned'
  BY <1>1, <1>2 DEF Quietly, ReleaseAbandoned
<1>3. ASSUME NEW j \in Jobs, Asking(j) PROVE ReleaseAbandoned'
  BY <1>1, <1>3 DEF Asking, ReleaseAbandoned
<1>4. ASSUME NEW j \in Jobs, Dropping(j) PROVE ReleaseAbandoned'
  <2>1. releasePhase' = "RUNNING"
    BY <1>1, <1>4, DropsWhat
  <2>2. QED
    BY <1>1, <1>4, <2>1 DEF Dropping, ReleaseAbandoned
<1>5. ASSUME NEW m \in Modes, NEW j \in Loads(m), LoadModel(m, j) PROVE ReleaseAbandoned'
  <2>1. /\ \A i \in Jobs : i # j => job'[i] = job[i]
        /\ job'[j].pc = "wait" /\ releasePhase' = releasePhase
    BY <1>5, LoadsWhat
  <2>2. QED
    BY <1>1, <2>1 DEF ReleaseAbandoned
<1>6. ASSUME NEW j \in Jobs, FreeDone(j) PROVE FALSE
  BY <1>1, <1>6 DEF FreeDone
<1>7. CASE Clear
  <2>1. /\ \A i \in Jobs : ~Flying(i)' \/ job'[i] = job[i]
        /\ releasePhase' = "RUNNING"
    BY <1>1, <1>7, ClearsWhat
  <2>2. \A i \in Jobs : job'[i].pc # "free"
    BY <1>1, <2>1 DEF Flying, Orphaned
  <2>3. QED
    BY <2>1, <2>2 DEF ReleaseAbandoned
<1>8. QED
  BY <1>2, <1>3, <1>4, <1>5, <1>6, <1>7, StepKinds DEF Kindly, Turning

\* OwnRelease: a release that a job launches or its settled call performs is its own mode's.
LEMMA OwnReleaseStep ==
  ASSUME IInv, IInv', [Next]_vars, OwnRelease
  PROVE  OwnRelease'
<1> SUFFICES ASSUME NEW i \in Jobs, job'[i].then # "acquire"
             PROVE  /\ In(releaseWaiters', i) => residentHolder' = i[1] \/ ReleaseAbandoned'
                    /\ job'[i].pc = "free" => job'[i].of = i[1]
  BY DEF OwnRelease
<1>1. job[i].then # "acquire" =>
        /\ In(releaseWaiters, i) => residentHolder = i[1] \/ ReleaseAbandoned
        /\ job[i].pc = "free" => job[i].of = i[1]
  BY DEF OwnRelease
<1>2. /\ ReleaseAbandoned => ReleaseAbandoned'
      /\ In(releaseWaiters', i) => job'[i].pc = "wait"
      /\ i[1] \in Modes /\ i[1] # None
  BY AbandonedStays, JobsAre DEF IInv, Queued
<1>3. ASSUME NEW j, Quietly(j)
      PROVE  /\ In(releaseWaiters', i) => residentHolder' = i[1] \/ ReleaseAbandoned'
             /\ job'[i].pc = "free" => job'[i].of = i[1]
  <2>1. CASE i = j
    BY <1>2, <1>3, <2>1 DEF Quietly
  <2>2. CASE i # j
    BY <1>1, <1>2, <1>3, <2>2 DEF Quietly
  <2>3. QED
    BY <2>1, <2>2
<1>4. ASSUME NEW j \in Jobs, Asking(j)
      PROVE  /\ In(releaseWaiters', i) => residentHolder' = i[1] \/ ReleaseAbandoned'
             /\ job'[i].pc = "free" => job'[i].of = i[1]
  <2>1. CASE i = j
    BY <1>2, <1>4, <2>1 DEF Asking
  <2>2. CASE i # j
    BY <1>1, <1>2, <1>4, <2>2 DEF Asking
  <2>3. QED
    BY <2>1, <2>2
<1>5. ASSUME NEW j \in Jobs, Dropping(j)
      PROVE  /\ In(releaseWaiters', i) => residentHolder' = i[1] \/ ReleaseAbandoned'
             /\ job'[i].pc = "free" => job'[i].of = i[1]
  <2>1. \A k \in Jobs : job[k].pc # "free" /\ job'[k].pc # "free"
    BY <1>5, DropsWhat DEF Dropping
  <2>2. In(releaseWaiters', i) => releasePhase' = "RUNNING"
    BY <1>5, DropsWhat, Alone
  <2>3. QED
    BY <2>1, <2>2 DEF ReleaseAbandoned
<1>6. ASSUME NEW m \in Modes, NEW j \in Loads(m), LoadModel(m, j)
      PROVE  /\ In(releaseWaiters', i) => residentHolder' = i[1] \/ ReleaseAbandoned'
             /\ job'[i].pc = "free" => job'[i].of = i[1]
  <2>1. /\ i # j /\ job'[i] = job[i] /\ residentHolder' = residentHolder /\ releaseWaiters' = releaseWaiters
    BY <1>6, LoadsWhat
  <2>2. QED
    BY <1>1, <1>2, <2>1
<1>7. ASSUME NEW j \in Jobs, FreeDone(j)
      PROVE  /\ In(releaseWaiters', i) => residentHolder' = i[1] \/ ReleaseAbandoned'
             /\ job'[i].pc = "free" => job'[i].of = i[1]
  <2>1. releaseWaiters' = << >> /\ job'[j].pc = "wait" /\ job[j].pc = "free" /\ \A k \in Jobs : k # j => job'[k] = job[k]
    BY <1>7, FreesWhat
  <2>2. job'[i].pc # "free"
    BY <2>1 DEF IInv, Exclusive, FreeAlone
  <2>3. QED
    BY <2>1, <2>2, Alone
<1>8. CASE Clear
  <2>1. PICK m \in Modes :
           /\ \A k \in Jobs : IF k[1] = m THEN ~Flying(k)' ELSE job'[k] = job[k]
           /\ residentHolder # m => residentHolder' = residentHolder
           /\ \A k \in Jobs : In(releaseWaiters', k) =>
                In(releaseWaiters, k) /\ k[1] # m /\ (residentHolder = m => releasePhase = "RUNNING")
    BY <1>8, ClearsWhat
  <2>2. CASE i[1] = m
    BY <2>1, <2>2 DEF Flying, Orphaned
  <2>3. CASE i[1] # m
    BY <1>1, <1>2, <2>1, <2>3
  <2>4. QED
    BY <2>2, <2>3
<1>9. QED
  BY <1>3, <1>4, <1>5, <1>6, <1>7, <1>8, StepKinds DEF Kindly, Turning

\* A load keeps what it is about.
LEMMA KeysKept ==
  ASSUME IInv, [Next]_vars, NEW i \in Jobs, Load(i), Flying(i)'
  PROVE  \/ Flying(i) /\ job'[i].key = job[i].key
         \/ /\ job'[i].key = selected[i[1]] /\ selected[i[1]] \in Offered[i[1]]
            /\ selected' = selected /\ onDisk' = onDisk
<1>1. job'[i] = job[i] => Flying(i) /\ job'[i].key = job[i].key
  BY DEF Flying, Orphaned
<1>2. ASSUME NEW j, Quietly(j) PROVE Flying(i) /\ job'[i].key = job[i].key
  BY <1>1, <1>2 DEF Quietly
<1>3. ASSUME NEW j \in Jobs, Asking(j) PROVE Flying(i) /\ job'[i].key = job[i].key
  BY <1>1, <1>3 DEF Asking
<1>4. ASSUME NEW j \in Jobs, Dropping(j) PROVE Flying(i) /\ job'[i].key = job[i].key
  <2>1. Flying(j)
    BY <1>4, InCall DEF Dropping
  <2>2. QED
    BY <1>1, <1>4, <2>1 DEF Dropping
<1>5. ASSUME NEW m \in Modes, NEW j \in Loads(m), LoadModel(m, j)
      PROVE  \/ Flying(i) /\ job'[i].key = job[i].key
             \/ /\ job'[i].key = selected[i[1]] /\ selected[i[1]] \in Offered[i[1]]
                /\ selected' = selected /\ onDisk' = onDisk
  <2>1. /\ j[1] = m /\ (i # j => job'[i] = job[i]) /\ job'[j].key = selected[m]
        /\ selected' = selected /\ onDisk' = onDisk
    BY <1>5, LoadsWhat
  <2>2. selected[m] \in Offered[m]
    BY DEF IInv, Chosen
  <2>3. QED
    BY <1>1, <2>1, <2>2
<1>6. ASSUME NEW j \in Jobs, FreeDone(j) PROVE Flying(i) /\ job'[i].key = job[i].key
  <2>1. (i # j => job'[i] = job[i]) /\ job'[j].key = job[j].key /\ job[j].pc = "free"
    BY <1>6, FreesWhat
  <2>2. QED
    BY <1>1, <2>1 DEF Flying, Orphaned
<1>7. ASSUME Clear PROVE Flying(i) /\ job'[i].key = job[i].key
  BY <1>1, <1>7, ClearsWhat
<1>8. QED
  BY <1>2, <1>3, <1>4, <1>5, <1>6, <1>7, StepKinds DEF Kindly, Turning

\* The library and the choices change by the user's hand only.
LEMMA LibraryMoves ==
  ASSUME [Next]_vars
  PROVE  \/ selected' = selected /\ onDisk' = onDisk
         \/ \E m \in Modes, k \in Keys : PickModel(m, k)
         \/ \E k \in Keys : Delete(k) \/ Download(k)
<1>1. CASE User
  BY <1>1 DEF User, LoadModel, StartTurn, Unload, FinishActivity, library
<1>2. CASE \E j \in Jobs : JobStep(j)
  BY <1>2 DEF JobStep, FreeDone, InitOk, InitFails, LoadSettled, LoadFailed, Abandoned, CallReturns,
     TurnSettled, OrphanEnds, library
<1>3. CASE \E m \in Modes : Collect(m)
  BY <1>3 DEF Collect, CollectPresence, CollectPending, CollectKey, library
<1>4. CASE Resume \/ Clear \/ UNCHANGED vars
  BY <1>4 DEF Resume, Clear, vars, library
<1>5. QED
  BY <1>1, <1>2, <1>3, <1>4 DEF Next

\* PickModel: the choice is one the picker offers, and on the device with the last one if a job is in flight.
LEMMA Picks ==
  ASSUME Patient, IInv, NEW m \in Modes, NEW k \in Keys, PickModel(m, k)
  PROVE  /\ k \in Offered[m] /\ selected' = [selected EXCEPT ![m] = k] /\ selected'[m] = k
         /\ \A n \in Modes : n # m => selected'[n] = selected[n]
         /\ onDisk' = onDisk /\ seenPresent' = seenPresent
         /\ InFlight(m) => {k, selected[m]} \subseteq onDisk
<1>1. selected' = [selected EXCEPT ![m] = k] /\ selected \in [Modes -> Keys]
  BY DEF PickModel, IInv, TypeOK
<1>2. onDisk' = onDisk /\ seenPresent' = seenPresent
  BY DEF PickModel, CollectKey, followed
<1>3. QED
  BY <1>1, <1>2 DEF PickModel, Patient

\* KeyFate: the library keeps a model that is loaded or chosen while another one loads.
LEMMA KeyFateStep ==
  ASSUME Careful, IInv, [Next]_vars, KeyFate
  PROVE  KeyFate'
<1> SUFFICES ASSUME NEW i \in Jobs, Load(i), Flying(i)'
             PROVE  /\ job'[i].key \in Offered[i[1]]
                    /\ job'[i].key = selected'[i[1]] \/ {job'[i].key, selected'[i[1]]} \subseteq onDisk'
  BY DEF KeyFate, Load
<1>1. i[1] \in Modes
  BY JobsAre
<1>2. CASE Flying(i) /\ job'[i].key = job[i].key
  <2>1. /\ job[i].key \in Offered[i[1]]
        /\ job[i].key = selected[i[1]] \/ {job[i].key, selected[i[1]]} \subseteq onDisk
    BY <1>2 DEF KeyFate
  <2>2. CASE selected' = selected /\ onDisk' = onDisk
    BY <1>2, <2>1, <2>2
  <2>3. ASSUME NEW m \in Modes, NEW k \in Keys, PickModel(m, k)
        PROVE  job[i].key = selected'[i[1]] \/ {job[i].key, selected'[i[1]]} \subseteq onDisk'
    <3>1. /\ selected'[m] = k /\ onDisk' = onDisk /\ (InFlight(m) => {k, selected[m]} \subseteq onDisk)
          /\ \A n \in Modes : n # m => selected'[n] = selected[n]
      BY <2>3, Picks DEF Careful, Patient
    <3>2. InFlight(i[1])
      BY <1>2, InFlightIs
    <3>3. QED
      BY <1>1, <2>1, <3>1, <3>2
  <2>4. ASSUME NEW k \in Keys, Delete(k)
        PROVE  job[i].key = selected'[i[1]] \/ {job[i].key, selected'[i[1]]} \subseteq onDisk'
    <3>1. job[i].key \in Keys /\ job[i].key # None
      BY <1>1, <2>1, AppResidencyAssumption
    <3>2. job[i].key # selected[i[1]] => k \notin {job[i].key, selected[i[1]]}
      BY <2>4, <3>1 DEF Delete, Careful
    <3>3. selected' = selected /\ onDisk' = onDisk \ {k}
      BY <2>4 DEF Delete
    <3>4. QED
      BY <2>1, <3>2, <3>3
  <2>5. ASSUME NEW k \in Keys, Download(k)
        PROVE  job[i].key = selected'[i[1]] \/ {job[i].key, selected'[i[1]]} \subseteq onDisk'
    BY <2>1, <2>5 DEF Download
  <2>6. QED
    BY <1>2, <2>1, <2>2, <2>3, <2>4, <2>5, LibraryMoves
<1>3. QED
  BY <1>2, KeysKept

\* What a screen may turn to.
LEMMA ScreenKinds ==
  ASSUME IInv, KeyFate, [Next]_vars, NEW m \in Modes
  PROVE  \/ phase'[m] = phase[m]
         \/ phase'[m] = IF Present(m)' THEN "DOWNLOADED" ELSE "MISSING"
         \/ \E j \in Loads(m) : LoadModel(m, j)
         \/ phase'[m] = "READY"
<1> DEFINE Turns(p) == \/ p = phase[m]
                       \/ p = IF Present(m)' THEN "DOWNLOADED" ELSE "MISSING"
                       \/ \E j \in Loads(m) : LoadModel(m, j)
                       \/ p = "READY"
<1>1. phase \in [Modes -> {"MISSING", "DOWNLOADED", "LOADING", "READY"}]
  BY DEF IInv, TypeOK
<1>2. ASSUME NEW n \in Modes, CollectKey(n) PROVE Turns(phase'[m])
  <2>1. onDisk' = onDisk
    BY <1>2 DEF CollectKey
  <2>2. CASE phase' = phase
    BY <2>2
  <2>3. CASE phase' = Reflect(n, selected'[n])
    <3>1. CASE n = m
      <4>1. phase'[m] = phase[m] \/ phase'[m] = OnDisk(selected'[m])
        BY <1>1, <2>3, <3>1 DEF Reflect
      <4>2. OnDisk(selected'[m]) = IF Present(m)' THEN "DOWNLOADED" ELSE "MISSING"
        BY <2>1 DEF OnDisk, Present
      <4>3. QED
        BY <4>1, <4>2
    <3>2. CASE n # m
      BY <1>1, <2>3, <3>2 DEF Reflect
    <3>3. QED
      BY <3>1, <3>2
  <2>4. QED
    BY <1>2, <2>2, <2>3 DEF CollectKey
<1>3. CASE User
  <2>1. ASSUME NEW n \in Modes, NEW j \in Loads(n), LoadModel(n, j) PROVE Turns(phase'[m])
    <3>1. n # m => phase'[m] = phase[m]
      BY <2>1, LoadsWhat
    <3>2. QED
      BY <2>1, <3>1
  <2>2. ASSUME NEW n \in Modes, StartTurn(n) \/ Unload(n) PROVE Turns(phase'[m])
    BY <2>2 DEF StartTurn, Unload, screen
  <2>3. ASSUME NEW n \in Modes, NEW k \in Keys, PickModel(n, k) PROVE Turns(phase'[m])
    BY <1>2, <2>3 DEF PickModel, screen
  <2>4. ASSUME \/ \E k \in Keys : Delete(k) \/ Download(k)
               \/ \E o \in Orders : FinishActivity(o)
        PROVE  Turns(phase'[m])
    BY <2>4 DEF Delete, Download, FinishActivity, screen
  <2>5. QED
    BY <1>3, <2>1, <2>2, <2>3, <2>4 DEF User
<1>4. ASSUME NEW j \in Jobs, JobStep(j) PROVE Turns(phase'[m])
  <2>1. CASE FreeDone(j)
    <3>1. phase' = [phase EXCEPT ![job[j].of] = OnDisk(selected[job[j].of])] /\ UNCHANGED <<selected, onDisk>>
      BY <2>1 DEF FreeDone, library
    <3>2. phase'[m] = phase[m] \/ phase'[m] = OnDisk(selected[m])
      BY <1>1, <3>1
    <3>3. OnDisk(selected[m]) = IF Present(m)' THEN "DOWNLOADED" ELSE "MISSING"
      BY <3>1 DEF OnDisk, Present
    <3>4. QED
      BY <3>2, <3>3
  <2>2. CASE LoadSettled(j)
    BY <1>1, <2>2 DEF LoadSettled, FinishLoad
  <2>3. CASE InitOk(j) \/ InitFails(j) \/ LoadFailed(j) \/ Abandoned(j) \/ CallReturns(j) \/ OrphanEnds(j)
    BY <2>3 DEF InitOk, InitFails, LoadFailed, Abandoned, CallReturns, OrphanEnds, screen
  <2>4. CASE TurnSettled(j)
    BY <2>4 DEF TurnSettled
  <2>5. QED
    BY <1>4, <2>1, <2>2, <2>3, <2>4 DEF JobStep
<1>5. CASE Clear
  <2>1. PICK n \in Modes : phase'[n] = OnDisk(selected[n]) /\ \A l \in Modes : l # n => phase'[l] = phase[l]
    BY <1>5, ClearsWhat
  <2>2. selected' = selected /\ onDisk' = onDisk
    BY <1>5 DEF Clear, library
  <2>3. OnDisk(selected[m]) = IF Present(m)' THEN "DOWNLOADED" ELSE "MISSING"
    BY <2>2 DEF OnDisk, Present
  <2>4. QED
    BY <2>1, <2>3
<1>6. CASE Resume
  <2> DEFINE j == Head(runq)
  <2>1. selected' = selected /\ onDisk' = onDisk
    BY <1>6 DEF Resume, library
  <2>2. OnDisk(selected[m]) = IF Present(m)' THEN "DOWNLOADED" ELSE "MISSING"
    BY <2>1 DEF OnDisk, Present
  <2>3. runq # << >> /\ runq \in Seq(Jobs \cup {None}) /\ Once(runq)
    BY <1>6 DEF Resume, IInv, TypeOK, Queued
  <2>4. In(runq, j) /\ j \in Jobs \cup {None}
    BY <2>3, Popped
  <2> HIDE DEF j
  <2>5. CASE j # None /\ GoesOn(j)
    <3>1. j \in Jobs /\ j[1] \in Modes /\ job[j].pc = "wait" /\ Flying(j)
      <4>1. j \in Jobs
        BY <2>4, <2>5
      <4>2. QED
        BY <2>4, <4>1, JobsAre DEF IInv, Queued, Flying, Orphaned
    <3>2. CASE UNCHANGED screen \/ phase' = phase
      BY <3>2 DEF screen
    <3>3. CASE FinishLoad(j, j[1])
      BY <1>1, <3>1, <3>3 DEF FinishLoad
    <3>4. CASE phase' = Reflect(j[1], selected[j[1]])
      <4>1. phase'[m] = phase[m] \/ phase'[m] = OnDisk(selected[m])
        BY <1>1, <3>1, <3>4 DEF Reflect
      <4>2. QED
        BY <2>2, <4>1
    <3>5. CASE job[j].then = "back" /\ phase' = [phase EXCEPT ![j[1]] = OnDisk(job[j].key)]
      <4>1. Load(j)
        BY <3>1, <3>5 DEF IInv, Shapes
      <4>2. OnDisk(job[j].key) = OnDisk(selected[j[1]])
        BY <3>1, <4>1 DEF KeyFate, OnDisk
      <4>3. phase'[m] = phase[m] \/ phase'[m] = OnDisk(selected[m])
        BY <1>1, <3>1, <3>5, <4>2
      <4>4. QED
        BY <2>2, <4>3
    <3>6. QED
      BY <2>5, <3>2, <3>3, <3>4, <3>5 DEF GoesOn
  <2>6. CASE UNCHANGED screen
    BY <2>6 DEF screen
  <2>7. QED
    BY <1>6, <2>5, <2>6 DEF Resume, j
<1>7. ASSUME NEW n \in Modes, CollectPresence(n) PROVE Turns(phase'[m])
  <2>1. Present(m)' <=> Present(m)
    BY <1>7 DEF CollectPresence, library, Present
  <2>2. \/ Present(n) /\ phase' = [phase EXCEPT ![n] = IF @ = "MISSING" THEN "DOWNLOADED" ELSE @]
        \/ ~Present(n) /\ phase' = [phase EXCEPT ![n] = "MISSING"]
    BY <1>7 DEF CollectPresence
  <2>3. QED
    BY <1>1, <2>1, <2>2
<1>8. ASSUME NEW n \in Modes, CollectPending(n) PROVE Turns(phase'[m])
  BY <1>2, <1>8 DEF CollectPending
<1>9. CASE UNCHANGED vars
  BY <1>9 DEF vars, screen
<1>10. QED
  BY <1>3, <1>4, <1>5, <1>6, <1>7, <1>8, <1>9 DEF Next, Collect

\* LoadingShown: whatever ends a load, or the release its screen waits for, sets the screen first.
LEMMA LoadingShownStep ==
  ASSUME IInv, IInv', [Next]_vars, Told
  PROVE  LoadingShown'
<1> SUFFICES ASSUME NEW m \in Modes, phase'[m] = "LOADING"
             PROVE  (\E j \in Loads(m) : Alight(j)') \/ (residentHolder' = m /\ releasePhase' = "RUNNING")
  BY DEF LoadingShown, Loads
<1>1. \A i \in Jobs : /\ job'[i] = job[i] => (Flying(i)' <=> Flying(i))
                      /\ job'[i] = job[i] /\ (In(runq', i) => In(runq, i)) /\ Alight(i) => Alight(i)'
  BY DEF Flying, Orphaned, Alight, Resumed
<1>2. \A j \in Loads(m) : j \in Jobs /\ Load(j) /\ j[1] = m
  BY JobsAre
<1>3. ASSUME NEW n \in Modes, NEW j \in Loads(n), LoadModel(n, j), n = m
      PROVE  \E i \in Loads(m) : Alight(i)'
  <2>1. job'[j].pc = "wait" /\ job'[j].then = "acquire"
    BY <1>3, LoadsWhat
  <2>2. Alight(j)'
    BY <2>1 DEF Alight, Flying, Orphaned, Resumed
  <2>3. QED
    BY <1>3, <2>2
<1>4. CASE \E j \in Loads(m) : LoadModel(m, j)
  BY <1>3, <1>4
<1>5. ASSUME ~\E j \in Loads(m) : LoadModel(m, j) PROVE phase[m] = "LOADING"
  <2>1. \/ phase'[m] = phase[m]
        \/ phase'[m] = IF Present(m)' THEN "DOWNLOADED" ELSE "MISSING"
        \/ \E j \in Loads(m) : LoadModel(m, j)
        \/ phase'[m] = "READY"
    BY ScreenKinds DEF Told
  <2>2. QED
    BY <1>5, <2>1
<1>6. ASSUME NEW i \in Loads(m), Alight(i), ~\E j \in Loads(m) : LoadModel(m, j)
      PROVE  Alight(i)'
  <2>1. i \in Jobs /\ Load(i) /\ i[1] = m /\ Flying(i) /\ (Resumed(i) => job[i].then = "back")
    BY <1>2, <1>6 DEF Alight
  <2>2. ASSUME NEW j, Quietly(j) PROVE Alight(i)'
    <3>1. CASE i = j
      <4>1. Flying(i)' /\ job'[i].then = job[i].then
        BY <1>6, <2>1, <2>2, <3>1 DEF Quietly
      <4>2. In(runq', i) => In(runq, i)
        BY <2>1, <2>2 DEF Quietly
      <4>3. QED
        BY <2>1, <4>1, <4>2 DEF Alight, Resumed
    <3>2. CASE i # j
      BY <1>1, <1>6, <2>1, <2>2, <3>2 DEF Quietly
    <3>3. QED
      BY <3>1, <3>2
  <2>3. ASSUME NEW j \in Jobs, Asking(j) PROVE Alight(i)'
    <3>1. CASE i = j
      BY <2>1, <2>3, <3>1 DEF Asking, Alight, Flying, Orphaned, Resumed
    <3>2. CASE i # j
      BY <1>1, <1>6, <2>1, <2>3, <3>2 DEF Asking
    <3>3. QED
      BY <3>1, <3>2
  <2>4. ASSUME NEW j \in Jobs, Dropping(j) PROVE Alight(i)'
    <3>1. CASE i = j
      BY <2>4, <3>1 DEF Dropping, Alight, Flying, Orphaned
    <3>2. CASE i # j
      <4>1. job'[i] = job[i] /\ residentHolder = j[1] /\ Flying(j) /\ Load(j)
        BY <2>1, <2>4, <3>2, InCall DEF Dropping
      <4>2. i[1] # j[1]
        BY <2>1, <2>4, <3>2, <4>1 DEF IInv, Exclusive, OneLoad
      <4>3. In(runq', i) => In(releaseWaiters, i) /\ releasePhase # "RUNNING"
        BY <2>1, <2>4, <3>2, DropsWhat
      <4>4. In(runq', i) => job[i].then = "acquire"
        BY <2>1, <4>1, <4>2, <4>3 DEF Told, OwnRelease, ReleaseAbandoned
      <4>5. QED
        BY <2>1, <4>1, <4>4 DEF Alight, Flying, Orphaned, Resumed
    <3>3. QED
      BY <3>1, <3>2
  <2>5. ASSUME NEW n \in Modes, NEW j \in Loads(n), LoadModel(n, j) PROVE Alight(i)'
    <3>1. n # m
      BY <1>6, <2>5
    <3>2. i # j /\ job'[i] = job[i] /\ ~In(runq', i)
      BY <2>1, <2>5, <3>1, LoadsWhat
    <3>3. QED
      BY <1>1, <1>6, <2>1, <3>2
  <2>6. ASSUME NEW j \in Jobs, FreeDone(j) PROVE Alight(i)'
    <3>1. /\ job[j].pc = "free" /\ residentHolder = job[j].of /\ job[j].of # m
          /\ \A k \in Jobs : k # j => job'[k] = job[k]
          /\ job'[j].pc = "wait" /\ job'[j].then = job[j].then
          /\ In(runq', i) => In(releaseWaiters, i) \/ i = j
      BY <2>1, <2>6, FreesWhat
    <3>2. i = j => job[i].then = "acquire"
      BY <2>1, <3>1 DEF Told, OwnRelease
    <3>3. In(runq', i) => job[i].then = "acquire"
      BY <2>1, <2>6, <3>1, <3>2 DEF Told, OwnRelease, ReleaseAbandoned
    <3>4. job'[i].then = job[i].then /\ Flying(i)'
      BY <2>1, <3>1 DEF Flying, Orphaned
    <3>5. QED
      BY <3>3, <3>4 DEF Alight, Resumed
  <2>7. CASE Clear
    <3>1. PICK n \in Modes :
            /\ phase'[n] # "LOADING" /\ \A k \in Jobs : IF k[1] = n THEN ~Flying(k)' ELSE job'[k] = job[k]
            /\ \A k \in Jobs : In(runq', k) => In(releaseWaiters, k) /\ residentHolder = n /\ releasePhase # "RUNNING"
      BY <2>7, ClearsWhat
    <3>2. n # m /\ job'[i] = job[i]
      BY <2>1, <3>1
    <3>3. In(runq', i) => job[i].then = "acquire"
      BY <2>1, <3>1, <3>2 DEF Told, OwnRelease, ReleaseAbandoned
    <3>4. QED
      BY <2>1, <3>2, <3>3 DEF Alight, Flying, Orphaned, Resumed
  <2>8. QED
    BY <2>2, <2>3, <2>4, <2>5, <2>6, <2>7, StepKinds DEF Kindly, Turning
<1>7. ASSUME residentHolder = m, releasePhase = "RUNNING", ~\E j \in Loads(m) : LoadModel(m, j)
      PROVE  (\E j \in Loads(m) : Alight(j)') \/ (residentHolder' = m /\ releasePhase' = "RUNNING")
  <2>1. m # None
    BY JobsAre
  <2>2. ASSUME NEW j, Quietly(j) PROVE residentHolder' = m /\ releasePhase' = "RUNNING"
    BY <1>7, <2>1, <2>2 DEF Quietly
  <2>3. ASSUME NEW j \in Jobs, Asking(j) PROVE residentHolder' = m /\ releasePhase' = "RUNNING"
    BY <1>7, <2>3 DEF Asking
  <2>4. ASSUME NEW j \in Jobs, Dropping(j) PROVE \E i \in Loads(m) : Alight(i)'
    <3>1. residentHolder = j[1] /\ Load(j)
      BY <2>4, InCall DEF Dropping
    <3>2. j \in Loads(m)
      BY <1>7, <3>1, JobsAre
    <3>3. Alight(j)'
      BY <2>4 DEF Dropping, Alight, Flying, Orphaned
    <3>4. QED
      BY <3>2, <3>3
  <2>5. ASSUME NEW n \in Modes, NEW j \in Loads(n), LoadModel(n, j)
        PROVE  residentHolder' = m /\ releasePhase' = "RUNNING"
    BY <1>7, <2>5, LoadsWhat
  <2>6. ASSUME NEW j \in Jobs, FreeDone(j) PROVE FALSE
    BY <1>7, <2>6, FreesWhat
  <2>7. CASE Clear
    <3>1. PICK n \in Modes :
            /\ phase'[n] # "LOADING"
            /\ residentHolder # n => residentHolder' = residentHolder /\ releasePhase' = releasePhase
      BY <2>7, ClearsWhat
    <3>2. QED
      BY <1>7, <3>1
  <2>8. QED
    BY <2>2, <2>3, <2>4, <2>5, <2>6, <2>7, StepKinds DEF Kindly, Turning
<1>8. QED
  BY <1>4, <1>5, <1>6, <1>7 DEF Told, LoadingShown

\* What the collectors have seen changes when they collect, or with a new view model.
LEMMA SeenMoves ==
  ASSUME IInv, [Next]_vars, NEW m \in Modes
  PROVE  \/ seenPresent'[m] = seenPresent[m]
         \/ CollectPresence(m)
         \/ Clear /\ phase'[m] = OnDisk(selected[m]) /\ selected' = selected /\ onDisk' = onDisk
<1>1. seenPresent \in [Modes -> BOOLEAN]
  BY DEF IInv, TypeOK
<1>2. CASE User
  BY <1>2 DEF User, LoadModel, StartTurn, Unload, PickModel, CollectKey, Delete, Download, FinishActivity, followed
<1>3. CASE \E j \in Jobs : JobStep(j)
  BY <1>3 DEF JobStep, FreeDone, InitOk, InitFails, LoadSettled, LoadFailed, Abandoned, CallReturns,
     TurnSettled, OrphanEnds, followed
<1>4. ASSUME NEW n \in Modes, CollectPresence(n)
      PROVE  seenPresent'[m] = seenPresent[m] \/ CollectPresence(m)
  <2>1. seenPresent' = [seenPresent EXCEPT ![n] = Present(n)]
    BY <1>4 DEF CollectPresence
  <2>2. QED
    BY <1>1, <1>4, <2>1
<1>5. ASSUME NEW n \in Modes, CollectPending(n) PROVE seenPresent' = seenPresent
  BY <1>5 DEF CollectPending, CollectKey
<1>6. CASE Clear
  <2>1. /\ seenPresent' = [seenPresent EXCEPT ![Head(clearing)] = Present(Head(clearing))]
        /\ selected' = selected /\ onDisk' = onDisk
    BY <1>6 DEF Clear, library
  <2>2. phase'[Head(clearing)] = OnDisk(selected[Head(clearing)])
    BY <1>6, ClearsWhat
  <2>3. QED
    BY <1>1, <1>6, <2>1, <2>2
<1>7. CASE Resume \/ UNCHANGED vars
  BY <1>7 DEF Resume, vars, followed
<1>8. QED
  BY <1>2, <1>3, <1>4, <1>5, <1>6, <1>7 DEF Next, Collect

\* Faces: a variant is deleted when the collector has seen it, and chosen when the screen can follow.
LEMMA FacesStep ==
  ASSUME Careful, IInv, [Next]_vars, Told
  PROVE  Faces'
<1> SUFFICES ASSUME NEW m \in Modes
             PROVE  /\ phase'[m] = "DOWNLOADED" /\ ~Present(m)' => seenPresent'[m]
                    /\ phase'[m] = "MISSING" /\ Present(m)' => ~seenPresent'[m]
  BY DEF Faces
<1> DEFINE Face == /\ phase'[m] = "DOWNLOADED" /\ ~Present(m)' => seenPresent'[m]
                   /\ phase'[m] = "MISSING" /\ Present(m)' => ~seenPresent'[m]
<1>1. /\ phase[m] = "DOWNLOADED" /\ ~Present(m) => seenPresent[m]
      /\ phase[m] = "MISSING" /\ Present(m) => ~seenPresent[m]
  BY DEF Told, Faces
<1>2. /\ phase \in [Modes -> {"MISSING", "DOWNLOADED", "LOADING", "READY"}] /\ seenPresent \in [Modes -> BOOLEAN]
      /\ selected \in [Modes -> Keys] /\ selected[m] \in Offered[m]
  BY DEF IInv, TypeOK, Chosen
<1>3. CASE phase'[m] = IF Present(m)' THEN "DOWNLOADED" ELSE "MISSING"
  BY <1>3
<1>4. CASE phase'[m] = "READY" \/ \E j \in Loads(m) : LoadModel(m, j)
  <2>1. phase'[m] \in {"READY", "LOADING"}
    BY <1>4, LoadsWhat
  <2>2. QED
    BY <2>1
<1>5. ASSUME phase'[m] = phase[m], Present(m)' <=> Present(m), seenPresent'[m] = seenPresent[m] PROVE Face
  BY <1>1, <1>5
<1>6. ASSUME CollectPresence(m) PROVE Face
  <2>1. (Present(m)' <=> Present(m)) /\ seenPresent'[m] = Present(m)
    BY <1>2, <1>6 DEF CollectPresence, library, Present
  <2>2. IF Present(m) THEN phase'[m] # "MISSING" ELSE phase'[m] = "MISSING"
    BY <1>2, <1>6 DEF CollectPresence
  <2>3. QED
    BY <2>1, <2>2
<1>7. ASSUME NEW k \in Keys, Delete(k), phase'[m] = phase[m], seenPresent'[m] = seenPresent[m] PROVE Face
  <2>1. k \in onDisk /\ onDisk' = onDisk \ {k} /\ selected' = selected /\ (k = selected[m] => Present(m) = seenPresent[m])
    BY <1>7 DEF Delete, Careful
  <2>2. CASE k = selected[m]
    BY <1>7, <2>1, <2>2 DEF Present
  <2>3. CASE k # selected[m]
    BY <1>5, <1>7, <2>1, <2>3 DEF Present
  <2>4. QED
    BY <2>2, <2>3
<1>8. ASSUME NEW k \in Keys, Download(k), phase'[m] = phase[m], seenPresent'[m] = seenPresent[m] PROVE Face
  <2>1. k \notin onDisk /\ onDisk' = onDisk \cup {k} /\ selected' = selected /\ (k = selected[m] => Present(m) = seenPresent[m])
    BY <1>2, <1>8 DEF Download, Careful
  <2>2. CASE k = selected[m]
    BY <1>8, <2>1, <2>2 DEF Present
  <2>3. CASE k # selected[m]
    BY <1>5, <1>8, <2>1, <2>3 DEF Present
  <2>4. QED
    BY <2>2, <2>3
<1>9. ASSUME NEW n \in Modes, NEW k \in Keys, PickModel(n, k), phase'[m] = phase[m] PROVE Face
  <2>1. /\ selected'[n] = k /\ \A l \in Modes : l # n => selected'[l] = selected[l]
        /\ onDisk' = onDisk /\ seenPresent' = seenPresent /\ (InFlight(n) => {k, selected[n]} \subseteq onDisk)
    BY <1>9, Picks DEF Careful, Patient
  <2>2. CASE n # m
    BY <1>5, <1>9, <2>1, <2>2 DEF Present
  <2>3. CASE n = m /\ InFlight(m)
    BY <1>5, <1>9, <2>1, <2>3 DEF Present
  <2>4. CASE n = m /\ ~InFlight(m)
    <3>1. \A j \in Jobs : Flying(j) => j[1] # m
      BY <2>4, InFlightIs
    <3>2. CASE residentHolder = m
      <4>1. phase[m] # "DOWNLOADED"
        BY <3>2 DEF IInv, Shown, Offers
      <4>2. phase[m] # "MISSING"
        BY <3>1, <3>2, JobsAre DEF IInv, Shown, GoneShown
      <4>3. QED
        BY <1>9, <4>1, <4>2
    <3>3. CASE residentHolder # m
      <4>1. job[<<m, "switch">>].pc = "idle"
        BY <2>4 DEF InFlight, Kinds
      <4>2. phase' = Reflect(m, selected'[m])
        BY <1>9, <2>4, <3>3, <4>1 DEF PickModel, CollectKey, releaseResidentModel
      <4>3. handle[m] = None
        <5>1. ASSUME handle[m] # None PROVE FALSE
          <6>1. handle[m] \in Sessions /\ session[handle[m]] = [of |-> m, st |-> "live"]
            BY <5>1 DEF IInv, TypeOK, Owned, Handles
          <6>2. session[handle[m]].st = "live" /\ session[handle[m]].of = m
            BY <6>1
          <6>3. QED
            BY <3>3, <6>1, <6>2 DEF IInv, Owned, NoSessionLeaks
        <5>2. QED
          BY <5>1
      <4>4. phase'[m] = "LOADING" \/ phase'[m] = OnDisk(selected'[m])
        BY <1>2, <4>2, <4>3 DEF Reflect
      <4>5. QED
        BY <2>1, <4>4 DEF OnDisk, Present
    <3>4. QED
      BY <3>2, <3>3
  <2>5. QED
    BY <2>2, <2>3, <2>4
<1>10. CASE phase'[m] = phase[m] /\ seenPresent'[m] = seenPresent[m]
  <2>1. CASE selected' = selected /\ onDisk' = onDisk
    BY <1>5, <1>10, <2>1 DEF Present
  <2>2. QED
    BY <1>7, <1>8, <1>9, <1>10, <2>1, LibraryMoves
<1>11. CASE Clear /\ phase'[m] = OnDisk(selected[m]) /\ selected' = selected /\ onDisk' = onDisk
  BY <1>3, <1>11 DEF OnDisk, Present
<1>12. QED
  <2>1. \/ phase'[m] = phase[m]
        \/ phase'[m] = IF Present(m)' THEN "DOWNLOADED" ELSE "MISSING"
        \/ \E j \in Loads(m) : LoadModel(m, j)
        \/ phase'[m] = "READY"
    BY ScreenKinds DEF Told
  <2>2. QED
    BY <1>3, <1>4, <1>6, <1>10, <1>11, <2>1, SeenMoves

\* A mode with nothing left to do tells the truth.
LEMMA QuietScreens ==
  ASSUME IInv, Told
  PROVE  ScreenIsTrue
<1> SUFFICES ASSUME NEW m \in Modes, Quiet(m)
             PROVE  phase[m] = IF handle[m] # None THEN "READY" ELSE OnDisk(selected[m])
  BY DEF ScreenIsTrue
<1>1. phase[m] \in {"MISSING", "DOWNLOADED", "LOADING", "READY"}
  BY DEF IInv, TypeOK
<1>2. /\ (releasePhase = "RUNNING" => residentHolder # m) /\ Present(m) = seenPresent[m]
      /\ \A j \in Jobs : Flying(j) => j[1] # m
  BY InFlightIs DEF Quiet
<1>3. handle[m] # None => residentHolder = m
  <2>1. ASSUME handle[m] # None PROVE residentHolder = m
    <3>1. handle[m] \in Sessions /\ session[handle[m]] = [of |-> m, st |-> "live"]
      BY <2>1 DEF IInv, TypeOK, Owned, Handles
    <3>2. session[handle[m]].st = "live" /\ session[handle[m]].of = m
      BY <3>1
    <3>3. QED
      BY <3>1, <3>2 DEF IInv, Owned, NoSessionLeaks
  <2>2. QED
    BY <2>1
<1>4. phase[m] # "LOADING"
  BY <1>2, JobsAre DEF Told, LoadingShown, Alight
<1>5. CASE phase[m] = "READY"
  BY <1>2, <1>5 DEF IInv, Shown, ReadyIsLoaded
<1>6. CASE phase[m] = "DOWNLOADED"
  <2>1. handle[m] = None
    BY <1>3, <1>6 DEF IInv, Shown, Offers
  <2>2. Present(m)
    BY <1>2, <1>6 DEF Told, Faces
  <2>3. QED
    BY <1>6, <2>1, <2>2 DEF OnDisk, Present
<1>7. CASE phase[m] = "MISSING"
  <2>1. handle[m] = None
    BY <1>2, <1>3, <1>7, JobsAre DEF IInv, Shown, GoneShown
  <2>2. ~Present(m)
    BY <1>2, <1>7 DEF Told, Faces
  <2>3. QED
    BY <1>7, <2>1, <2>2 DEF OnDisk, Present
<1>8. QED
  BY <1>1, <1>4, <1>5, <1>6, <1>7

\* resetToUnloadedState, the collectors and the catch of loadModel leave no screen that is wrong for
\* good: with nothing left to do for a mode, it is READY with its session, or says what is on the device.
THEOREM ScreensAreTrue == ASSUME Careful PROVE Spec => []ScreenIsTrue
<1>1. Init => Told
  <2>1. ASSUME Init PROVE Told
    <3>1. /\ \A j \in Jobs : job[j].pc = "idle" /\ ~In(releaseWaiters, j)
          /\ \A m \in Modes : phase[m] = OnDisk(selected[m])
      BY <2>1, Alone DEF Init, Idle
    <3>2. \A m \in Modes : phase[m] = IF Present(m) THEN "DOWNLOADED" ELSE "MISSING"
      BY <3>1 DEF OnDisk, Present
    <3>3. QED
      BY <3>1, <3>2 DEF Told, OwnRelease, LoadingShown, KeyFate, Faces, Flying
  <2>2. QED
    BY <2>1
<1>2. IInv /\ IInv' /\ Told /\ [Next]_vars => Told'
  <2>1. ASSUME IInv, IInv', Told, [Next]_vars PROVE Told'
    <3>1. OwnRelease' /\ KeyFate'
      BY <2>1, OwnReleaseStep, KeyFateStep DEF Told
    <3>2. LoadingShown' /\ Faces'
      BY <2>1, LoadingShownStep, FacesStep
    <3>3. QED
      BY <3>1, <3>2 DEF Told
  <2>2. QED
    BY <2>1
<1>3. IInv /\ Told => ScreenIsTrue
  BY QuietScreens
<1>4. QED
  <2>1. Patient
    BY DEF Careful, Patient
  <2>2. Spec => []IInv
    BY <2>1, Invariance
  <2>3. QED
    BY <1>1, <1>2, <1>3, <2>2, PTL DEF Spec

=============================================================================
