---------------------------- MODULE AppResidency ----------------------------
(***************************************************************************)
(* The model slot of the Android app: ModelResidency.kt and the parts of   *)
(* ChatViewModel, VlmViewModel and SplatViewModel that load a model, run   *)
(* native calls on it and give it up, with the library and the variant     *)
(* picker they follow.                                                     *)
(*                                                                         *)
(* A job is a coroutine of a view model.  All of them run on the main      *)
(* dispatcher, one at a time, and give it up only where they suspend: in a *)
(* native call on a worker, or in waiter.await().  A completed waiter runs *)
(* inline (Dispatchers.Main.immediate), before any other event: runq.      *)
(*                                                                         *)
(* READY stands for READY of the chat, CAMERA and ANSWERING of the camera  *)
(* coach, and CAPTURING, ENCODING and VIEWER of the splat viewer; a turn   *)
(* for a reply, an answer, an encode or a render.                          *)
(***************************************************************************)
EXTENDS Integers, Sequences, FiniteSets

CONSTANTS
  Modes,        \* the app's modes, each with a view model that is a Holder
  Keys,         \* the models of the library
  Offered,      \* the models the picker of each mode offers
  Installs,     \* the models that may be on the device when the app starts
  Deletable,    \* the models the library can delete and download
  Quick,        \* what may happen while a job is still in flight: "download" of the model it is
                \* about, "reselect" of a variant that is not on the device and back, "restart"
                \* of the activity with a load in it, or while loads wait for another or each other,
                \* "delete" of a variant chosen just now, or while one loads and another is chosen
  MayFail,      \* a native load may fail
  MaxClears,    \* how often the activity may be finished and started again
  None

\* A mode's coroutines: two loads (a second one only if the screen offers Load while the first
\* runs), a turn, a release by Unload or by the presence collector, and the variant collector.
Kinds    == {"load", "load2", "turn", "release", "switch"}
Jobs     == Modes \X Kinds
Loads(m) == {<<m, "load">>, <<m, "load2">>}

ASSUME AppResidencyAssumption ==
  /\ IsFiniteSet(Modes) /\ Offered \in [Modes -> (SUBSET Keys) \ {{}}]
  /\ Installs \subseteq SUBSET Keys /\ Deletable \subseteq Keys
  /\ Quick \subseteq {"download", "reselect", "restart", "delete"} /\ MayFail \in BOOLEAN /\ MaxClears \in Nat
  /\ None \notin Modes \cup Keys \cup Nat \cup Jobs

VARIABLES
  residentHolder, residentBusy, releasePhase,
  releaseWaiters, \* the jobs that wait for the release to complete, oldest first, and None for a
                  \* waiter whose job was cancelled
  runq,           \* the waiters that have been completed and not resumed
  job,            \* what each job is doing
  phase, generating,
  handle,         \* the session each view model calls
  session,        \* the native sessions: [of, st], st is "none", "loading", "live" or "freeing"
  selected,       \* the chosen model of each mode
  seenKey, seenPresent, \* what its collectors last saw
  onDisk,
  clearing,       \* the modes whose view models are still to be cleared
  clears

residency == <<residentHolder, residentBusy, releasePhase, releaseWaiters, runq>>
screen    == <<phase, generating>>
library   == <<selected, onDisk>>
followed  == <<seenKey, seenPresent>>
activity  == <<clearing, clears>>
vars == <<residency, job, screen, handle, session, library, followed, activity>>

Idle     == [pc |-> "idle", then |-> "done", sess |-> None, of |-> None, key |-> None]
Sessions == 1 .. 2 * Cardinality(Modes)
NoSession == [of |-> None, st |-> "none"]

Present(m) == selected[m] \in onDisk
OnDisk(k)  == IF k \in onDisk THEN "DOWNLOADED" ELSE "MISSING"
Freeing(s) == [session EXCEPT ![s].st = "freeing"]
Gone(s)    == IF s = None THEN session ELSE [session EXCEPT ![s] = NoSession]

Init ==
  /\ residentHolder = None /\ residentBusy = FALSE /\ releasePhase = "NONE"
  /\ releaseWaiters = <<>> /\ runq = <<>> /\ job = [j \in Jobs |-> Idle]
  /\ onDisk \in Installs /\ selected \in {f \in [Modes -> Keys] : \A m \in Modes : f[m] \in Offered[m]}
  /\ phase = [m \in Modes |-> OnDisk(selected[m])] /\ generating = [m \in Modes |-> FALSE]
  /\ handle = [m \in Modes |-> None] /\ session = [s \in Sessions |-> NoSession]
  /\ seenKey = selected /\ seenPresent = [m \in Modes |-> Present(m)]
  /\ clearing = <<>> /\ clears = 0

-----------------------------------------------------------------------------
\* The main thread takes an event of a view model: resumed jobs, clearing and the variant collector,
\* which runs inside the setting of its key unless it still waits for a release, come first.
Free == runq = <<>> /\ clearing = <<>>
Main == Free /\ \A m \in Modes : selected[m] # seenKey[m] => job[<<m, "switch">>].pc # "idle"

\* ModelResidency.  In each of these a job j gives the main thread up, to go on with then.

\* releaseResidentNow, up to the native free it waits for.
releaseResidentNow(j, then) ==
  LET h == handle[residentHolder]
  IN  /\ releasePhase' = "RUNNING"
      /\ handle' = [handle EXCEPT ![residentHolder] = None]
      /\ session' = IF h = None THEN session ELSE Freeing(h)
      /\ job' = [job EXCEPT ![j].pc = "free", ![j].then = then, ![j].sess = h, ![j].of = residentHolder]

\* MUTANT of requestReleaseAndAwait: a busy resident is released all the same.
requestReleaseAtOnce(j, then, busy) ==
  IF releasePhase = "NONE"
  THEN releaseResidentNow(j, then) /\ UNCHANGED releaseWaiters
  ELSE /\ releaseWaiters' = Append(releaseWaiters, j)
       /\ job' = [job EXCEPT ![j].pc = "wait", ![j].then = then]
       /\ UNCHANGED <<releasePhase, handle, session>>

\* requestReleaseAndAwait of a resident that is busy or not.
requestReleaseAndAwait(j, then, busy) ==
  IF releasePhase = "NONE" /\ ~busy
  THEN releaseResidentNow(j, then) /\ UNCHANGED releaseWaiters
  ELSE /\ releasePhase' = IF releasePhase = "NONE" THEN "REQUESTED" ELSE releasePhase
       /\ releaseWaiters' = Append(releaseWaiters, j)
       /\ job' = [job EXCEPT ![j].pc = "wait", ![j].then = then]
       /\ UNCHANGED <<handle, session>>

\* acquireResidency of mode m, and the load that starts once it returns.
acquireResidency(j, m) ==
  IF residentHolder \in {None, m}
  THEN LET s == CHOOSE t \in Sessions : session[t].st = "none"
       IN  /\ residentHolder' = m /\ residentBusy' = TRUE
           /\ session' = [session EXCEPT ![s] = [of |-> m, st |-> "loading"]]
           /\ job' = [job EXCEPT ![j].pc = "init", ![j].sess = s]
           /\ UNCHANGED <<releasePhase, releaseWaiters, handle>>
  ELSE requestReleaseAndAwait(j, "acquire", residentBusy) /\ UNCHANGED <<residentHolder, residentBusy>>

\* releaseResidentModel of mode m: to go on with then at once when m does not own the slot.
releaseResidentModel(j, m, then) ==
  /\ residentHolder = m
  /\ requestReleaseAndAwait(j, then, residentBusy)
  /\ UNCHANGED <<residentHolder, residentBusy>>

\* nativeCallSettled of mode m, when it performs the release that waits for it.
SettledIntoRelease(j, m, then) ==
  /\ residentHolder = m /\ releasePhase = "REQUESTED"
  /\ residentBusy' = FALSE
  /\ releaseResidentNow(j, then)
  /\ UNCHANGED <<residentHolder, releaseWaiters>>

\* MUTANT of FreeDone: resetToUnloadedState is left out.
FreeDoneNoReset(j) ==
  LET m == job[j].of
  IN  /\ Main /\ job[j].pc = "free"
      /\ session' = Gone(job[j].sess)
      /\ residentHolder' = IF residentHolder = m THEN None ELSE residentHolder
      /\ residentBusy' = IF residentHolder = m THEN FALSE ELSE residentBusy
      /\ releasePhase' = "NONE"
      /\ runq' = Append(releaseWaiters, j) /\ releaseWaiters' = <<>>
      /\ job' = [job EXCEPT ![j].pc = "wait", ![j].sess = None]
      /\ UNCHANGED <<screen, handle, library, followed, activity>>

\* The rest of releaseResidentNow: resetToUnloadedState, and the waiters in their order.
FreeDone(j) ==
  LET m == job[j].of
  IN  /\ Main /\ job[j].pc = "free"
      /\ session' = Gone(job[j].sess)
      /\ phase' = [phase EXCEPT ![m] = OnDisk(selected[m])] /\ generating' = [generating EXCEPT ![m] = FALSE]
      /\ residentHolder' = IF residentHolder = m THEN None ELSE residentHolder
      /\ residentBusy' = IF residentHolder = m THEN FALSE ELSE residentBusy
      /\ releasePhase' = "NONE"
      /\ runq' = Append(releaseWaiters, j) /\ releaseWaiters' = <<>>
      /\ job' = [job EXCEPT ![j].pc = "wait", ![j].sess = None]
      /\ UNCHANGED <<handle, library, followed, activity>>

\* dropResidency of mode m; the jobs it resumes run before the caller j goes on.
dropResidency(m, caller) ==
  IF residentHolder # m
  THEN runq' = caller /\ UNCHANGED <<residentHolder, residentBusy, releasePhase, releaseWaiters>>
  ELSE /\ residentHolder' = None /\ residentBusy' = FALSE
       /\ IF releasePhase = "RUNNING"
          THEN runq' = caller /\ UNCHANGED <<releasePhase, releaseWaiters>>
          ELSE releasePhase' = "NONE" /\ releaseWaiters' = <<>> /\ runq' = releaseWaiters \o caller

-----------------------------------------------------------------------------
InFlight(m)  == \E k \in Kinds : job[<<m, k>>].pc # "idle"
Orphans      == {j \in Jobs : job[j].pc \in {"orphanLoad", "orphanFree", "orphanCall"}}

\* loadModel, up to acquireResidency.
LoadModel(m, j) ==
  /\ Main /\ phase[m] = "DOWNLOADED" /\ j \in Loads(m) /\ job[j].pc = "idle"
  /\ "restart" \notin Quick => Orphans = {}
  /\ phase' = [phase EXCEPT ![m] = "LOADING"]
  /\ job' = [job EXCEPT ![j] = [Idle EXCEPT !.pc = "wait", !.then = "acquire", !.key = selected[m]]]
  /\ runq' = <<j>>
  /\ UNCHANGED <<residentHolder, residentBusy, releasePhase, releaseWaiters, generating, handle, session,
                 library, followed, activity>>

\* The native init returns on its worker, which stores the handle, or fails, or what follows it does.
InitOk(j) ==
  /\ job[j].pc = "init"
  /\ handle' = [handle EXCEPT ![j[1]] = job[j].sess]
  /\ session' = [session EXCEPT ![job[j].sess].st = "live"]
  /\ job' = [job EXCEPT ![j].pc = "inited"]
  /\ UNCHANGED <<residency, screen, library, followed, activity>>
InitFails(j) ==
  /\ MayFail /\ job[j].pc = "init"
  /\ \/ session' = Gone(job[j].sess) /\ UNCHANGED handle
     \/ /\ session' = [session EXCEPT ![job[j].sess].st = "live"]
        /\ handle' = [handle EXCEPT ![j[1]] = job[j].sess]
  /\ job' = [job EXCEPT ![j].pc = "failed", ![j].sess = None]
  /\ UNCHANGED <<residency, screen, library, followed, activity>>

\* loadModel after nativeCallSettled has returned: publish the session, or give it up when the mode
\* is no longer what was loaded.
FinishLoad(j, m) ==
  LET current == job[j].key \in onDisk /\ selected[m] = job[j].key
  IN  \/ /\ residentHolder # m /\ job' = [job EXCEPT ![j] = Idle]
         /\ UNCHANGED <<residentBusy, releasePhase, releaseWaiters, handle, session, phase>>
      \/ /\ residentHolder = m /\ current
         /\ phase' = [phase EXCEPT ![m] = "READY"] /\ job' = [job EXCEPT ![j] = Idle]
         /\ residentBusy' = IF job[j].pc = "inited" THEN FALSE ELSE residentBusy
         /\ UNCHANGED <<releasePhase, releaseWaiters, handle, session>>
      \/ /\ residentHolder = m /\ ~current
         /\ residentBusy' = IF job[j].pc = "inited" THEN FALSE ELSE residentBusy
         /\ requestReleaseAndAwait(j, "done", residentBusy')
         /\ UNCHANGED phase
LoadSettled(j) ==
  LET m == j[1]
  IN  /\ Main /\ job[j].pc = "inited"
      /\ \/ SettledIntoRelease(j, m, "finish") /\ UNCHANGED phase
         \/ ~(residentHolder = m /\ releasePhase = "REQUESTED") /\ FinishLoad(j, m) /\ UNCHANGED residentHolder
      /\ UNCHANGED <<runq, generating, library, followed, activity>>

\* MUTANT of LoadFailed: the slot is given up without the session the failed load left.
LoadFailedLeak(j) ==
  /\ Main /\ job[j].pc = "failed"
  /\ dropResidency(j[1], <<j>>)
  /\ job' = [job EXCEPT ![j].pc = "wait", ![j].then = "back"]
  /\ UNCHANGED <<screen, handle, session, library, followed, activity>>

\* MUTANT of LoadFailed: the slot is given up while the session is still being freed.
LoadFailedEarly(j) ==
  LET m == j[1]
      h == handle[m]
  IN  /\ Main /\ job[j].pc = "failed"
      /\ handle' = [handle EXCEPT ![m] = None]
      /\ session' = IF h = None THEN session ELSE Freeing(h)
      /\ dropResidency(m, IF h = None THEN <<j>> ELSE <<>>)
      /\ job' = IF h = None THEN [job EXCEPT ![j].pc = "wait", ![j].then = "back"]
                ELSE [job EXCEPT ![j].pc = "abandon", ![j].sess = h]
      /\ UNCHANGED <<screen, library, followed, activity>>

\* The catch of loadModel: free what the failed load left, drop the slot, and then show why.
LoadFailed(j) ==
  LET m == j[1]
      h == handle[m]
  IN  /\ Main /\ job[j].pc = "failed"
      /\ IF h # None
         THEN /\ handle' = [handle EXCEPT ![m] = None] /\ session' = Freeing(h)
              /\ job' = [job EXCEPT ![j].pc = "abandon", ![j].sess = h]
              /\ UNCHANGED residency
         ELSE /\ dropResidency(m, <<j>>)
              /\ job' = [job EXCEPT ![j].pc = "wait", ![j].then = "back"]
              /\ UNCHANGED <<handle, session>>
      /\ UNCHANGED <<screen, library, followed, activity>>
Abandoned(j) ==
  /\ Main /\ job[j].pc = "abandon"
  /\ session' = Gone(job[j].sess)
  /\ dropResidency(j[1], <<j>>)
  /\ job' = [job EXCEPT ![j].pc = "wait", ![j].then = "back", ![j].sess = None]
  /\ UNCHANGED <<screen, handle, library, followed, activity>>

\* A turn: the call starts, its last native call returns, and the call settles.
StartTurn(m) ==
  LET j == <<m, "turn">>
  IN  /\ Main /\ phase[m] = "READY" /\ handle[m] # None /\ ~generating[m] /\ job[j].pc = "idle"
      /\ generating' = [generating EXCEPT ![m] = TRUE]
      /\ residentBusy' = IF residentHolder = m THEN TRUE ELSE residentBusy
      /\ job' = [job EXCEPT ![j].pc = "call", ![j].sess = handle[m]]
      /\ UNCHANGED <<residentHolder, releasePhase, releaseWaiters, runq, phase, handle, session,
                     library, followed, activity>>
CallReturns(j) ==
  /\ job[j].pc = "call"
  /\ job' = [job EXCEPT ![j].pc = "returned"]
  /\ UNCHANGED <<residency, screen, handle, session, library, followed, activity>>
FinishTurn(j, m) ==
  /\ generating' = IF residentHolder = m THEN [generating EXCEPT ![m] = FALSE] ELSE generating
  /\ job' = [job EXCEPT ![j] = Idle]
\* MUTANT of TurnSettled: the turn ends without nativeCallSettled looking for a release.
TurnSettledPlain(j) ==
  /\ Main /\ job[j].pc = "returned" /\ FinishTurn(j, j[1])
  /\ residentBusy' = IF residentHolder = j[1] THEN FALSE ELSE residentBusy
  /\ UNCHANGED <<residentHolder, releasePhase, releaseWaiters, runq, phase, handle, session, library,
                 followed, activity>>

TurnSettled(j) ==
  LET m == j[1]
  IN  /\ Main /\ job[j].pc = "returned"
      /\ \/ SettledIntoRelease(j, m, "finishTurn") /\ UNCHANGED generating
         \/ /\ ~(residentHolder = m /\ releasePhase = "REQUESTED") /\ FinishTurn(j, m)
            /\ residentBusy' = IF residentHolder = m THEN FALSE ELSE residentBusy
            /\ UNCHANGED <<residentHolder, releasePhase, releaseWaiters, handle, session>>
      /\ UNCHANGED <<runq, phase, library, followed, activity>>

-----------------------------------------------------------------------------
\* The library and the variant picker, and the collectors that follow them.

\* The presence collector sees only what is new to it when it runs, and a failed load shows the
\* variant it was for.
Delete(k) ==
  /\ k \in Deletable \cap onDisk
  /\ "delete" \notin Quick =>
       /\ \A m \in Modes : k = selected[m] => Present(m) = seenPresent[m]
       /\ \A j \in Jobs : job[j].key \notin {None, selected[j[1]]} => k \notin {job[j].key, selected[j[1]]}
  /\ onDisk' = onDisk \ {k}
  /\ UNCHANGED <<residency, job, screen, handle, session, selected, followed, activity>>
Download(k) ==
  /\ k \in Deletable \ onDisk
  /\ "download" \notin Quick =>
       \A m \in Modes : k \in Offered[m] => ~InFlight(m) /\ Present(m) = seenPresent[m]
  /\ onDisk' = onDisk \cup {k}
  /\ UNCHANGED <<residency, job, screen, handle, session, selected, followed, activity>>

\* A release launched by Unload or by the presence collector.  One that finds the mode without the
\* slot, or one already waiting for it, changes nothing.
LaunchRelease(m) ==
  LET j == <<m, "release">>
  IN  IF residentHolder = m /\ job[j].pc = "idle"
      THEN releaseResidentModel(j, m, "done")
      ELSE UNCHANGED <<residentHolder, residentBusy, releasePhase, releaseWaiters, job, handle, session>>
Unload(m) ==
  /\ Main /\ phase[m] = "READY" /\ residentHolder = m /\ job[<<m, "release">>].pc = "idle"
  /\ LaunchRelease(m)
  /\ UNCHANGED <<runq, screen, library, followed, activity>>

\* MUTANT of CollectPresence: a model that is there is offered again whatever the screen shows.
CollectPresenceAlways(m) ==
  /\ Main /\ Present(m) # seenPresent[m]
  /\ seenPresent' = [seenPresent EXCEPT ![m] = Present(m)]
  /\ IF Present(m)
     THEN /\ phase' = [phase EXCEPT ![m] = "DOWNLOADED"]
          /\ UNCHANGED <<residentHolder, residentBusy, releasePhase, releaseWaiters, job, handle, session>>
     ELSE phase' = [phase EXCEPT ![m] = "MISSING"] /\ LaunchRelease(m)
  /\ UNCHANGED <<runq, generating, library, seenKey, activity>>

CollectPresence(m) ==
  /\ Main /\ Present(m) # seenPresent[m]
  /\ seenPresent' = [seenPresent EXCEPT ![m] = Present(m)]
  /\ IF Present(m)
     THEN /\ phase' = [phase EXCEPT ![m] = IF @ = "MISSING" THEN "DOWNLOADED" ELSE @]
          /\ UNCHANGED <<residentHolder, residentBusy, releasePhase, releaseWaiters, job, handle, session>>
     ELSE phase' = [phase EXCEPT ![m] = "MISSING"] /\ LaunchRelease(m)
  /\ UNCHANGED <<runq, generating, library, seenKey, activity>>

\* The variant collector takes a key: it gives the session of the previous choice up, and then shows
\* the new one.
Reflect(m, k) == [phase EXCEPT ![m] = IF @ # "LOADING" /\ handle[m] = None THEN OnDisk(k) ELSE @]
CollectKey(m) ==
  LET j == <<m, "switch">>
  IN  /\ job[j].pc = "idle"
      /\ seenKey' = [seenKey EXCEPT ![m] = selected'[m]]
      /\ \/ releaseResidentModel(j, m, "reflect") /\ UNCHANGED phase
         \/ /\ residentHolder # m /\ phase' = Reflect(m, selected'[m])
            /\ UNCHANGED <<residentHolder, residentBusy, releasePhase, releaseWaiters, job, handle, session>>
      /\ UNCHANGED <<runq, generating, seenPresent, onDisk, activity>>

\* The picker sets the key; the collector takes it at once, or when its release is over.
PickModel(m, k) ==
  /\ Main /\ k \in Offered[m] \ {selected[m]}
  /\ "reselect" \notin Quick /\ InFlight(m) => {k, selected[m]} \subseteq onDisk
  /\ selected' = [selected EXCEPT ![m] = k]
  /\ \/ CollectKey(m)
     \/ /\ job[<<m, "switch">>].pc # "idle"
        /\ UNCHANGED <<residency, job, screen, handle, session, onDisk, followed, activity>>
CollectPending(m) ==
  /\ Free /\ selected[m] # seenKey[m]
  /\ UNCHANGED selected /\ CollectKey(m)

\* A completed waiter resumes its job j, which goes on.
GoesOn(j) ==
  LET m == j[1]
      then == job[j].then
  IN  \/ /\ then = "acquire" /\ acquireResidency(j, m) /\ UNCHANGED screen
      \/ /\ then = "finish" /\ FinishLoad(j, m) /\ UNCHANGED <<residentHolder, generating>>
      \/ /\ then = "finishTurn" /\ FinishTurn(j, m)
         /\ UNCHANGED <<residentHolder, residentBusy, releasePhase, releaseWaiters, handle, session, phase>>
      \/ /\ then \in {"reflect", "back", "done"} /\ job' = [job EXCEPT ![j] = Idle]
         /\ phase' = CASE then = "reflect" -> Reflect(m, selected[m])
                       [] then = "back" -> [phase EXCEPT ![m] = OnDisk(job[j].key)]
                       [] then = "done" -> phase
         /\ UNCHANGED <<residentHolder, residentBusy, releasePhase, releaseWaiters, handle, session, generating>>
Resume ==
  /\ runq # <<>> /\ runq' = Tail(runq)
  /\ \/ Head(runq) # None /\ GoesOn(Head(runq))
     \/ Head(runq) = None /\ UNCHANGED <<residentHolder, residentBusy, releasePhase, releaseWaiters, job,
                                         screen, handle, session>>
  /\ UNCHANGED <<library, followed, activity>>

-----------------------------------------------------------------------------
\* The activity is finished: the view models are cleared one after another, and when it is started
\* again there are new ones.  A native call of a cleared view model goes on without it.

Acquires(j) == job[j].pc = "wait" /\ job[j].then = "acquire"
FinishActivity(order) ==
  /\ Main /\ clears < MaxClears
  /\ "restart" \notin Quick =>
       \A i, j \in Jobs : i # j /\ Acquires(j) => ~Acquires(i) /\ job[i].pc \notin {"init", "abandon"}
  /\ clearing' = order /\ clears' = clears + 1
  /\ UNCHANGED <<residency, job, screen, handle, session, library, followed>>

\* What becomes of a job when its scope is cancelled: a load in the native init runs its catch when
\* that returns, a native free goes on, a turn ends in its native call, and the others stop.
Orphan(j) ==
  CASE job[j].pc = "init" -> [job[j] EXCEPT !.pc = "orphanLoad"]
    [] job[j].pc \in {"free", "abandon"} -> [job[j] EXCEPT !.pc = "orphanFree"]
    [] job[j].pc = "call" -> [job[j] EXCEPT !.pc = "orphanCall"]
    [] job[j].pc \in {"orphanLoad", "orphanFree", "orphanCall"} -> job[j]
    [] OTHER -> Idle

\* onCleared.
Clear ==
  LET m    == Head(clearing)
      mine == {m} \X Kinds
      left == [i \in DOMAIN releaseWaiters |-> IF releaseWaiters[i] \in mine THEN None ELSE releaseWaiters[i]]
  IN  /\ runq = <<>> /\ clearing # <<>> /\ clearing' = Tail(clearing)
      /\ job' = [j \in Jobs |-> IF j \in mine THEN Orphan(j) ELSE job[j]]
      /\ handle' = [handle EXCEPT ![m] = None] /\ session' = Gone(handle[m])
      /\ IF residentHolder # m
         THEN releaseWaiters' = left /\ UNCHANGED <<residentHolder, residentBusy, releasePhase, runq>>
         ELSE /\ residentHolder' = None /\ residentBusy' = FALSE
              /\ IF releasePhase = "RUNNING"
                 THEN releaseWaiters' = left /\ UNCHANGED <<releasePhase, runq>>
                 ELSE releasePhase' = "NONE" /\ releaseWaiters' = <<>> /\ runq' = left
      /\ phase' = [phase EXCEPT ![m] = OnDisk(selected[m])] /\ generating' = [generating EXCEPT ![m] = FALSE]
      /\ seenKey' = [seenKey EXCEPT ![m] = selected[m]]
      /\ seenPresent' = [seenPresent EXCEPT ![m] = Present(m)]
      /\ UNCHANGED <<library, clears>>
OrphanEnds(j) ==
  /\ j \in Orphans
  /\ session' = IF job[j].pc = "orphanCall" THEN session ELSE Gone(job[j].sess)
  /\ job' = [job EXCEPT ![j] = Idle]
  /\ UNCHANGED <<residency, screen, handle, library, followed, activity>>

-----------------------------------------------------------------------------
Orders == {o \in [1 .. Cardinality(Modes) -> Modes] : \A a, b \in DOMAIN o : a # b => o[a] # o[b]}

\* What the user does.
User ==
  \/ \E m \in Modes : \/ \E j \in Loads(m) : LoadModel(m, j)
                      \/ StartTurn(m) \/ Unload(m) \/ \E k \in Keys : PickModel(m, k)
  \/ \E k \in Keys : Delete(k) \/ Download(k)
  \/ \E o \in Orders : FinishActivity(o)
\* What goes on by itself.
JobStep(j) ==
  \/ FreeDone(j) \/ InitOk(j) \/ InitFails(j) \/ LoadSettled(j) \/ LoadFailed(j) \/ Abandoned(j)
  \/ CallReturns(j) \/ TurnSettled(j) \/ OrphanEnds(j)
Collect(m) == CollectPresence(m) \/ CollectPending(m)
Next == User \/ Resume \/ Clear \/ (\E j \in Jobs : JobStep(j)) \/ (\E m \in Modes : Collect(m))

\* Native calls return (a reply is bounded by maxNew), and the main thread serves every event.
Fairness ==
  /\ WF_vars(Resume) /\ WF_vars(Clear)
  /\ \A j \in Jobs : WF_vars(JobStep(j))
  /\ \A m \in Modes : WF_vars(Collect(m))
Spec == Init /\ [][Next]_vars /\ Fairness

-----------------------------------------------------------------------------
JobState ==
  [pc : {"idle", "wait", "init", "inited", "failed", "abandon", "call", "returned", "free",
         "orphanLoad", "orphanFree", "orphanCall"},
   then : {"acquire", "finish", "finishTurn", "reflect", "back", "done"},
   sess : Sessions \cup {None}, of : Modes \cup {None}, key : Keys \cup {None}]

\* Every variable has its type (the fields of ModelResidency and of the view models).
TypeOK ==
  /\ residentHolder \in Modes \cup {None} /\ residentBusy \in BOOLEAN
  /\ releasePhase \in {"NONE", "REQUESTED", "RUNNING"}
  /\ {releaseWaiters, runq} \subseteq Seq(Jobs \cup {None}) /\ job \in [Jobs -> JobState]
  /\ phase \in [Modes -> {"MISSING", "DOWNLOADED", "LOADING", "READY"}]
  /\ generating \in [Modes -> BOOLEAN] /\ handle \in [Modes -> Sessions \cup {None}]
  /\ session \in [Sessions -> [of : Modes \cup {None}, st : {"none", "loading", "live", "freeing"}]]
  /\ selected \in [Modes -> Keys] /\ seenKey \in [Modes -> Keys] /\ seenPresent \in [Modes -> BOOLEAN]
  /\ onDisk \subseteq Keys /\ clearing \in Seq(Modes) /\ clears \in 0 .. MaxClears

\* At most one native session exists at any moment, its load and its free included
\* (ModelResidency.kt:6-9: two resident models exceed device memory).
AtMostOneSession == \A s, t \in Sessions : s # t => "none" \in {session[s].st, session[t].st}

\* No release frees a session while a native call of a turn runs on it (ModelResidency.kt:13-17).
NoFreeDuringCall == \A j \in Jobs : job[j].pc = "call" => session[job[j].sess].st = "live"

\* Every live session can still be reached: it is the handle of the mode that owns the slot, so that
\* Unload or the next acquirer frees it, or the load that made it is about to free it.
NoSessionLeaks ==
  \A s \in Sessions : session[s].st = "live" => residentHolder = session[s].of /\ handle[session[s].of] = s

\* A screen that offers the model has it: its mode owns the slot and a live session, or the release
\* of that session is running and will reset the screen.
ReadyIsLoaded ==
  \A m \in Modes : phase[m] = "READY" => residentHolder = m /\ (handle[m] = None => releasePhase = "RUNNING")

\* With nothing left to do for a mode, its screen tells the truth about its chosen model: READY with
\* a session, or else what is on the device (a missing model is not offered, a present one is).
Quiet(m) ==
  /\ runq = <<>> /\ ~InFlight(m) /\ (releasePhase = "RUNNING" => residentHolder # m)
  /\ selected[m] = seenKey[m] /\ Present(m) = seenPresent[m]
ScreenIsTrue == \A m \in Modes : Quiet(m) => phase[m] = IF handle[m] # None THEN "READY" ELSE OnDisk(selected[m])

\* Every job that waits for a release goes on, no acquirer waits forever for a resident that is
\* itself waiting (ModelResidency.kt:60-63), unless the job that ran the release was cancelled.
ReleaseAbandoned == releasePhase = "RUNNING" /\ \A j \in Jobs : job[j].pc # "free"
ReleasesComplete == \A j \in Jobs : (job[j].pc = "wait") ~> (job[j].pc # "wait" \/ ReleaseAbandoned)

\* What VlmViewModel.kt:43-44 says: a session is never torn down in a native call.
NeverTornDownMidRun ==
  \A j \in Jobs : job[j].pc \in {"call", "orphanCall"} => session[job[j].sess].st = "live"
\* What ModelResidency.kt:59-62 says of acquireResidency: it returns once the resident is gone.
LoadsGetTheSlot == \A j \in Jobs : (job[j].pc = "wait") ~> (job[j].pc # "wait")
=============================================================================
