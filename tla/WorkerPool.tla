----------------------------- MODULE WorkerPool -----------------------------
(***************************************************************************)
(* The persistent pool behind cpu::parallelFor (backend/cpu/parallel.cpp). *)
(*                                                                         *)
(* Caller threads (sessions of one process, each running CPU operators)    *)
(* open parallel regions; pool workers claim task indices from an atomic   *)
(* counter, and the caller returns when every worker of the generation has *)
(* retired.  One action is one critical section or one shared access, so   *)
(* TLC explores every interleaving of the threads.  The region's mutex is  *)
(* "owner"; the short mu_ sections are atomic actions.                     *)
(*                                                                         *)
(* History variables (no counterpart in the code): closure, which          *)
(* function object a thread is executing; ran, how often each index was    *)
(* entered; threw, which indices of the current region failed.             *)
(***************************************************************************)
EXTENDS Integers, FiniteSets

CONSTANTS
  Callers,      \* threads that call parallelFor
  MaxTasks,     \* largest chunk count a parallelFor asks for (Config::cpuThreads)
  MaxDispatch,  \* bound on the regions opened in one behaviour
  None          \* no caller, no closure, a null task_

ASSUME PoolAssumption ==
  /\ MaxTasks \in Nat /\ MaxTasks >= 2
  /\ MaxDispatch \in Nat
  /\ Callers \cap Int = {}
  /\ None \notin Callers

Workers == 1 .. MaxTasks - 1   \* worker w is workers_[w - 1]
Index   == 0 .. MaxTasks - 1
Threads == Callers \cup Workers
NoError == -1

VARIABLES
  owner,        \* dispatchMu_: the caller that holds it
  size,         \* workers_.size()
  task, nTasks, next, awake, err, gen, stop,   \* the members of Pool, less the underscore
  dispatches,
  cpc, want,    \* per caller: where it is, and the task count it asked for
  caught,       \* per caller: the exception_ptr e that dispatch() took
  outcome,      \* per caller: how its last parallelFor ended
  wpc, seen, claim,   \* per worker: where it is, its generation, its index
  inRegion,     \* tlInParallel of every thread
  exit,         \* ~Pool(): where the static destructor is
  closure, ran, threw

shared   == <<task, nTasks, next, awake, err, gen, stop>>
callerVs == <<owner, dispatches, cpc, want, caught, outcome>>
workerVs == <<size, wpc, seen, claim>>
history  == <<closure, ran, threw>>
vars     == <<shared, callerVs, workerVs, inRegion, exit, history>>

CallerPc == {"idle", "entering", "ensuring", "publishing", "notifying", "starting",
             "body", "nested", "checking", "asleep", "leaving"}
WorkerPc == {"unborn", "born", "polling", "asleep", "claiming", "claimed",
             "body", "nested", "blocked", "retiring", "signalling", "exited"}

InBody(t) == IF t \in Callers THEN cpc[t] \in {"body", "nested"}
                              ELSE wpc[t] \in {"body", "nested"}

Init ==
  /\ owner = None /\ size = 0
  /\ task = None /\ nTasks = 0 /\ next = 0 /\ awake = 0 /\ err = NoError
  /\ gen = 0 /\ stop = FALSE /\ dispatches = 0
  /\ cpc = [c \in Callers |-> "idle"] /\ want = [c \in Callers |-> 0]
  /\ caught = [c \in Callers |-> NoError] /\ outcome = [c \in Callers |-> "none"]
  /\ wpc = [w \in Workers |-> "unborn"] /\ seen = [w \in Workers |-> 0]
  /\ claim = [w \in Workers |-> 0]
  /\ inRegion = [t \in Threads |-> FALSE]
  /\ exit = "running"
  /\ closure = [t \in Threads |-> None] /\ ran = [i \in Index |-> 0] /\ threw = {}

-----------------------------------------------------------------------------
\* The caller: parallelFor and Pool::dispatch.

\* parallelFor from outside any region: the nested test fails, so it goes to the pool.
ParallelFor(c, n) ==
  /\ cpc[c] = "idle" /\ exit = "running"
  /\ dispatches + Cardinality({d \in Callers : cpc[d] = "entering"}) < MaxDispatch
  /\ IF inRegion[c]
     THEN /\ outcome' = [outcome EXCEPT ![c] = "serial"]
          /\ UNCHANGED <<cpc, want>>
     ELSE /\ cpc' = [cpc EXCEPT ![c] = "entering"]
          /\ want' = [want EXCEPT ![c] = n]
          /\ UNCHANGED outcome
  /\ UNCHANGED <<shared, owner, dispatches, caught, workerVs, inRegion, exit, history>>

\* lock dispatchMu_, count the dispatch.
Enter(c) ==
  /\ cpc[c] = "entering" /\ owner = None
  /\ owner' = c
  /\ dispatches' = dispatches + 1
  /\ cpc' = [cpc EXCEPT ![c] = "ensuring"]
  /\ UNCHANGED <<shared, want, caught, outcome, workerVs, inRegion, exit, history>>

\* MUTANTS of Spawn: the generation a new worker starts from is the one about to be
\* published, so it sleeps through it; or is zero, so it wakes before anything is published.
SpawnAfterBump(k) ==
  /\ size' = k
  /\ wpc'  = [w \in Workers |-> IF size < w /\ w <= k THEN "born" ELSE wpc[w]]
  /\ seen' = [w \in Workers |-> IF size < w /\ w <= k THEN gen + 1 ELSE seen[w]]

SpawnFromZero(k) ==
  /\ size' = k
  /\ wpc'  = [w \in Workers |-> IF size < w /\ w <= k THEN "born" ELSE wpc[w]]
  /\ UNCHANGED seen

\* Grow workers_ to k threads; each new one carries the generation it was born in.
Spawn(k) ==
  /\ size' = k
  /\ wpc'  = [w \in Workers |-> IF size < w /\ w <= k THEN "born" ELSE wpc[w]]
  /\ seen' = [w \in Workers |-> IF size < w /\ w <= k THEN gen ELSE seen[w]]

\* ensure(nTasks - 1)
Ensure(c) ==
  /\ cpc[c] = "ensuring"
  /\ Spawn(IF size < want[c] - 1 THEN want[c] - 1 ELSE size)
  /\ cpc' = [cpc EXCEPT ![c] = "publishing"]
  /\ UNCHANGED <<shared, owner, dispatches, want, caught, outcome, claim, inRegion, exit, history>>

\* ensure() when the system refuses a thread: std::thread throws after k workers exist,
\* and the exception leaves dispatch() before anything was published.
EnsureThrows(c) ==
  /\ cpc[c] = "ensuring"
  /\ \E k \in size .. want[c] - 2 : Spawn(k)
  /\ owner' = None
  /\ outcome' = [outcome EXCEPT ![c] = "noThread"]
  /\ cpc' = [cpc EXCEPT ![c] = "idle"]
  /\ UNCHANGED <<shared, dispatches, want, caught, claim, inRegion, exit, history>>

\* MUTANTS of Publish: awake_ counts the tasks, not the workers that will wake; or the
\* workers' claims start at index 0, which the caller runs.
PublishCountingTasks(c) ==
  /\ cpc[c] = "publishing"
  /\ task' = c /\ nTasks' = want[c] /\ next' = 1 /\ awake' = want[c] - 1
  /\ err' = NoError /\ gen' = gen + 1
  /\ cpc' = [cpc EXCEPT ![c] = "notifying"]
  /\ ran' = [i \in Index |-> 0] /\ threw' = {}
  /\ UNCHANGED <<stop, owner, dispatches, want, caught, outcome, workerVs, inRegion, exit, closure>>

PublishFromZero(c) ==
  /\ cpc[c] = "publishing"
  /\ task' = c /\ nTasks' = want[c] /\ next' = 0 /\ awake' = size
  /\ err' = NoError /\ gen' = gen + 1
  /\ cpc' = [cpc EXCEPT ![c] = "notifying"]
  /\ ran' = [i \in Index |-> 0] /\ threw' = {}
  /\ UNCHANGED <<stop, owner, dispatches, want, caught, outcome, workerVs, inRegion, exit, closure>>

\* The publishing critical section of dispatch().
Publish(c) ==
  /\ cpc[c] = "publishing"
  /\ task' = c
  /\ nTasks' = want[c]
  /\ next' = 1
  /\ awake' = size
  /\ err' = NoError
  /\ gen' = gen + 1
  /\ cpc' = [cpc EXCEPT ![c] = "notifying"]
  /\ ran' = [i \in Index |-> 0] /\ threw' = {}
  /\ UNCHANGED <<stop, owner, dispatches, want, caught, outcome, workerVs, inRegion, exit, closure>>

\* cv_.notify_all(): every worker waiting on cv_ re-evaluates its predicate.
WakeWorkers == wpc' = [w \in Workers |-> IF wpc[w] = "asleep" THEN "polling" ELSE wpc[w]]

NotifyWorkers(c) ==
  /\ cpc[c] = "notifying"
  /\ WakeWorkers
  /\ cpc' = [cpc EXCEPT ![c] = "starting"]
  /\ UNCHANGED <<shared, owner, dispatches, want, caught, outcome, size, seen, claim, inRegion,
                 exit, history>>

\* runTask(i) up to the call of (*task_)(i).
EnterTask(t, i) ==
  /\ inRegion' = [inRegion EXCEPT ![t] = TRUE]
  /\ closure' = [closure EXCEPT ![t] = task]
  /\ ran' = [ran EXCEPT ![i] = @ + 1]

\* MUTANTS of LeaveTask: the caller's own exception is not recorded; or the region flag is
\* left set on the exceptional path.
LeaveTaskIgnoringCaller(t, i, throws) ==
  /\ err' = IF throws /\ err = NoError /\ t \in Workers THEN i ELSE err
  /\ threw' = IF throws THEN threw \cup {i} ELSE threw
  /\ inRegion' = [inRegion EXCEPT ![t] = t \in Workers]
  /\ closure' = [closure EXCEPT ![t] = None]

LeaveTaskKeepingFlag(t, i, throws) ==
  /\ err' = IF throws /\ err = NoError THEN i ELSE err
  /\ threw' = IF throws THEN threw \cup {i} ELSE threw
  /\ inRegion' = [inRegion EXCEPT ![t] = throws \/ t \in Workers]
  /\ closure' = [closure EXCEPT ![t] = None]

\* runTask(i) from the call's return or exception on; a worker's flag was already set on
\* entry (outer is false), so only the caller's is cleared.
LeaveTask(t, i, throws) ==
  /\ IF throws
     THEN /\ err' = IF err = NoError THEN i ELSE err
          /\ threw' = threw \cup {i}
     ELSE UNCHANGED <<err, threw>>
  /\ inRegion' = [inRegion EXCEPT ![t] = t \in Workers]
  /\ closure' = [closure EXCEPT ![t] = None]

RunTask0(c) ==
  /\ cpc[c] = "starting"
  /\ EnterTask(c, 0)
  /\ cpc' = [cpc EXCEPT ![c] = "body"]
  /\ UNCHANGED <<shared, owner, dispatches, want, caught, outcome, workerVs, exit, threw>>

FinishTask0(c, throws) ==
  /\ cpc[c] \in {"body", "nested"}
  /\ LeaveTask(c, 0, throws)
  /\ cpc' = [cpc EXCEPT ![c] = "checking"]
  /\ UNCHANGED <<task, nTasks, next, awake, gen, stop, owner, dispatches, want, caught, outcome,
                 workerVs, exit, ran>>

\* doneCv_.wait's predicate holds, and the rest of that critical section.
\* MUTANT: the caller stops waiting one retirement early.
CollectOneShort(c) ==
  /\ cpc[c] = "checking" /\ awake <= 1
  /\ caught' = [caught EXCEPT ![c] = err]
  /\ err' = NoError /\ task' = None
  /\ cpc' = [cpc EXCEPT ![c] = "leaving"]
  /\ UNCHANGED <<nTasks, next, awake, gen, stop, owner, dispatches, want, outcome, workerVs,
                 inRegion, exit, history>>

Collect(c) ==
  /\ cpc[c] = "checking" /\ awake = 0
  /\ caught' = [caught EXCEPT ![c] = err]
  /\ err' = NoError
  /\ task' = None
  /\ cpc' = [cpc EXCEPT ![c] = "leaving"]
  /\ UNCHANGED <<nTasks, next, awake, gen, stop, owner, dispatches, want, outcome, workerVs,
                 inRegion, exit, history>>

\* The predicate does not hold: wait on doneCv_.
WaitDone(c) ==
  /\ cpc[c] = "checking" /\ awake # 0
  /\ cpc' = [cpc EXCEPT ![c] = "asleep"]
  /\ UNCHANGED <<shared, owner, dispatches, want, caught, outcome, workerVs, inRegion, exit, history>>

\* rethrow or return; either way the region lock is released.
Return(c) ==
  /\ cpc[c] = "leaving"
  /\ outcome' = [outcome EXCEPT ![c] = IF caught[c] = NoError THEN "ok" ELSE "error"]
  /\ owner' = None
  /\ cpc' = [cpc EXCEPT ![c] = "idle"]
  /\ UNCHANGED <<shared, dispatches, want, caught, workerVs, inRegion, exit, history>>

-----------------------------------------------------------------------------
\* A worker: workerLoop.

StartLoop(w) ==
  /\ wpc[w] = "born"
  /\ inRegion' = [inRegion EXCEPT ![w] = TRUE]
  /\ wpc' = [wpc EXCEPT ![w] = "polling"]
  /\ UNCHANGED <<shared, callerVs, size, seen, claim, exit, history>>

\* cv_.wait's predicate, evaluated under mu_: leave the loop, join the generation, or sleep.
Quit(w) ==
  /\ wpc[w] = "polling" /\ stop
  /\ seen' = [seen EXCEPT ![w] = gen]
  /\ wpc' = [wpc EXCEPT ![w] = "exited"]
  /\ UNCHANGED <<shared, callerVs, size, claim, inRegion, exit, history>>

JoinRegion(w) ==
  /\ wpc[w] = "polling" /\ ~stop /\ gen # seen[w]
  /\ seen' = [seen EXCEPT ![w] = gen]
  /\ wpc' = [wpc EXCEPT ![w] = "claiming"]
  /\ UNCHANGED <<shared, callerVs, size, claim, inRegion, exit, history>>

Sleep(w) ==
  /\ wpc[w] = "polling" /\ ~stop /\ gen = seen[w]
  /\ wpc' = [wpc EXCEPT ![w] = "asleep"]
  /\ UNCHANGED <<shared, callerVs, size, seen, claim, inRegion, exit, history>>

\* next_.fetch_add(1)
Claim(w) ==
  /\ wpc[w] = "claiming"
  /\ claim' = [claim EXCEPT ![w] = next]
  /\ next' = next + 1
  /\ wpc' = [wpc EXCEPT ![w] = "claimed"]
  /\ UNCHANGED <<task, nTasks, awake, err, gen, stop, callerVs, size, seen, inRegion, exit, history>>

\* The loop test i >= nTasks_, and the task it admits.
NoneLeft(w) ==
  /\ wpc[w] = "claimed" /\ claim[w] >= nTasks
  /\ wpc' = [wpc EXCEPT ![w] = "retiring"]
  /\ UNCHANGED <<shared, callerVs, size, seen, claim, inRegion, exit, history>>

RunClaimed(w) ==
  /\ wpc[w] = "claimed" /\ claim[w] < nTasks
  /\ EnterTask(w, claim[w])
  /\ wpc' = [wpc EXCEPT ![w] = "body"]
  /\ UNCHANGED <<shared, callerVs, size, seen, claim, exit, threw>>

FinishClaimed(w, throws) ==
  /\ wpc[w] \in {"body", "nested"}
  /\ LeaveTask(w, claim[w], throws)
  /\ wpc' = [wpc EXCEPT ![w] = "claiming"]
  /\ UNCHANGED <<task, nTasks, next, awake, gen, stop, callerVs, size, seen, claim, exit, ran>>

\* --awake_ under mu_; the last worker goes on to notify.
Retire(w) ==
  /\ wpc[w] = "retiring"
  /\ awake' = awake - 1
  /\ wpc' = [wpc EXCEPT ![w] = IF awake = 1 THEN "signalling" ELSE "polling"]
  /\ UNCHANGED <<task, nTasks, next, err, gen, stop, callerVs, size, seen, claim, inRegion, exit,
                 history>>

\* doneCv_.notify_all()
Signal(w) ==
  /\ wpc[w] = "signalling"
  /\ cpc' = [c \in Callers |-> IF cpc[c] = "asleep" THEN "checking" ELSE cpc[c]]
  /\ wpc' = [wpc EXCEPT ![w] = "polling"]
  /\ UNCHANGED <<shared, owner, dispatches, want, caught, outcome, size, seen, claim, inRegion, exit,
                 history>>

-----------------------------------------------------------------------------
\* parallelFor inside a task body: inline on this thread when it is marked as in a region,
\* otherwise down the dispatch() path, to the region mutex its own region holds ("blocked"
\* has no way out).
NestedCaller(c) ==
  /\ cpc[c] = "body"
  /\ cpc' = [cpc EXCEPT ![c] = IF inRegion[c] THEN "nested" ELSE "entering"]
  /\ UNCHANGED <<shared, owner, dispatches, want, caught, outcome, workerVs, inRegion, exit, history>>

NestedWorker(w) ==
  /\ wpc[w] = "body"
  /\ wpc' = [wpc EXCEPT ![w] = IF inRegion[w] THEN "nested" ELSE "blocked"]
  /\ UNCHANGED <<shared, callerVs, size, seen, claim, inRegion, exit, history>>

\* A condition variable may wake its waiter for no reason; the waiter re-evaluates.
SpuriousWake(w) ==
  /\ wpc[w] = "asleep"
  /\ wpc' = [wpc EXCEPT ![w] = "polling"]
  /\ UNCHANGED <<shared, callerVs, size, seen, claim, inRegion, exit, history>>

SpuriousCheck(c) ==
  /\ cpc[c] = "asleep"
  /\ cpc' = [cpc EXCEPT ![c] = "checking"]
  /\ UNCHANGED <<shared, owner, dispatches, want, caught, outcome, workerVs, inRegion, exit, history>>

-----------------------------------------------------------------------------
\* ~Pool(), the destructor of a static: it runs after main, with no dispatch in flight.

StopPool ==
  /\ exit = "running"
  /\ \A c \in Callers : cpc[c] = "idle"
  /\ stop' = TRUE
  /\ gen' = gen + 1
  /\ exit' = "stopped"
  /\ UNCHANGED <<task, nTasks, next, awake, err, callerVs, workerVs, inRegion, history>>

\* MUTANT of NotifyStop: stop_ is set but the sleeping workers are not woken.
NotifyStopSilently ==
  /\ exit = "stopped"
  /\ exit' = "joining"
  /\ UNCHANGED <<shared, callerVs, workerVs, inRegion, history>>

NotifyStop ==
  /\ exit = "stopped"
  /\ WakeWorkers
  /\ exit' = "joining"
  /\ UNCHANGED <<shared, callerVs, size, seen, claim, inRegion, history>>

Join ==
  /\ exit = "joining"
  /\ \A w \in 1 .. size : wpc[w] = "exited"
  /\ exit' = "gone"
  /\ UNCHANGED <<shared, callerVs, workerVs, inRegion, history>>

Terminated == exit = "gone" /\ UNCHANGED vars

-----------------------------------------------------------------------------
CallerStep(c) ==
  \/ Enter(c) \/ Ensure(c) \/ EnsureThrows(c) \/ Publish(c) \/ NotifyWorkers(c)
  \/ RunTask0(c) \/ NestedCaller(c) \/ Collect(c) \/ WaitDone(c) \/ Return(c)
  \/ \E throws \in BOOLEAN : FinishTask0(c, throws)

WorkerStep(w) ==
  \/ StartLoop(w) \/ Quit(w) \/ JoinRegion(w) \/ Sleep(w) \/ Claim(w) \/ NoneLeft(w) \/ RunClaimed(w) \/ NestedWorker(w)
  \/ Retire(w) \/ Signal(w)
  \/ \E throws \in BOOLEAN : FinishClaimed(w, throws)

PoolExit == NotifyStop \/ Join

Next ==
  \/ \E c \in Callers, n \in 2 .. MaxTasks : ParallelFor(c, n)
  \/ \E c \in Callers : CallerStep(c) \/ SpuriousCheck(c)
  \/ \E w \in Workers : WorkerStep(w) \/ SpuriousWake(w)
  \/ StopPool \/ PoolExit \/ Terminated

Spec == Init /\ [][Next]_vars

\* The scheduler runs every thread that can run, and task bodies return.  Opening a region
\* and leaving main are the program's choice, a spurious wake-up the system's: not fair.
Fairness ==
  /\ \A c \in Callers : WF_vars(CallerStep(c))
  /\ \A w \in Workers : WF_vars(WorkerStep(w))
  /\ WF_vars(PoolExit)

FairSpec == Spec /\ Fairness

-----------------------------------------------------------------------------
\* Properties

TypeOK ==
  /\ owner \in Callers \cup {None}
  /\ size \in 0 .. MaxTasks - 1
  /\ task \in Callers \cup {None}
  /\ nTasks \in 0 .. MaxTasks /\ next \in Nat /\ awake \in 0 .. MaxTasks - 1
  /\ err \in Index \cup {NoError}
  /\ gen \in Nat /\ stop \in BOOLEAN /\ dispatches \in Nat
  /\ cpc \in [Callers -> CallerPc]
  /\ want \in [Callers -> 0 .. MaxTasks]
  /\ caught \in [Callers -> Index \cup {NoError}]
  /\ outcome \in [Callers -> {"none", "ok", "error", "noThread", "serial"}]
  /\ wpc \in [Workers -> WorkerPc]
  /\ seen \in [Workers -> Nat] /\ claim \in [Workers -> Nat]
  /\ inRegion \in [Threads -> BOOLEAN]
  /\ exit \in {"running", "stopped", "joining", "gone"}
  /\ closure \in [Threads -> Callers \cup {None}]
  /\ ran \in [Index -> Nat] /\ threw \in SUBSET Index

\* A worker between its wake-up and its retirement reads task_ and nTasks_.
Active(w) == wpc[w] \in {"claiming", "claimed", "body", "nested", "blocked", "retiring"}

\* When dispatch() is about to return, each index of its region has been executed exactly
\* once and no thread is still inside a task: nothing was skipped by a worker that slept
\* through the generation, nothing was run twice by one that claimed late.
RegionComplete ==
  \A c \in Callers : cpc[c] = "leaving" =>
    /\ \A i \in 0 .. want[c] - 1 : ran[i] = 1
    /\ \A w \in Workers : ~Active(w)

\* Every thread inside a task executes the function object of the caller that holds the
\* region lock, and that caller has not reached the end of dispatch(): the std::function
\* behind task_ is alive for as long as anyone can be running it.
NoDanglingTask ==
  \A t \in Threads : InBody(t) =>
    /\ closure[t] = owner /\ owner \in Callers
    /\ cpc[owner] \notin {"idle", "entering", "ensuring", "publishing", "leaving"}

\* The exception a dispatch rethrows was thrown by a task of that same dispatch, and a
\* dispatch one of whose tasks threw never returns normally: err_ is neither lost when the
\* caller's own task is the one that throws nor carried over from an earlier region.
ErrorDelivered ==
  \A c \in Callers : cpc[c] = "leaving" =>
    IF threw = {} THEN caught[c] = NoError ELSE caught[c] \in threw

\* A parallelFor inside a task never waits for the region mutex its own region holds, and
\* once the region is over the caller's next parallelFor is not mistaken for a nested one.
NestingIsInline ==
  /\ \A c \in Callers : owner = c => cpc[c] # "entering"
  /\ \A w \in Workers : wpc[w] # "blocked"
  /\ \A c \in Callers : outcome[c] # "serial"

\* What the comment on workerLoop relies on: task_ and nTasks_ do not change while some
\* worker is between its wake-up and its retirement.
TaskStableWhileActive ==
  [][(\E w \in Workers : Active(w)) => UNCHANGED <<task, nTasks>>]_vars

\* The pool's destructor returns: no worker sleeps through stop_.
ExitCompletes == (exit = "stopped") ~> (exit = "gone")

-----------------------------------------------------------------------------
\* The inductive invariant behind them.

\* The phases of a dispatch: it holds the region lock; its task is published.
Holding(c)   == cpc[c] \notin {"idle", "entering"}
Published(c) == cpc[c] \in {"notifying", "starting", "body", "nested", "checking", "asleep"}

\* Workers that still owe the current generation a retirement, running or yet to wake.
Idle(w)    == wpc[w] \in {"born", "polling", "asleep", "signalling"}
Pending(w) == Active(w) \/ (Idle(w) /\ seen[w] # gen)
Owing      == {w \in Workers : Pending(w)}

OwnerInv == \A c \in Callers : (owner = c) <=> Holding(c)

\* The workers that exist are 1 .. size, and they leave only once stop_ is set.
BirthInv ==
  /\ \A w \in Workers : (wpc[w] = "unborn") <=> (size < w)
  /\ \A w \in Workers : wpc[w] = "exited" => stop

\* The destructor starts when nobody dispatches, and nobody dispatches after it.
StopInv ==
  /\ (exit = "running") <=> ~stop
  /\ exit # "running" => \A c \in Callers : cpc[c] = "idle"

\* task_ is set exactly while its owner is in a published phase, and the pool is big enough.
TaskInv ==
  /\ \A c \in Callers : cpc[c] # "idle" => want[c] \in 2 .. MaxTasks
  /\ \A c \in Callers : cpc[c] = "publishing" => want[c] - 1 <= size
  /\ \A c \in Callers : Published(c) <=> task = c
  /\ task # None => nTasks = want[task] /\ nTasks - 1 <= size

\* Workers run only while a task is published, in the generation that published it.
ActiveInv == \A w \in Workers : Active(w) => seen[w] = gen /\ task # None

\* The countdown equals the workers that owe a retirement; while nothing is published none
\* does, unless the pool is being destroyed.
CountInv ==
  /\ task # None => awake = Cardinality(Owing)
  /\ task = None /\ exit = "running" => Owing = {}

FlagInv ==
  /\ \A c \in Callers : inRegion[c] <=> InBody(c)
  /\ \A w \in Workers : inRegion[w] <=> wpc[w] \notin {"unborn", "born"}
  /\ \A w \in Workers : wpc[w] # "blocked"
  /\ \A c \in Callers : outcome[c] # "serial"

ClosureInv == \A t \in Threads : InBody(t) => closure[t] = task

\* What a worker holds came off the counter in this region.
Holds(w) == wpc[w] \in {"claimed", "body", "nested"}

ClaimInv ==
  /\ task # None => next >= 1
  /\ \A w \in Workers : Holds(w) => claim[w] \in 1 .. next - 1
  /\ \A w \in Workers : wpc[w] \in {"body", "nested"} => claim[w] < nTasks

UniqueInv == \A v, w \in Workers : Holds(v) /\ Holds(w) /\ claim[v] = claim[w] => v = w

\* An index below the counter has been entered once, unless its claimant is between the
\* fetch_add and the call; one not below it has not been entered.
Unentered(i) == \E w \in Workers : wpc[w] = "claimed" /\ claim[w] = i

RanInv ==
  task # None =>
    /\ ran[0] = (IF cpc[task] \in {"notifying", "starting"} THEN 0 ELSE 1)
    /\ \A i \in 1 .. nTasks - 1 :
         ran[i] = (IF next <= i \/ Unentered(i) THEN 0 ELSE 1)

\* A worker retires only from a region whose indices have all been handed out.
Retired(w) == wpc[w] = "retiring" \/ (wpc[w] # "unborn" /\ ~Pending(w))

ExhaustedInv == task # None => \A w \in Workers : Retired(w) => nTasks <= next

ErrorInv == task # None => IF threw = {} THEN err = NoError ELSE err \in threw

IInv ==
  /\ TypeOK /\ OwnerInv /\ BirthInv /\ StopInv /\ TaskInv /\ ActiveInv /\ CountInv
  /\ FlagInv /\ ClosureInv /\ ClaimInv /\ UniqueInv /\ RanInv /\ ExhaustedInv /\ ErrorInv
  /\ RegionComplete /\ ErrorDelivered /\ NestingIsInline

-----------------------------------------------------------------------------
\* The contract of dispatch(), and how the pool's state maps to it.

\* The caller whose region is open: from the publication of its task to the release of the
\* region lock.
RegionOwner == IF owner # None /\ (Published(owner) \/ cpc[owner] = "leaving") THEN owner ELSE None

Unstarted == IF RegionOwner = None THEN {} ELSE {i \in 0 .. want[owner] - 1 : ran[i] = 0}
Running   == {claim[w] : w \in {v \in Workers : InBody(v)}}
               \cup {0 : c \in {d \in Callers : InBody(d)}}
Failed    == RegionOwner # None
               /\ (IF cpc[owner] = "leaving" THEN caught[owner] ELSE err) # NoError

Abstract == INSTANCE ParallelRegion
              WITH region <- RegionOwner, todo <- Unstarted, running <- Running, failed <- Failed

\* The pool implements the contract of dispatch(), including that an open region closes:
\* no schedule of workers and callers, no late wake-up and no throwing task leaves a caller
\* waiting for a retirement that will not come.
ImplementsParallelRegion == Abstract!Spec
=============================================================================
