-------------------------- MODULE WorkerPoolProofs --------------------------
(***************************************************************************)
(* Proofs about WorkerPool for any set of callers, any pool size and any   *)
(* number of regions: IInv is inductive, and from it follow type           *)
(* correctness, the safety invariants and the stability of the published   *)
(* task, and that the pool implements ParallelRegion step by step.  There  *)
(* is one lemma per conjunct of IInv, and in it one step per action that   *)
(* changes a variable the conjunct reads.                                  *)
(***************************************************************************)
EXTENDS WorkerPool, TLAPS, FiniteSetTheorems

\* What growing the pool to k workers leaves behind, pointwise.
SpawnTo(k) ==
  /\ size' = k
  /\ wpc' \in [Workers -> WorkerPc] /\ seen' \in [Workers -> Nat]
  /\ \A w \in Workers : size < w /\ w <= k => wpc'[w] = "born" /\ seen'[w] = gen
  /\ \A w \in Workers : ~(size < w /\ w <= k) => wpc'[w] = wpc[w] /\ seen'[w] = seen[w]

\* ensure(): whether it completes or throws, the pool has grown to some k >= size; when it
\* completes there is a worker for every task but the caller's own.
LEMMA EnsureEffect ==
  ASSUME TypeOK, TaskInv, NEW c \in Callers, Ensure(c) \/ EnsureThrows(c)
  PROVE  \E k \in size .. MaxTasks - 1 : SpawnTo(k) /\ (Ensure(c) => want[c] - 1 <= k)
<1>1. /\ size \in 0 .. MaxTasks - 1 /\ want[c] \in 2 .. MaxTasks /\ MaxTasks \in Nat
      /\ wpc \in [Workers -> WorkerPc] /\ seen \in [Workers -> Nat] /\ gen \in Nat
  BY PoolAssumption DEF TypeOK, TaskInv, Ensure, EnsureThrows
<1>2. ASSUME NEW k \in size .. MaxTasks - 1, Spawn(k)
      PROVE  SpawnTo(k)
  BY <1>1, <1>2 DEF Spawn, SpawnTo, WorkerPc
<1>3. CASE Ensure(c)
  <2> DEFINE k == IF size < want[c] - 1 THEN want[c] - 1 ELSE size
  <2>1. k \in size .. MaxTasks - 1 /\ want[c] - 1 <= k
    BY <1>1
  <2>2. Spawn(k)
    BY <1>3 DEF Ensure
  <2> HIDE DEF k
  <2> QED
    BY <2>1, <2>2, <1>2
<1>4. CASE EnsureThrows(c)
  <2>1. PICK k \in size .. want[c] - 2 : Spawn(k)
    BY <1>4 DEF EnsureThrows
  <2>2. k \in size .. MaxTasks - 1
    BY <1>1, <2>1
  <2>3. ~Ensure(c)
    BY <1>4, <1>1 DEF Ensure, EnsureThrows, TypeOK
  <2> QED
    BY <2>1, <2>2, <2>3, <1>2
<1> QED
  BY <1>3, <1>4

\* The workers that owe a retirement are finitely many.
LEMMA OwingFinite ==
  /\ IsFiniteSet(Owing)
  /\ Cardinality(Owing) \in Nat
  /\ Cardinality(Owing) = 0 <=> Owing = {}
<1>1. IsFiniteSet(Workers)
  BY FS_Interval, PoolAssumption DEF Workers
<1>2. Owing \in SUBSET Workers
  BY DEF Owing
<1>3. IsFiniteSet(Owing)
  BY <1>1, <1>2, FS_Subset
<1> QED
  BY <1>3, FS_EmptySet, FS_CardinalityType

\* The region lock is held exactly by the caller inside a dispatch.
LEMMA OwnerInvStep ==
  ASSUME TypeOK, OwnerInv, FlagInv, [Next]_vars
  PROVE  OwnerInv'
<1>1. ASSUME NEW c \in Callers, NEW n \in 2 .. MaxTasks, ParallelFor(c, n)
      PROVE  OwnerInv'
  BY <1>1, PoolAssumption DEF ParallelFor, TypeOK, OwnerInv, Holding, FlagInv, InBody, shared,
     callerVs, workerVs, history
<1>2. ASSUME NEW c \in Callers, Enter(c)
      PROVE  OwnerInv'
  BY <1>2, PoolAssumption DEF Enter, TypeOK, OwnerInv, Holding, FlagInv, InBody, shared,
     callerVs, workerVs, history
<1>3. ASSUME NEW c \in Callers, Ensure(c)
      PROVE  OwnerInv'
  BY <1>3, PoolAssumption DEF Ensure, Spawn, TypeOK, OwnerInv, Holding, FlagInv, InBody, shared,
     callerVs, workerVs, history
<1>4. ASSUME NEW c \in Callers, EnsureThrows(c)
      PROVE  OwnerInv'
  BY <1>4, PoolAssumption DEF EnsureThrows, Spawn, TypeOK, OwnerInv, Holding, FlagInv, InBody,
     shared, callerVs, workerVs, history
<1>5. ASSUME NEW c \in Callers, Publish(c)
      PROVE  OwnerInv'
  BY <1>5, PoolAssumption DEF Publish, TypeOK, OwnerInv, Holding, FlagInv, InBody, shared,
     callerVs, workerVs, history
<1>6. ASSUME NEW c \in Callers, NotifyWorkers(c)
      PROVE  OwnerInv'
  BY <1>6, PoolAssumption DEF NotifyWorkers, WakeWorkers, TypeOK, OwnerInv, Holding, FlagInv,
     InBody, shared, callerVs, workerVs, history
<1>7. ASSUME NEW c \in Callers, RunTask0(c)
      PROVE  OwnerInv'
  BY <1>7, PoolAssumption DEF RunTask0, EnterTask, TypeOK, OwnerInv, Holding, FlagInv, InBody,
     shared, callerVs, workerVs, history
<1>8. ASSUME NEW c \in Callers, NestedCaller(c)
      PROVE  OwnerInv'
  BY <1>8, PoolAssumption DEF NestedCaller, TypeOK, OwnerInv, Holding, FlagInv, InBody, shared,
     callerVs, workerVs, history
<1>9. ASSUME NEW c \in Callers, NEW throws \in BOOLEAN, FinishTask0(c, throws)
      PROVE  OwnerInv'
  BY <1>9, PoolAssumption DEF FinishTask0, LeaveTask, TypeOK, OwnerInv, Holding, FlagInv,
     InBody, shared, callerVs, workerVs, history
<1>10. ASSUME NEW c \in Callers, WaitDone(c)
      PROVE  OwnerInv'
  BY <1>10, PoolAssumption DEF WaitDone, TypeOK, OwnerInv, Holding, FlagInv, InBody, shared,
     callerVs, workerVs, history
<1>11. ASSUME NEW c \in Callers, Collect(c)
      PROVE  OwnerInv'
  BY <1>11, PoolAssumption DEF Collect, TypeOK, OwnerInv, Holding, FlagInv, InBody, shared,
     callerVs, workerVs, history
<1>12. ASSUME NEW c \in Callers, Return(c)
      PROVE  OwnerInv'
  BY <1>12, PoolAssumption DEF Return, TypeOK, OwnerInv, Holding, FlagInv, InBody, shared,
     callerVs, workerVs, history
<1>13. ASSUME NEW c \in Callers, SpuriousCheck(c)
      PROVE  OwnerInv'
  BY <1>13, PoolAssumption DEF SpuriousCheck, TypeOK, OwnerInv, Holding, FlagInv, InBody,
     shared, callerVs, workerVs, history
<1>14. ASSUME NEW w \in Workers, Signal(w)
      PROVE  OwnerInv'
  BY <1>14, PoolAssumption DEF Signal, TypeOK, OwnerInv, Holding, FlagInv, InBody, shared,
     callerVs, workerVs, history
<1>15. CASE UNCHANGED <<owner, cpc>>
  BY <1>15 DEF TypeOK, OwnerInv, Holding, FlagInv, InBody
<1>16.
     \/ \E c \in Callers, n \in 2 .. MaxTasks : ParallelFor(c, n)
     \/ \E c \in Callers :
          \/ Enter(c)
          \/ Ensure(c)
          \/ EnsureThrows(c)
          \/ Publish(c)
          \/ NotifyWorkers(c)
          \/ RunTask0(c)
          \/ NestedCaller(c)
          \/ WaitDone(c)
          \/ Collect(c)
          \/ Return(c)
          \/ SpuriousCheck(c)
     \/ \E c \in Callers, throws \in BOOLEAN : FinishTask0(c, throws)
     \/ \E w \in Workers :
          \/ Signal(w)
     \/ UNCHANGED <<owner, cpc>>
  BY DEF Next, CallerStep, WorkerStep, PoolExit, Terminated, StartLoop, Quit, JoinRegion, Sleep,
     Claim, NoneLeft, RunClaimed, NestedWorker, FinishClaimed, Retire, SpuriousWake, StopPool,
     NotifyStop, Join, vars, shared, callerVs, workerVs, history
<1> QED
  BY <1>1, <1>2, <1>3, <1>4, <1>5, <1>6, <1>7, <1>8, <1>9, <1>10, <1>11, <1>12, <1>13,
     <1>14, <1>15, <1>16

\* Workers are born in order and leave only after stop_.
LEMMA BirthInvStep ==
  ASSUME TypeOK, TaskInv, BirthInv, [Next]_vars
  PROVE  BirthInv'
<1>1. ASSUME NEW c \in Callers, Ensure(c)
      PROVE  BirthInv'
  <2>1. PICK k \in size .. MaxTasks - 1 : SpawnTo(k)
    BY <1>1, EnsureEffect
  <2>2. UNCHANGED stop
    BY <1>1 DEF Ensure, shared
  <2>3. ASSUME NEW w \in Workers
        PROVE  /\ (wpc'[w] = "unborn") <=> (size' < w)
               /\ wpc'[w] = "exited" => stop'
    <3>1. w \in Int /\ size \in Int /\ k \in Int /\ size <= k /\ size' = k
      BY <2>1, PoolAssumption DEF Workers, TypeOK, SpawnTo
    <3>2. CASE size < w /\ w <= k
      BY <2>1, <3>1, <3>2 DEF SpawnTo
    <3>3. CASE ~(size < w /\ w <= k)
      BY <2>1, <2>2, <3>1, <3>3 DEF SpawnTo, BirthInv
    <3> QED
      BY <3>2, <3>3
  <2> QED
    BY <2>3 DEF BirthInv
<1>2. ASSUME NEW c \in Callers, EnsureThrows(c)
      PROVE  BirthInv'
  <2>1. PICK k \in size .. MaxTasks - 1 : SpawnTo(k)
    BY <1>2, EnsureEffect
  <2>2. UNCHANGED stop
    BY <1>2 DEF EnsureThrows, shared
  <2>3. ASSUME NEW w \in Workers
        PROVE  /\ (wpc'[w] = "unborn") <=> (size' < w)
               /\ wpc'[w] = "exited" => stop'
    <3>1. w \in Int /\ size \in Int /\ k \in Int /\ size <= k /\ size' = k
      BY <2>1, PoolAssumption DEF Workers, TypeOK, SpawnTo
    <3>2. CASE size < w /\ w <= k
      BY <2>1, <3>1, <3>2 DEF SpawnTo
    <3>3. CASE ~(size < w /\ w <= k)
      BY <2>1, <2>2, <3>1, <3>3 DEF SpawnTo, BirthInv
    <3> QED
      BY <3>2, <3>3
  <2> QED
    BY <2>3 DEF BirthInv
<1>3. ASSUME NEW c \in Callers, NotifyWorkers(c)
      PROVE  BirthInv'
  BY <1>3 DEF NotifyWorkers, WakeWorkers, TypeOK, BirthInv, shared, callerVs, workerVs, history
<1>4. ASSUME NEW w \in Workers, StartLoop(w)
      PROVE  BirthInv'
  BY <1>4 DEF StartLoop, TypeOK, BirthInv, shared, callerVs, workerVs, history
<1>5. ASSUME NEW w \in Workers, Quit(w)
      PROVE  BirthInv'
  BY <1>5 DEF Quit, TypeOK, BirthInv, shared, callerVs, workerVs, history
<1>6. ASSUME NEW w \in Workers, JoinRegion(w)
      PROVE  BirthInv'
  BY <1>6 DEF JoinRegion, TypeOK, BirthInv, shared, callerVs, workerVs, history
<1>7. ASSUME NEW w \in Workers, Sleep(w)
      PROVE  BirthInv'
  BY <1>7 DEF Sleep, TypeOK, BirthInv, shared, callerVs, workerVs, history
<1>8. ASSUME NEW w \in Workers, Claim(w)
      PROVE  BirthInv'
  BY <1>8 DEF Claim, TypeOK, BirthInv, shared, callerVs, workerVs, history
<1>9. ASSUME NEW w \in Workers, NoneLeft(w)
      PROVE  BirthInv'
  BY <1>9 DEF NoneLeft, TypeOK, BirthInv, shared, callerVs, workerVs, history
<1>10. ASSUME NEW w \in Workers, RunClaimed(w)
      PROVE  BirthInv'
  BY <1>10 DEF RunClaimed, EnterTask, TypeOK, BirthInv, shared, callerVs, workerVs, history
<1>11. ASSUME NEW w \in Workers, NestedWorker(w)
      PROVE  BirthInv'
  BY <1>11 DEF NestedWorker, TypeOK, BirthInv, shared, callerVs, workerVs, history
<1>12. ASSUME NEW w \in Workers, NEW throws \in BOOLEAN, FinishClaimed(w, throws)
      PROVE  BirthInv'
  BY <1>12 DEF FinishClaimed, LeaveTask, TypeOK, BirthInv, shared, callerVs, workerVs, history
<1>13. ASSUME NEW w \in Workers, Retire(w)
      PROVE  BirthInv'
  BY <1>13 DEF Retire, TypeOK, BirthInv, shared, callerVs, workerVs, history
<1>14. ASSUME NEW w \in Workers, Signal(w)
      PROVE  BirthInv'
  BY <1>14 DEF Signal, TypeOK, BirthInv, shared, callerVs, workerVs, history
<1>15. ASSUME NEW w \in Workers, SpuriousWake(w)
      PROVE  BirthInv'
  BY <1>15 DEF SpuriousWake, TypeOK, BirthInv, shared, callerVs, workerVs, history
<1>16. ASSUME StopPool
      PROVE  BirthInv'
  BY <1>16 DEF StopPool, TypeOK, BirthInv, shared, callerVs, workerVs, history
<1>17. ASSUME NotifyStop
      PROVE  BirthInv'
  BY <1>17 DEF NotifyStop, WakeWorkers, TypeOK, BirthInv, shared, callerVs, workerVs, history
<1>18. CASE UNCHANGED <<wpc, size, stop>>
  BY <1>18 DEF TypeOK, BirthInv
<1>19.
     \/ \E c \in Callers :
          \/ Ensure(c)
          \/ EnsureThrows(c)
          \/ NotifyWorkers(c)
     \/ \E w \in Workers :
          \/ StartLoop(w)
          \/ Quit(w)
          \/ JoinRegion(w)
          \/ Sleep(w)
          \/ Claim(w)
          \/ NoneLeft(w)
          \/ RunClaimed(w)
          \/ NestedWorker(w)
          \/ Retire(w)
          \/ Signal(w)
          \/ SpuriousWake(w)
     \/ \E w \in Workers, throws \in BOOLEAN : FinishClaimed(w, throws)
     \/ StopPool
     \/ NotifyStop
     \/ UNCHANGED <<wpc, size, stop>>
  BY DEF Next, CallerStep, WorkerStep, PoolExit, Terminated, ParallelFor, Enter, Publish,
     RunTask0, NestedCaller, FinishTask0, WaitDone, Collect, Return, SpuriousCheck, Join, vars,
     shared, callerVs, workerVs, history
<1> QED
  BY <1>1, <1>2, <1>3, <1>4, <1>5, <1>6, <1>7, <1>8, <1>9, <1>10, <1>11, <1>12, <1>13,
     <1>14, <1>15, <1>16, <1>17, <1>18, <1>19

\* stop_ is set by the destructor alone, which no dispatch overlaps.
LEMMA StopInvStep ==
  ASSUME TypeOK, StopInv, FlagInv, [Next]_vars
  PROVE  StopInv'
<1>1. ASSUME NEW c \in Callers, NEW n \in 2 .. MaxTasks, ParallelFor(c, n)
      PROVE  StopInv'
  BY <1>1 DEF ParallelFor, TypeOK, StopInv, FlagInv, InBody, shared, callerVs, workerVs, history
<1>2. ASSUME NEW c \in Callers, Enter(c)
      PROVE  StopInv'
  BY <1>2 DEF Enter, TypeOK, StopInv, FlagInv, InBody, shared, callerVs, workerVs, history
<1>3. ASSUME NEW c \in Callers, Ensure(c)
      PROVE  StopInv'
  BY <1>3 DEF Ensure, Spawn, TypeOK, StopInv, FlagInv, InBody, shared, callerVs, workerVs,
     history
<1>4. ASSUME NEW c \in Callers, EnsureThrows(c)
      PROVE  StopInv'
  BY <1>4 DEF EnsureThrows, Spawn, TypeOK, StopInv, FlagInv, InBody, shared, callerVs, workerVs,
     history
<1>5. ASSUME NEW c \in Callers, Publish(c)
      PROVE  StopInv'
  BY <1>5 DEF Publish, TypeOK, StopInv, FlagInv, InBody, shared, callerVs, workerVs, history
<1>6. ASSUME NEW c \in Callers, NotifyWorkers(c)
      PROVE  StopInv'
  BY <1>6 DEF NotifyWorkers, WakeWorkers, TypeOK, StopInv, FlagInv, InBody, shared, callerVs,
     workerVs, history
<1>7. ASSUME NEW c \in Callers, RunTask0(c)
      PROVE  StopInv'
  BY <1>7 DEF RunTask0, EnterTask, TypeOK, StopInv, FlagInv, InBody, shared, callerVs, workerVs,
     history
<1>8. ASSUME NEW c \in Callers, NestedCaller(c)
      PROVE  StopInv'
  BY <1>8 DEF NestedCaller, TypeOK, StopInv, FlagInv, InBody, shared, callerVs, workerVs,
     history
<1>9. ASSUME NEW c \in Callers, NEW throws \in BOOLEAN, FinishTask0(c, throws)
      PROVE  StopInv'
  BY <1>9 DEF FinishTask0, LeaveTask, TypeOK, StopInv, FlagInv, InBody, shared, callerVs,
     workerVs, history
<1>10. ASSUME NEW c \in Callers, WaitDone(c)
      PROVE  StopInv'
  BY <1>10 DEF WaitDone, TypeOK, StopInv, FlagInv, InBody, shared, callerVs, workerVs, history
<1>11. ASSUME NEW c \in Callers, Collect(c)
      PROVE  StopInv'
  BY <1>11 DEF Collect, TypeOK, StopInv, FlagInv, InBody, shared, callerVs, workerVs, history
<1>12. ASSUME NEW c \in Callers, Return(c)
      PROVE  StopInv'
  BY <1>12 DEF Return, TypeOK, StopInv, FlagInv, InBody, shared, callerVs, workerVs, history
<1>13. ASSUME NEW c \in Callers, SpuriousCheck(c)
      PROVE  StopInv'
  BY <1>13 DEF SpuriousCheck, TypeOK, StopInv, FlagInv, InBody, shared, callerVs, workerVs,
     history
<1>14. ASSUME NEW w \in Workers, Signal(w)
      PROVE  StopInv'
  BY <1>14 DEF Signal, TypeOK, StopInv, FlagInv, InBody, shared, callerVs, workerVs, history
<1>15. ASSUME StopPool
      PROVE  StopInv'
  BY <1>15 DEF StopPool, TypeOK, StopInv, FlagInv, InBody, shared, callerVs, workerVs, history
<1>16. ASSUME NotifyStop
      PROVE  StopInv'
  BY <1>16 DEF NotifyStop, WakeWorkers, TypeOK, StopInv, FlagInv, InBody, shared, callerVs,
     workerVs, history
<1>17. ASSUME Join
      PROVE  StopInv'
  BY <1>17 DEF Join, TypeOK, StopInv, FlagInv, InBody, shared, callerVs, workerVs, history
<1>18. CASE UNCHANGED <<exit, stop, cpc>>
  BY <1>18 DEF TypeOK, StopInv, FlagInv, InBody
<1>19.
     \/ \E c \in Callers, n \in 2 .. MaxTasks : ParallelFor(c, n)
     \/ \E c \in Callers :
          \/ Enter(c)
          \/ Ensure(c)
          \/ EnsureThrows(c)
          \/ Publish(c)
          \/ NotifyWorkers(c)
          \/ RunTask0(c)
          \/ NestedCaller(c)
          \/ WaitDone(c)
          \/ Collect(c)
          \/ Return(c)
          \/ SpuriousCheck(c)
     \/ \E c \in Callers, throws \in BOOLEAN : FinishTask0(c, throws)
     \/ \E w \in Workers :
          \/ Signal(w)
     \/ StopPool
     \/ NotifyStop
     \/ Join
     \/ UNCHANGED <<exit, stop, cpc>>
  BY DEF Next, CallerStep, WorkerStep, PoolExit, Terminated, StartLoop, Quit, JoinRegion, Sleep,
     Claim, NoneLeft, RunClaimed, NestedWorker, FinishClaimed, Retire, SpuriousWake, vars,
     shared, callerVs, workerVs, history
<1> QED
  BY <1>1, <1>2, <1>3, <1>4, <1>5, <1>6, <1>7, <1>8, <1>9, <1>10, <1>11, <1>12, <1>13,
     <1>14, <1>15, <1>16, <1>17, <1>18, <1>19

\* task_ points to the region owner's function from the publication to the collection.
LEMMA TaskInvStep ==
  ASSUME TypeOK, OwnerInv, FlagInv, TaskInv, [Next]_vars
  PROVE  TaskInv'
<1>1. ASSUME NEW c \in Callers, NEW n \in 2 .. MaxTasks, ParallelFor(c, n)
      PROVE  TaskInv'
  BY <1>1, PoolAssumption DEF ParallelFor, TypeOK, OwnerInv, Holding, Published, FlagInv,
     InBody, TaskInv, shared, callerVs, workerVs, history
<1>2. ASSUME NEW c \in Callers, Enter(c)
      PROVE  TaskInv'
  BY <1>2, PoolAssumption DEF Enter, TypeOK, OwnerInv, Holding, Published, FlagInv, InBody,
     TaskInv, shared, callerVs, workerVs, history
<1>3. ASSUME NEW c \in Callers, Ensure(c)
      PROVE  TaskInv'
  BY <1>3, PoolAssumption DEF Ensure, Spawn, TypeOK, OwnerInv, Holding, Published, FlagInv,
     InBody, TaskInv, shared, callerVs, workerVs, history
<1>4. ASSUME NEW c \in Callers, EnsureThrows(c)
      PROVE  TaskInv'
  BY <1>4, PoolAssumption DEF EnsureThrows, Spawn, TypeOK, OwnerInv, Holding, Published,
     FlagInv, InBody, TaskInv, shared, callerVs, workerVs, history
<1>5. ASSUME NEW c \in Callers, Publish(c)
      PROVE  TaskInv'
  BY <1>5, PoolAssumption DEF Publish, TypeOK, OwnerInv, Holding, Published, FlagInv, InBody,
     TaskInv, shared, callerVs, workerVs, history
<1>6. ASSUME NEW c \in Callers, NotifyWorkers(c)
      PROVE  TaskInv'
  BY <1>6, PoolAssumption DEF NotifyWorkers, WakeWorkers, TypeOK, OwnerInv, Holding, Published,
     FlagInv, InBody, TaskInv, shared, callerVs, workerVs, history
<1>7. ASSUME NEW c \in Callers, RunTask0(c)
      PROVE  TaskInv'
  BY <1>7, PoolAssumption DEF RunTask0, EnterTask, TypeOK, OwnerInv, Holding, Published,
     FlagInv, InBody, TaskInv, shared, callerVs, workerVs, history
<1>8. ASSUME NEW c \in Callers, NestedCaller(c)
      PROVE  TaskInv'
  BY <1>8, PoolAssumption DEF NestedCaller, TypeOK, OwnerInv, Holding, Published, FlagInv,
     InBody, TaskInv, shared, callerVs, workerVs, history
<1>9. ASSUME NEW c \in Callers, NEW throws \in BOOLEAN, FinishTask0(c, throws)
      PROVE  TaskInv'
  BY <1>9, PoolAssumption DEF FinishTask0, LeaveTask, TypeOK, OwnerInv, Holding, Published,
     FlagInv, InBody, TaskInv, shared, callerVs, workerVs, history
<1>10. ASSUME NEW c \in Callers, WaitDone(c)
      PROVE  TaskInv'
  BY <1>10, PoolAssumption DEF WaitDone, TypeOK, OwnerInv, Holding, Published, FlagInv, InBody,
     TaskInv, shared, callerVs, workerVs, history
<1>11. ASSUME NEW c \in Callers, Collect(c)
      PROVE  TaskInv'
  BY <1>11, PoolAssumption DEF Collect, TypeOK, OwnerInv, Holding, Published, FlagInv, InBody,
     TaskInv, shared, callerVs, workerVs, history
<1>12. ASSUME NEW c \in Callers, Return(c)
      PROVE  TaskInv'
  BY <1>12, PoolAssumption DEF Return, TypeOK, OwnerInv, Holding, Published, FlagInv, InBody,
     TaskInv, shared, callerVs, workerVs, history
<1>13. ASSUME NEW c \in Callers, SpuriousCheck(c)
      PROVE  TaskInv'
  BY <1>13, PoolAssumption DEF SpuriousCheck, TypeOK, OwnerInv, Holding, Published, FlagInv,
     InBody, TaskInv, shared, callerVs, workerVs, history
<1>14. ASSUME NEW w \in Workers, Signal(w)
      PROVE  TaskInv'
  BY <1>14, PoolAssumption DEF Signal, TypeOK, OwnerInv, Holding, Published, FlagInv, InBody,
     TaskInv, shared, callerVs, workerVs, history
<1>15. CASE UNCHANGED <<cpc, want, size, task, nTasks>>
  BY <1>15 DEF TypeOK, OwnerInv, Holding, Published, FlagInv, InBody, TaskInv
<1>16.
     \/ \E c \in Callers, n \in 2 .. MaxTasks : ParallelFor(c, n)
     \/ \E c \in Callers :
          \/ Enter(c)
          \/ Ensure(c)
          \/ EnsureThrows(c)
          \/ Publish(c)
          \/ NotifyWorkers(c)
          \/ RunTask0(c)
          \/ NestedCaller(c)
          \/ WaitDone(c)
          \/ Collect(c)
          \/ Return(c)
          \/ SpuriousCheck(c)
     \/ \E c \in Callers, throws \in BOOLEAN : FinishTask0(c, throws)
     \/ \E w \in Workers :
          \/ Signal(w)
     \/ UNCHANGED <<cpc, want, size, task, nTasks>>
  BY DEF Next, CallerStep, WorkerStep, PoolExit, Terminated, StartLoop, Quit, JoinRegion, Sleep,
     Claim, NoneLeft, RunClaimed, NestedWorker, FinishClaimed, Retire, SpuriousWake, StopPool,
     NotifyStop, Join, vars, shared, callerVs, workerVs, history
<1> QED
  BY <1>1, <1>2, <1>3, <1>4, <1>5, <1>6, <1>7, <1>8, <1>9, <1>10, <1>11, <1>12, <1>13,
     <1>14, <1>15, <1>16

\* Workers are active only while a task is published, in its generation.
LEMMA ActiveInvStep ==
  ASSUME TypeOK, OwnerInv, TaskInv, StopInv, CountInv, ActiveInv, [Next]_vars
  PROVE  ActiveInv'
<1>1. ASSUME NEW c \in Callers, Ensure(c)
      PROVE  ActiveInv'
  <2>1. PICK k \in size .. MaxTasks - 1 : SpawnTo(k)
    BY <1>1, EnsureEffect
  <2>2. UNCHANGED <<gen, task>>
    BY <1>1 DEF Ensure, shared, history
  <2> QED
    BY <2>1, <2>2, PoolAssumption DEF SpawnTo, TypeOK, ActiveInv, Active, Workers
<1>2. ASSUME NEW c \in Callers, EnsureThrows(c)
      PROVE  ActiveInv'
  <2>1. PICK k \in size .. MaxTasks - 1 : SpawnTo(k)
    BY <1>2, EnsureEffect
  <2>2. UNCHANGED <<gen, task>>
    BY <1>2 DEF EnsureThrows, shared, history
  <2> QED
    BY <2>1, <2>2, PoolAssumption DEF SpawnTo, TypeOK, ActiveInv, Active, Workers
<1>3. ASSUME NEW c \in Callers, Publish(c)
      PROVE  ActiveInv'
  <2>1. task = None
    BY <1>3 DEF Publish, TypeOK, TaskInv, OwnerInv, Holding, Published
  <2>2. \A w \in Workers : ~Active(w)
    BY <2>1 DEF ActiveInv
  <2> QED
    BY <2>2, <1>3 DEF Publish, ActiveInv, Active, workerVs
<1>4. ASSUME NEW c \in Callers, NotifyWorkers(c)
      PROVE  ActiveInv'
  BY <1>4 DEF NotifyWorkers, WakeWorkers, TypeOK, ActiveInv, Active, shared, callerVs, workerVs,
     history
<1>5. ASSUME NEW c \in Callers, Collect(c)
      PROVE  ActiveInv'
  <2>1. task = c
    BY <1>5 DEF Collect, TaskInv, Published
  <2>2. Owing = {}
    BY <2>1, <1>5, OwingFinite, PoolAssumption DEF Collect, CountInv
  <2>3. \A w \in Workers : ~Active(w)
    BY <2>2 DEF Owing, Pending
  <2> QED
    BY <2>3, <1>5 DEF Collect, ActiveInv, Active, workerVs
<1>6. ASSUME NEW w \in Workers, StartLoop(w)
      PROVE  ActiveInv'
  BY <1>6 DEF StartLoop, TypeOK, ActiveInv, Active, shared, callerVs, workerVs, history
<1>7. ASSUME NEW w \in Workers, Quit(w)
      PROVE  ActiveInv'
  BY <1>7 DEF Quit, TypeOK, ActiveInv, Active, shared, callerVs, workerVs, history
<1>8. ASSUME NEW w \in Workers, JoinRegion(w)
      PROVE  ActiveInv'
  <2>1. w \in Owing
    BY <1>8 DEF JoinRegion, Owing, Pending, Idle
  <2>2. task # None
    BY <2>1, <1>8 DEF JoinRegion, CountInv, StopInv
  <2> QED
    BY <2>2, <1>8 DEF JoinRegion, TypeOK, ActiveInv, Active, shared
<1>9. ASSUME NEW w \in Workers, Sleep(w)
      PROVE  ActiveInv'
  BY <1>9 DEF Sleep, TypeOK, ActiveInv, Active, shared, callerVs, workerVs, history
<1>10. ASSUME NEW w \in Workers, Claim(w)
      PROVE  ActiveInv'
  BY <1>10 DEF Claim, TypeOK, ActiveInv, Active, shared, callerVs, workerVs, history
<1>11. ASSUME NEW w \in Workers, NoneLeft(w)
      PROVE  ActiveInv'
  BY <1>11 DEF NoneLeft, TypeOK, ActiveInv, Active, shared, callerVs, workerVs, history
<1>12. ASSUME NEW w \in Workers, RunClaimed(w)
      PROVE  ActiveInv'
  BY <1>12 DEF RunClaimed, EnterTask, TypeOK, ActiveInv, Active, shared, callerVs, workerVs,
     history
<1>13. ASSUME NEW w \in Workers, NestedWorker(w)
      PROVE  ActiveInv'
  BY <1>13 DEF NestedWorker, TypeOK, ActiveInv, Active, shared, callerVs, workerVs, history
<1>14. ASSUME NEW w \in Workers, NEW throws \in BOOLEAN, FinishClaimed(w, throws)
      PROVE  ActiveInv'
  BY <1>14 DEF FinishClaimed, LeaveTask, TypeOK, ActiveInv, Active, shared, callerVs, workerVs,
     history
<1>15. ASSUME NEW w \in Workers, Retire(w)
      PROVE  ActiveInv'
  BY <1>15 DEF Retire, TypeOK, ActiveInv, Active, shared, callerVs, workerVs, history
<1>16. ASSUME NEW w \in Workers, Signal(w)
      PROVE  ActiveInv'
  BY <1>16 DEF Signal, TypeOK, ActiveInv, Active, shared, callerVs, workerVs, history
<1>17. ASSUME NEW w \in Workers, SpuriousWake(w)
      PROVE  ActiveInv'
  BY <1>17 DEF SpuriousWake, TypeOK, ActiveInv, Active, shared, callerVs, workerVs, history
<1>18. ASSUME StopPool
      PROVE  ActiveInv'
  <2>1. task = None
    BY <1>18 DEF StopPool, TypeOK, TaskInv, Published
  <2> QED
    BY <2>1, <1>18 DEF StopPool, ActiveInv, Active, workerVs
<1>19. ASSUME NotifyStop
      PROVE  ActiveInv'
  BY <1>19 DEF NotifyStop, WakeWorkers, TypeOK, ActiveInv, Active, shared, callerVs, workerVs,
     history
<1>20. CASE UNCHANGED <<wpc, seen, gen, task>>
  BY <1>20 DEF TypeOK, ActiveInv, Active
<1>21.
     \/ \E c \in Callers :
          \/ Ensure(c)
          \/ EnsureThrows(c)
          \/ Publish(c)
          \/ NotifyWorkers(c)
          \/ Collect(c)
     \/ \E w \in Workers :
          \/ StartLoop(w)
          \/ Quit(w)
          \/ JoinRegion(w)
          \/ Sleep(w)
          \/ Claim(w)
          \/ NoneLeft(w)
          \/ RunClaimed(w)
          \/ NestedWorker(w)
          \/ Retire(w)
          \/ Signal(w)
          \/ SpuriousWake(w)
     \/ \E w \in Workers, throws \in BOOLEAN : FinishClaimed(w, throws)
     \/ StopPool
     \/ NotifyStop
     \/ UNCHANGED <<wpc, seen, gen, task>>
  BY DEF Next, CallerStep, WorkerStep, PoolExit, Terminated, ParallelFor, Enter, RunTask0,
     NestedCaller, FinishTask0, WaitDone, Return, SpuriousCheck, Join, vars, shared, callerVs,
     workerVs, history
<1> QED
  BY <1>1, <1>2, <1>3, <1>4, <1>5, <1>6, <1>7, <1>8, <1>9, <1>10, <1>11, <1>12, <1>13,
     <1>14, <1>15, <1>16, <1>17, <1>18, <1>19, <1>20, <1>21

\* tlInParallel is set exactly on the callers inside a task and on the workers that started.
LEMMA FlagInvStep ==
  ASSUME TypeOK, TaskInv, BirthInv, FlagInv, [Next]_vars
  PROVE  FlagInv'
<1>1. ASSUME NEW c \in Callers, NEW n \in 2 .. MaxTasks, ParallelFor(c, n)
      PROVE  FlagInv'
  BY ZenonT(30), <1>1, PoolAssumption DEF ParallelFor, TypeOK, FlagInv, InBody, Threads, Workers, shared,
     callerVs, workerVs, history
<1>2. ASSUME NEW c \in Callers, Enter(c)
      PROVE  FlagInv'
  BY <1>2, PoolAssumption DEF Enter, TypeOK, FlagInv, InBody, Threads, Workers, shared,
     callerVs, workerVs, history
<1>3. ASSUME NEW c \in Callers, Ensure(c)
      PROVE  FlagInv'
  <2>1. PICK k \in size .. MaxTasks - 1 : SpawnTo(k)
    BY <1>3, EnsureEffect
  <2>2. /\ inRegion' = inRegion
        /\ \A d \in Callers : InBody(d)' <=> InBody(d)
        /\ \A d \in Callers : outcome'[d] # "serial"
    BY <1>3 DEF Ensure, TypeOK, InBody, FlagInv
  <2>3. \A w \in Workers : /\ inRegion'[w] <=> wpc'[w] \notin {"unborn", "born"}
                           /\ wpc'[w] # "blocked"
    BY <2>1, <2>2, PoolAssumption DEF SpawnTo, TypeOK, BirthInv, FlagInv, Workers
  <2> QED
    BY <2>2, <2>3 DEF FlagInv
<1>4. ASSUME NEW c \in Callers, EnsureThrows(c)
      PROVE  FlagInv'
  <2>1. PICK k \in size .. MaxTasks - 1 : SpawnTo(k)
    BY <1>4, EnsureEffect
  <2>2. /\ inRegion' = inRegion
        /\ \A d \in Callers : InBody(d)' <=> InBody(d)
        /\ \A d \in Callers : outcome'[d] # "serial"
    BY <1>4 DEF EnsureThrows, TypeOK, InBody, FlagInv
  <2>3. \A w \in Workers : /\ inRegion'[w] <=> wpc'[w] \notin {"unborn", "born"}
                           /\ wpc'[w] # "blocked"
    BY <2>1, <2>2, PoolAssumption DEF SpawnTo, TypeOK, BirthInv, FlagInv, Workers
  <2> QED
    BY <2>2, <2>3 DEF FlagInv
<1>5. ASSUME NEW c \in Callers, Publish(c)
      PROVE  FlagInv'
  BY <1>5, PoolAssumption DEF Publish, TypeOK, FlagInv, InBody, Threads, Workers, shared,
     callerVs, workerVs, history
<1>6. ASSUME NEW c \in Callers, NotifyWorkers(c)
      PROVE  FlagInv'
  BY <1>6, PoolAssumption DEF NotifyWorkers, WakeWorkers, TypeOK, FlagInv, InBody, Threads,
     Workers, shared, callerVs, workerVs, history
<1>7. ASSUME NEW c \in Callers, RunTask0(c)
      PROVE  FlagInv'
  BY <1>7, PoolAssumption DEF RunTask0, EnterTask, TypeOK, FlagInv, InBody, Threads, Workers,
     shared, callerVs, workerVs, history
<1>8. ASSUME NEW c \in Callers, NestedCaller(c)
      PROVE  FlagInv'
  BY <1>8, PoolAssumption DEF NestedCaller, TypeOK, FlagInv, InBody, Threads, Workers, shared,
     callerVs, workerVs, history
<1>9. ASSUME NEW c \in Callers, NEW throws \in BOOLEAN, FinishTask0(c, throws)
      PROVE  FlagInv'
  <2>1. c \notin Workers
    BY PoolAssumption DEF Workers
  <2>2. inRegion' = [inRegion EXCEPT ![c] = FALSE]
    <3>1. inRegion' = [inRegion EXCEPT ![c] = (c \in Workers)]
      BY <1>9 DEF FinishTask0, LeaveTask
    <3>2. (c \in Workers) = FALSE
      BY <2>1
    <3> QED
      BY <3>1, <3>2
  <2>3. UNCHANGED <<wpc, outcome>> /\ cpc' = [cpc EXCEPT ![c] = "checking"]
    BY <1>9 DEF FinishTask0, workerVs
  <2> QED
    BY <2>1, <2>2, <2>3, PoolAssumption DEF TypeOK, FlagInv, InBody, Threads, Workers
<1>10. ASSUME NEW c \in Callers, WaitDone(c)
      PROVE  FlagInv'
  BY <1>10, PoolAssumption DEF WaitDone, TypeOK, FlagInv, InBody, Threads, Workers, shared,
     callerVs, workerVs, history
<1>11. ASSUME NEW c \in Callers, Collect(c)
      PROVE  FlagInv'
  BY <1>11, PoolAssumption DEF Collect, TypeOK, FlagInv, InBody, Threads, Workers, shared,
     callerVs, workerVs, history
<1>12. ASSUME NEW c \in Callers, Return(c)
      PROVE  FlagInv'
  BY <1>12, PoolAssumption DEF Return, TypeOK, FlagInv, InBody, Threads, Workers, shared,
     callerVs, workerVs, history
<1>13. ASSUME NEW c \in Callers, SpuriousCheck(c)
      PROVE  FlagInv'
  BY <1>13, PoolAssumption DEF SpuriousCheck, TypeOK, FlagInv, InBody, Threads, Workers, shared,
     callerVs, workerVs, history
<1>14. ASSUME NEW w \in Workers, StartLoop(w)
      PROVE  FlagInv'
  BY <1>14, PoolAssumption DEF StartLoop, TypeOK, FlagInv, InBody, Threads, Workers, shared,
     callerVs, workerVs, history
<1>15. ASSUME NEW w \in Workers, Quit(w)
      PROVE  FlagInv'
  BY <1>15, PoolAssumption DEF Quit, TypeOK, FlagInv, InBody, Threads, Workers, shared,
     callerVs, workerVs, history
<1>16. ASSUME NEW w \in Workers, JoinRegion(w)
      PROVE  FlagInv'
  BY <1>16, PoolAssumption DEF JoinRegion, TypeOK, FlagInv, InBody, Threads, Workers, shared,
     callerVs, workerVs, history
<1>17. ASSUME NEW w \in Workers, Sleep(w)
      PROVE  FlagInv'
  BY <1>17, PoolAssumption DEF Sleep, TypeOK, FlagInv, InBody, Threads, Workers, shared,
     callerVs, workerVs, history
<1>18. ASSUME NEW w \in Workers, Claim(w)
      PROVE  FlagInv'
  BY <1>18, PoolAssumption DEF Claim, TypeOK, FlagInv, InBody, Threads, Workers, shared,
     callerVs, workerVs, history
<1>19. ASSUME NEW w \in Workers, NoneLeft(w)
      PROVE  FlagInv'
  BY <1>19, PoolAssumption DEF NoneLeft, TypeOK, FlagInv, InBody, Threads, Workers, shared,
     callerVs, workerVs, history
<1>20. ASSUME NEW w \in Workers, RunClaimed(w)
      PROVE  FlagInv'
  BY <1>20, PoolAssumption DEF RunClaimed, EnterTask, TypeOK, FlagInv, InBody, Threads, Workers,
     shared, callerVs, workerVs, history
<1>21. ASSUME NEW w \in Workers, NestedWorker(w)
      PROVE  FlagInv'
  BY <1>21, PoolAssumption DEF NestedWorker, TypeOK, FlagInv, InBody, Threads, Workers, shared,
     callerVs, workerVs, history
<1>22. ASSUME NEW w \in Workers, NEW throws \in BOOLEAN, FinishClaimed(w, throws)
      PROVE  FlagInv'
  BY <1>22, PoolAssumption DEF FinishClaimed, LeaveTask, TypeOK, FlagInv, InBody, Threads,
     Workers, shared, callerVs, workerVs, history
<1>23. ASSUME NEW w \in Workers, Retire(w)
      PROVE  FlagInv'
  BY <1>23, PoolAssumption DEF Retire, TypeOK, FlagInv, InBody, Threads, Workers, shared,
     callerVs, workerVs, history
<1>24. ASSUME NEW w \in Workers, Signal(w)
      PROVE  FlagInv'
  BY <1>24, PoolAssumption DEF Signal, TypeOK, FlagInv, InBody, Threads, Workers, shared,
     callerVs, workerVs, history
<1>25. ASSUME NEW w \in Workers, SpuriousWake(w)
      PROVE  FlagInv'
  BY <1>25, PoolAssumption DEF SpuriousWake, TypeOK, FlagInv, InBody, Threads, Workers, shared,
     callerVs, workerVs, history
<1>26. ASSUME NotifyStop
      PROVE  FlagInv'
  BY <1>26, PoolAssumption DEF NotifyStop, WakeWorkers, TypeOK, FlagInv, InBody, Threads,
     Workers, shared, callerVs, workerVs, history
<1>27. CASE UNCHANGED <<inRegion, cpc, wpc, outcome>>
  BY <1>27 DEF TypeOK, FlagInv, InBody, Threads, Workers
<1>28.
     \/ \E c \in Callers, n \in 2 .. MaxTasks : ParallelFor(c, n)
     \/ \E c \in Callers :
          \/ Enter(c)
          \/ Ensure(c)
          \/ EnsureThrows(c)
          \/ Publish(c)
          \/ NotifyWorkers(c)
          \/ RunTask0(c)
          \/ NestedCaller(c)
          \/ WaitDone(c)
          \/ Collect(c)
          \/ Return(c)
          \/ SpuriousCheck(c)
     \/ \E c \in Callers, throws \in BOOLEAN : FinishTask0(c, throws)
     \/ \E w \in Workers :
          \/ StartLoop(w)
          \/ Quit(w)
          \/ JoinRegion(w)
          \/ Sleep(w)
          \/ Claim(w)
          \/ NoneLeft(w)
          \/ RunClaimed(w)
          \/ NestedWorker(w)
          \/ Retire(w)
          \/ Signal(w)
          \/ SpuriousWake(w)
     \/ \E w \in Workers, throws \in BOOLEAN : FinishClaimed(w, throws)
     \/ NotifyStop
     \/ UNCHANGED <<inRegion, cpc, wpc, outcome>>
  BY DEF Next, CallerStep, WorkerStep, PoolExit, Terminated, StopPool, Join, vars, shared,
     callerVs, workerVs, history
<1> QED
  BY <1>1, <1>2, <1>3, <1>4, <1>5, <1>6, <1>7, <1>8, <1>9, <1>10, <1>11, <1>12, <1>13,
     <1>14, <1>15, <1>16, <1>17, <1>18, <1>19, <1>20, <1>21, <1>22, <1>23, <1>24, <1>25, <1>26,
     <1>27, <1>28

\* A thread inside a task runs the published closure.
LEMMA ClosureInvStep ==
  ASSUME TypeOK, OwnerInv, TaskInv, ActiveInv, CountInv, ClosureInv, [Next]_vars
  PROVE  ClosureInv'
<1>1. ASSUME NEW c \in Callers, NEW n \in 2 .. MaxTasks, ParallelFor(c, n)
      PROVE  ClosureInv'
  BY <1>1, PoolAssumption DEF ParallelFor, TypeOK, ClosureInv, InBody, Threads, Workers, shared,
     callerVs, workerVs, history
<1>2. ASSUME NEW c \in Callers, Enter(c)
      PROVE  ClosureInv'
  BY <1>2, PoolAssumption DEF Enter, TypeOK, ClosureInv, InBody, Threads, Workers, shared,
     callerVs, workerVs, history
<1>3. ASSUME NEW c \in Callers, Ensure(c)
      PROVE  ClosureInv'
  <2>1. PICK k \in size .. MaxTasks - 1 : SpawnTo(k)
    BY <1>3, EnsureEffect
  <2>2. UNCHANGED <<closure, task>>
    BY <1>3 DEF Ensure, shared, history
  <2> QED
    BY <2>1, <2>2, <1>3, PoolAssumption DEF SpawnTo, Ensure, EnsureThrows, TypeOK, ClosureInv, InBody, Threads, Workers
<1>4. ASSUME NEW c \in Callers, EnsureThrows(c)
      PROVE  ClosureInv'
  <2>1. PICK k \in size .. MaxTasks - 1 : SpawnTo(k)
    BY <1>4, EnsureEffect
  <2>2. UNCHANGED <<closure, task>>
    BY <1>4 DEF EnsureThrows, shared, history
  <2> QED
    BY <2>1, <2>2, <1>4, PoolAssumption DEF SpawnTo, Ensure, EnsureThrows, TypeOK, ClosureInv, InBody, Threads, Workers
<1>5. ASSUME NEW c \in Callers, Publish(c)
      PROVE  ClosureInv'
  <2>1. task = None
    BY <1>5 DEF Publish, TypeOK, TaskInv, OwnerInv, Holding, Published
  <2>2. \A t \in Threads : ~InBody(t)
    BY <2>1, PoolAssumption DEF ActiveInv, Active, TaskInv, Published, InBody, Threads
  <2> QED
    BY <2>2, <1>5 DEF Publish, ClosureInv, InBody, Threads, TypeOK, workerVs
<1>6. ASSUME NEW c \in Callers, NotifyWorkers(c)
      PROVE  ClosureInv'
  BY <1>6, PoolAssumption DEF NotifyWorkers, WakeWorkers, TypeOK, ClosureInv, InBody, Threads,
     Workers, shared, callerVs, workerVs, history
<1>7. ASSUME NEW c \in Callers, RunTask0(c)
      PROVE  ClosureInv'
  BY <1>7, PoolAssumption DEF RunTask0, EnterTask, TypeOK, ClosureInv, InBody, Threads, Workers,
     shared, callerVs, workerVs, history
<1>8. ASSUME NEW c \in Callers, NestedCaller(c)
      PROVE  ClosureInv'
  BY <1>8, PoolAssumption DEF NestedCaller, TypeOK, ClosureInv, InBody, Threads, Workers,
     shared, callerVs, workerVs, history
<1>9. ASSUME NEW c \in Callers, NEW throws \in BOOLEAN, FinishTask0(c, throws)
      PROVE  ClosureInv'
  BY <1>9, PoolAssumption DEF FinishTask0, LeaveTask, TypeOK, ClosureInv, InBody, Threads,
     Workers, shared, callerVs, workerVs, history
<1>10. ASSUME NEW c \in Callers, WaitDone(c)
      PROVE  ClosureInv'
  BY <1>10, PoolAssumption DEF WaitDone, TypeOK, ClosureInv, InBody, Threads, Workers, shared,
     callerVs, workerVs, history
<1>11. ASSUME NEW c \in Callers, Collect(c)
      PROVE  ClosureInv'
  <2>1. task = c
    BY <1>11 DEF Collect, TaskInv, Published
  <2>2. Owing = {}
    BY <2>1, <1>11, OwingFinite, PoolAssumption DEF Collect, CountInv
  <2>3. \A t \in Threads : ~InBody(t)
    BY <2>1, <2>2, <1>11 DEF Collect, Owing, Pending, Active, TaskInv, Published, InBody, Threads
  <2> QED
    BY <2>3, <1>11 DEF Collect, ClosureInv, InBody, Threads, TypeOK, workerVs
<1>12. ASSUME NEW c \in Callers, Return(c)
      PROVE  ClosureInv'
  BY <1>12, PoolAssumption DEF Return, TypeOK, ClosureInv, InBody, Threads, Workers, shared,
     callerVs, workerVs, history
<1>13. ASSUME NEW c \in Callers, SpuriousCheck(c)
      PROVE  ClosureInv'
  BY <1>13, PoolAssumption DEF SpuriousCheck, TypeOK, ClosureInv, InBody, Threads, Workers,
     shared, callerVs, workerVs, history
<1>14. ASSUME NEW w \in Workers, StartLoop(w)
      PROVE  ClosureInv'
  BY <1>14, PoolAssumption DEF StartLoop, TypeOK, ClosureInv, InBody, Threads, Workers, shared,
     callerVs, workerVs, history
<1>15. ASSUME NEW w \in Workers, Quit(w)
      PROVE  ClosureInv'
  BY <1>15, PoolAssumption DEF Quit, TypeOK, ClosureInv, InBody, Threads, Workers, shared,
     callerVs, workerVs, history
<1>16. ASSUME NEW w \in Workers, JoinRegion(w)
      PROVE  ClosureInv'
  BY <1>16, PoolAssumption DEF JoinRegion, TypeOK, ClosureInv, InBody, Threads, Workers, shared,
     callerVs, workerVs, history
<1>17. ASSUME NEW w \in Workers, Sleep(w)
      PROVE  ClosureInv'
  BY <1>17, PoolAssumption DEF Sleep, TypeOK, ClosureInv, InBody, Threads, Workers, shared,
     callerVs, workerVs, history
<1>18. ASSUME NEW w \in Workers, Claim(w)
      PROVE  ClosureInv'
  BY <1>18, PoolAssumption DEF Claim, TypeOK, ClosureInv, InBody, Threads, Workers, shared,
     callerVs, workerVs, history
<1>19. ASSUME NEW w \in Workers, NoneLeft(w)
      PROVE  ClosureInv'
  BY <1>19, PoolAssumption DEF NoneLeft, TypeOK, ClosureInv, InBody, Threads, Workers, shared,
     callerVs, workerVs, history
<1>20. ASSUME NEW w \in Workers, RunClaimed(w)
      PROVE  ClosureInv'
  BY <1>20, PoolAssumption DEF RunClaimed, EnterTask, TypeOK, ClosureInv, InBody, Threads,
     Workers, shared, callerVs, workerVs, history
<1>21. ASSUME NEW w \in Workers, NestedWorker(w)
      PROVE  ClosureInv'
  BY <1>21, PoolAssumption DEF NestedWorker, TypeOK, ClosureInv, InBody, Threads, Workers,
     shared, callerVs, workerVs, history
<1>22. ASSUME NEW w \in Workers, NEW throws \in BOOLEAN, FinishClaimed(w, throws)
      PROVE  ClosureInv'
  BY <1>22, PoolAssumption DEF FinishClaimed, LeaveTask, TypeOK, ClosureInv, InBody, Threads,
     Workers, shared, callerVs, workerVs, history
<1>23. ASSUME NEW w \in Workers, Retire(w)
      PROVE  ClosureInv'
  BY <1>23, PoolAssumption DEF Retire, TypeOK, ClosureInv, InBody, Threads, Workers, shared,
     callerVs, workerVs, history
<1>24. ASSUME NEW w \in Workers, Signal(w)
      PROVE  ClosureInv'
  BY <1>24, PoolAssumption DEF Signal, TypeOK, ClosureInv, InBody, Threads, Workers, shared,
     callerVs, workerVs, history
<1>25. ASSUME NEW w \in Workers, SpuriousWake(w)
      PROVE  ClosureInv'
  BY <1>25, PoolAssumption DEF SpuriousWake, TypeOK, ClosureInv, InBody, Threads, Workers,
     shared, callerVs, workerVs, history
<1>26. ASSUME NotifyStop
      PROVE  ClosureInv'
  BY <1>26, PoolAssumption DEF NotifyStop, WakeWorkers, TypeOK, ClosureInv, InBody, Threads,
     Workers, shared, callerVs, workerVs, history
<1>27. CASE UNCHANGED <<closure, task, cpc, wpc>>
  BY <1>27 DEF TypeOK, ClosureInv, InBody, Threads, Workers
<1>28.
     \/ \E c \in Callers, n \in 2 .. MaxTasks : ParallelFor(c, n)
     \/ \E c \in Callers :
          \/ Enter(c)
          \/ Ensure(c)
          \/ EnsureThrows(c)
          \/ Publish(c)
          \/ NotifyWorkers(c)
          \/ RunTask0(c)
          \/ NestedCaller(c)
          \/ WaitDone(c)
          \/ Collect(c)
          \/ Return(c)
          \/ SpuriousCheck(c)
     \/ \E c \in Callers, throws \in BOOLEAN : FinishTask0(c, throws)
     \/ \E w \in Workers :
          \/ StartLoop(w)
          \/ Quit(w)
          \/ JoinRegion(w)
          \/ Sleep(w)
          \/ Claim(w)
          \/ NoneLeft(w)
          \/ RunClaimed(w)
          \/ NestedWorker(w)
          \/ Retire(w)
          \/ Signal(w)
          \/ SpuriousWake(w)
     \/ \E w \in Workers, throws \in BOOLEAN : FinishClaimed(w, throws)
     \/ NotifyStop
     \/ UNCHANGED <<closure, task, cpc, wpc>>
  BY DEF Next, CallerStep, WorkerStep, PoolExit, Terminated, StopPool, Join, vars, shared,
     callerVs, workerVs, history
<1> QED
  BY <1>1, <1>2, <1>3, <1>4, <1>5, <1>6, <1>7, <1>8, <1>9, <1>10, <1>11, <1>12, <1>13,
     <1>14, <1>15, <1>16, <1>17, <1>18, <1>19, <1>20, <1>21, <1>22, <1>23, <1>24, <1>25, <1>26,
     <1>27, <1>28

\* awake_ counts the workers that owe the generation a retirement.
LEMMA CountInvStep ==
  ASSUME TypeOK, OwnerInv, TaskInv, StopInv, BirthInv, ActiveInv, CountInv, [Next]_vars
  PROVE  CountInv'
<1>1. ASSUME NEW c \in Callers, Ensure(c)
      PROVE  CountInv'
  <2>1. PICK k \in size .. MaxTasks - 1 : SpawnTo(k)
    BY <1>1, EnsureEffect
  <2>2. UNCHANGED <<gen, task, awake, exit>> /\ task = None
    BY <1>1 DEF Ensure, shared, TypeOK, TaskInv, OwnerInv, Holding, Published
  <2>3. ASSUME exit = "running"
        PROVE  Owing' = {}
    BY <2>1, <2>2, <2>3, PoolAssumption DEF SpawnTo, CountInv, Owing, Pending, Active, Idle, Workers, TypeOK
  <2> QED
    BY <2>2, <2>3 DEF CountInv
<1>2. ASSUME NEW c \in Callers, EnsureThrows(c)
      PROVE  CountInv'
  <2>1. PICK k \in size .. MaxTasks - 1 : SpawnTo(k)
    BY <1>2, EnsureEffect
  <2>2. UNCHANGED <<gen, task, awake, exit>> /\ task = None
    BY <1>2 DEF EnsureThrows, shared, TypeOK, TaskInv, OwnerInv, Holding, Published
  <2>3. ASSUME exit = "running"
        PROVE  Owing' = {}
    BY <2>1, <2>2, <2>3, PoolAssumption DEF SpawnTo, CountInv, Owing, Pending, Active, Idle, Workers, TypeOK
  <2> QED
    BY <2>2, <2>3 DEF CountInv
<1>3. ASSUME NEW c \in Callers, Publish(c)
      PROVE  CountInv'
  <2>1. task = None /\ exit = "running" /\ task' = c /\ exit' = exit /\ awake' = size
    BY <1>3 DEF Publish, TypeOK, TaskInv, OwnerInv, Holding, Published, StopInv
  <2>2. Owing = {} /\ ~stop
    BY <2>1 DEF CountInv, StopInv
  <2>3. Owing' = 1 .. size
    <3>1. UNCHANGED <<wpc, seen, size>> /\ gen' = gen + 1
      BY <1>3 DEF Publish, workerVs
    <3>2. ASSUME NEW w \in Workers
          PROVE  Pending(w)' <=> w <= size
      <4>1. CASE wpc[w] = "unborn"
        BY <3>1, <4>1, PoolAssumption DEF Pending, Active, Idle, BirthInv, TypeOK, Workers
      <4>2. CASE wpc[w] # "unborn"
        <5>1. w <= size /\ wpc[w] # "exited"
          BY <4>2, <2>2, PoolAssumption DEF BirthInv, TypeOK, Workers
        <5>2. Idle(w) /\ seen[w] = gen
          BY <5>1, <4>2, <2>2 DEF Owing, Pending, Active, Idle, TypeOK, WorkerPc
        <5> QED
          BY <5>1, <5>2, <3>1 DEF Pending, Idle, TypeOK
      <4> QED
        BY <4>1, <4>2
    <3> QED
      BY <3>2, PoolAssumption DEF Owing, Workers, TypeOK
  <2>4. Cardinality(Owing') = size
    BY <2>3, FS_Interval, PoolAssumption DEF TypeOK
  <2> QED
    BY <2>1, <2>4, PoolAssumption DEF CountInv
<1>4. ASSUME NEW c \in Callers, NotifyWorkers(c)
      PROVE  CountInv'
  BY <1>4 DEF NotifyWorkers, WakeWorkers, TypeOK, CountInv, Owing, Pending, Active, Idle,
     shared, callerVs, workerVs, history
<1>5. ASSUME NEW c \in Callers, Collect(c)
      PROVE  CountInv'
  <2>1. task = c /\ task' = None
    BY <1>5 DEF Collect, TaskInv, Published
  <2>2. Owing = {}
    BY <2>1, <1>5, OwingFinite, PoolAssumption DEF Collect, CountInv
  <2>3. Owing' = Owing
    BY <1>5 DEF Collect, Owing, Pending, Active, Idle, workerVs
  <2> QED
    BY <2>1, <2>2, <2>3 DEF CountInv
<1>6. ASSUME NEW w \in Workers, StartLoop(w)
      PROVE  CountInv'
  BY <1>6 DEF StartLoop, TypeOK, CountInv, Owing, Pending, Active, Idle, shared, callerVs,
     workerVs, history
<1>7. ASSUME NEW w \in Workers, Quit(w)
      PROVE  CountInv'
  <2>1. task = None /\ exit # "running"
    BY <1>7 DEF Quit, TypeOK, StopInv, TaskInv, Published
  <2> QED
    BY <2>1, <1>7 DEF Quit, CountInv, shared
<1>8. ASSUME NEW w \in Workers, JoinRegion(w)
      PROVE  CountInv'
  <2>1. Owing' = Owing
    BY <1>8 DEF JoinRegion, TypeOK, Owing, Pending, Active, Idle, shared
  <2> QED
    BY <2>1, <1>8 DEF JoinRegion, CountInv, shared
<1>9. ASSUME NEW w \in Workers, Sleep(w)
      PROVE  CountInv'
  <2>1. Owing' = Owing
    BY <1>9 DEF Sleep, TypeOK, Owing, Pending, Active, Idle, shared
  <2> QED
    BY <2>1, <1>9 DEF Sleep, CountInv, shared
<1>10. ASSUME NEW w \in Workers, Claim(w)
      PROVE  CountInv'
  BY <1>10 DEF Claim, TypeOK, CountInv, Owing, Pending, Active, Idle, shared, callerVs,
     workerVs, history
<1>11. ASSUME NEW w \in Workers, NoneLeft(w)
      PROVE  CountInv'
  BY <1>11 DEF NoneLeft, TypeOK, CountInv, Owing, Pending, Active, Idle, shared, callerVs,
     workerVs, history
<1>12. ASSUME NEW w \in Workers, RunClaimed(w)
      PROVE  CountInv'
  BY <1>12 DEF RunClaimed, EnterTask, TypeOK, CountInv, Owing, Pending, Active, Idle, shared,
     callerVs, workerVs, history
<1>13. ASSUME NEW w \in Workers, NestedWorker(w)
      PROVE  CountInv'
  BY <1>13 DEF NestedWorker, TypeOK, CountInv, Owing, Pending, Active, Idle, shared, callerVs,
     workerVs, history
<1>14. ASSUME NEW w \in Workers, NEW throws \in BOOLEAN, FinishClaimed(w, throws)
      PROVE  CountInv'
  BY <1>14 DEF FinishClaimed, LeaveTask, TypeOK, CountInv, Owing, Pending, Active, Idle, shared,
     callerVs, workerVs, history
<1>15. ASSUME NEW w \in Workers, Retire(w)
      PROVE  CountInv'
  <2>1. task # None /\ seen[w] = gen /\ w \in Owing
    BY <1>15 DEF Retire, ActiveInv, Active, Owing, Pending
  <2>2. Owing' = Owing \ {w}
    BY <2>1, <1>15 DEF Retire, TypeOK, Owing, Pending, Active, Idle, shared
  <2>3. Cardinality(Owing') = awake - 1
    BY <2>1, <2>2, OwingFinite, FS_RemoveElement DEF CountInv
  <2> QED
    BY <2>1, <2>3, <1>15 DEF Retire, CountInv
<1>16. ASSUME NEW w \in Workers, Signal(w)
      PROVE  CountInv'
  BY <1>16 DEF Signal, TypeOK, CountInv, Owing, Pending, Active, Idle, shared, callerVs,
     workerVs, history
<1>17. ASSUME NEW w \in Workers, SpuriousWake(w)
      PROVE  CountInv'
  BY <1>17 DEF SpuriousWake, TypeOK, CountInv, Owing, Pending, Active, Idle, shared, callerVs,
     workerVs, history
<1>18. ASSUME StopPool
      PROVE  CountInv'
  <2>1. task = None /\ task' = None /\ exit' # "running"
    BY <1>18 DEF StopPool, TypeOK, TaskInv, Published
  <2> QED
    BY <2>1 DEF CountInv
<1>19. ASSUME NotifyStop
      PROVE  CountInv'
  BY <1>19 DEF NotifyStop, WakeWorkers, TypeOK, CountInv, Owing, Pending, Active, Idle, shared,
     callerVs, workerVs, history
<1>20. ASSUME Join
      PROVE  CountInv'
  BY <1>20 DEF Join, TypeOK, CountInv, Owing, Pending, Active, Idle, shared, callerVs, workerVs,
     history
<1>21. CASE UNCHANGED <<task, awake, exit, wpc, seen, gen>>
  BY <1>21 DEF TypeOK, CountInv, Owing, Pending, Active, Idle
<1>22.
     \/ \E c \in Callers :
          \/ Ensure(c)
          \/ EnsureThrows(c)
          \/ Publish(c)
          \/ NotifyWorkers(c)
          \/ Collect(c)
     \/ \E w \in Workers :
          \/ StartLoop(w)
          \/ Quit(w)
          \/ JoinRegion(w)
          \/ Sleep(w)
          \/ Claim(w)
          \/ NoneLeft(w)
          \/ RunClaimed(w)
          \/ NestedWorker(w)
          \/ Retire(w)
          \/ Signal(w)
          \/ SpuriousWake(w)
     \/ \E w \in Workers, throws \in BOOLEAN : FinishClaimed(w, throws)
     \/ StopPool
     \/ NotifyStop
     \/ Join
     \/ UNCHANGED <<task, awake, exit, wpc, seen, gen>>
  BY DEF Next, CallerStep, WorkerStep, PoolExit, Terminated, ParallelFor, Enter, RunTask0,
     NestedCaller, FinishTask0, WaitDone, Return, SpuriousCheck, vars, shared, callerVs,
     workerVs, history
<1> QED
  BY <1>1, <1>2, <1>3, <1>4, <1>5, <1>6, <1>7, <1>8, <1>9, <1>10, <1>11, <1>12, <1>13,
     <1>14, <1>15, <1>16, <1>17, <1>18, <1>19, <1>20, <1>21, <1>22

\* What a worker holds came off next_ in this region.
LEMMA ClaimInvStep ==
  ASSUME TypeOK, OwnerInv, TaskInv, ActiveInv, CountInv, ClaimInv, [Next]_vars
  PROVE  ClaimInv'
<1>1. ASSUME NEW c \in Callers, Ensure(c)
      PROVE  ClaimInv'
  <2>1. PICK k \in size .. MaxTasks - 1 : SpawnTo(k)
    BY <1>1, EnsureEffect
  <2>2. UNCHANGED <<task, next, nTasks, claim>>
    BY <1>1 DEF Ensure, shared, history
  <2> QED
    BY <2>1, <2>2, PoolAssumption DEF SpawnTo, TypeOK, ClaimInv, Holds
<1>2. ASSUME NEW c \in Callers, EnsureThrows(c)
      PROVE  ClaimInv'
  <2>1. PICK k \in size .. MaxTasks - 1 : SpawnTo(k)
    BY <1>2, EnsureEffect
  <2>2. UNCHANGED <<task, next, nTasks, claim>>
    BY <1>2 DEF EnsureThrows, shared, history
  <2> QED
    BY <2>1, <2>2, PoolAssumption DEF SpawnTo, TypeOK, ClaimInv, Holds
<1>3. ASSUME NEW c \in Callers, Publish(c)
      PROVE  ClaimInv'
  <2>1. task = None
    BY <1>3 DEF Publish, TypeOK, TaskInv, OwnerInv, Holding, Published
  <2>2. \A w \in Workers : ~Holds(w)
    BY <2>1 DEF ActiveInv, Active, Holds
  <2> QED
    BY <2>2, <1>3 DEF Publish, ClaimInv, Holds, workerVs
<1>4. ASSUME NEW c \in Callers, NotifyWorkers(c)
      PROVE  ClaimInv'
  BY <1>4, PoolAssumption DEF NotifyWorkers, WakeWorkers, TypeOK, ClaimInv, Holds, shared,
     callerVs, workerVs, history
<1>5. ASSUME NEW c \in Callers, Collect(c)
      PROVE  ClaimInv'
  BY <1>5, PoolAssumption DEF Collect, TypeOK, ClaimInv, Holds, shared, callerVs, workerVs,
     history
<1>6. ASSUME NEW w \in Workers, StartLoop(w)
      PROVE  ClaimInv'
  BY <1>6, PoolAssumption DEF StartLoop, TypeOK, ClaimInv, Holds, shared, callerVs, workerVs,
     history
<1>7. ASSUME NEW w \in Workers, Quit(w)
      PROVE  ClaimInv'
  BY <1>7, PoolAssumption DEF Quit, TypeOK, ClaimInv, Holds, shared, callerVs, workerVs, history
<1>8. ASSUME NEW w \in Workers, JoinRegion(w)
      PROVE  ClaimInv'
  BY <1>8, PoolAssumption DEF JoinRegion, TypeOK, ClaimInv, Holds, shared, callerVs, workerVs,
     history
<1>9. ASSUME NEW w \in Workers, Sleep(w)
      PROVE  ClaimInv'
  BY <1>9, PoolAssumption DEF Sleep, TypeOK, ClaimInv, Holds, shared, callerVs, workerVs,
     history
<1>10. ASSUME NEW w \in Workers, Claim(w)
      PROVE  ClaimInv'
  <2>1. next \in Nat /\ next >= 1
    BY <1>10 DEF Claim, ActiveInv, Active, ClaimInv, TypeOK
  <2>2. \A v \in Workers : v # w => wpc'[v] = wpc[v] /\ claim'[v] = claim[v]
    BY <1>10 DEF Claim, TypeOK
  <2>3. wpc'[w] = "claimed" /\ claim'[w] = next /\ next' = next + 1 /\ nTasks' = nTasks
    BY <1>10 DEF Claim, TypeOK
  <2> QED
    BY <2>1, <2>2, <2>3 DEF ClaimInv, Holds
<1>11. ASSUME NEW w \in Workers, NoneLeft(w)
      PROVE  ClaimInv'
  BY <1>11, PoolAssumption DEF NoneLeft, TypeOK, ClaimInv, Holds, shared, callerVs, workerVs,
     history
<1>12. ASSUME NEW w \in Workers, RunClaimed(w)
      PROVE  ClaimInv'
  BY <1>12, PoolAssumption DEF RunClaimed, EnterTask, TypeOK, ClaimInv, Holds, shared, callerVs,
     workerVs, history
<1>13. ASSUME NEW w \in Workers, NestedWorker(w)
      PROVE  ClaimInv'
  BY <1>13, PoolAssumption DEF NestedWorker, TypeOK, ClaimInv, Holds, shared, callerVs,
     workerVs, history
<1>14. ASSUME NEW w \in Workers, NEW throws \in BOOLEAN, FinishClaimed(w, throws)
      PROVE  ClaimInv'
  BY <1>14, PoolAssumption DEF FinishClaimed, LeaveTask, TypeOK, ClaimInv, Holds, shared,
     callerVs, workerVs, history
<1>15. ASSUME NEW w \in Workers, Retire(w)
      PROVE  ClaimInv'
  BY <1>15, PoolAssumption DEF Retire, TypeOK, ClaimInv, Holds, shared, callerVs, workerVs,
     history
<1>16. ASSUME NEW w \in Workers, Signal(w)
      PROVE  ClaimInv'
  BY <1>16, PoolAssumption DEF Signal, TypeOK, ClaimInv, Holds, shared, callerVs, workerVs,
     history
<1>17. ASSUME NEW w \in Workers, SpuriousWake(w)
      PROVE  ClaimInv'
  BY <1>17, PoolAssumption DEF SpuriousWake, TypeOK, ClaimInv, Holds, shared, callerVs,
     workerVs, history
<1>18. ASSUME NotifyStop
      PROVE  ClaimInv'
  BY <1>18, PoolAssumption DEF NotifyStop, WakeWorkers, TypeOK, ClaimInv, Holds, shared,
     callerVs, workerVs, history
<1>19. CASE UNCHANGED <<task, next, nTasks, wpc, claim>>
  BY <1>19 DEF TypeOK, ClaimInv, Holds
<1>20.
     \/ \E c \in Callers :
          \/ Ensure(c)
          \/ EnsureThrows(c)
          \/ Publish(c)
          \/ NotifyWorkers(c)
          \/ Collect(c)
     \/ \E w \in Workers :
          \/ StartLoop(w)
          \/ Quit(w)
          \/ JoinRegion(w)
          \/ Sleep(w)
          \/ Claim(w)
          \/ NoneLeft(w)
          \/ RunClaimed(w)
          \/ NestedWorker(w)
          \/ Retire(w)
          \/ Signal(w)
          \/ SpuriousWake(w)
     \/ \E w \in Workers, throws \in BOOLEAN : FinishClaimed(w, throws)
     \/ NotifyStop
     \/ UNCHANGED <<task, next, nTasks, wpc, claim>>
  BY DEF Next, CallerStep, WorkerStep, PoolExit, Terminated, ParallelFor, Enter, RunTask0,
     NestedCaller, FinishTask0, WaitDone, Return, SpuriousCheck, StopPool, Join, vars, shared,
     callerVs, workerVs, history
<1> QED
  BY <1>1, <1>2, <1>3, <1>4, <1>5, <1>6, <1>7, <1>8, <1>9, <1>10, <1>11, <1>12, <1>13,
     <1>14, <1>15, <1>16, <1>17, <1>18, <1>19, <1>20

\* No index is handed out twice.
LEMMA UniqueInvStep ==
  ASSUME TypeOK, TaskInv, ClaimInv, UniqueInv, [Next]_vars
  PROVE  UniqueInv'
<1>1. ASSUME NEW c \in Callers, Ensure(c)
      PROVE  UniqueInv'
  <2>1. PICK k \in size .. MaxTasks - 1 : SpawnTo(k)
    BY <1>1, EnsureEffect
  <2>2. UNCHANGED <<claim>>
    BY <1>1 DEF Ensure, shared, history
  <2> QED
    BY <2>1, <2>2, PoolAssumption DEF SpawnTo, TypeOK, UniqueInv, Holds
<1>2. ASSUME NEW c \in Callers, EnsureThrows(c)
      PROVE  UniqueInv'
  <2>1. PICK k \in size .. MaxTasks - 1 : SpawnTo(k)
    BY <1>2, EnsureEffect
  <2>2. UNCHANGED <<claim>>
    BY <1>2 DEF EnsureThrows, shared, history
  <2> QED
    BY <2>1, <2>2, PoolAssumption DEF SpawnTo, TypeOK, UniqueInv, Holds
<1>3. ASSUME NEW c \in Callers, NotifyWorkers(c)
      PROVE  UniqueInv'
  BY <1>3 DEF NotifyWorkers, WakeWorkers, TypeOK, ClaimInv, UniqueInv, Holds, shared, callerVs,
     workerVs, history
<1>4. ASSUME NEW w \in Workers, StartLoop(w)
      PROVE  UniqueInv'
  BY <1>4 DEF StartLoop, TypeOK, ClaimInv, UniqueInv, Holds, shared, callerVs, workerVs, history
<1>5. ASSUME NEW w \in Workers, Quit(w)
      PROVE  UniqueInv'
  BY <1>5 DEF Quit, TypeOK, ClaimInv, UniqueInv, Holds, shared, callerVs, workerVs, history
<1>6. ASSUME NEW w \in Workers, JoinRegion(w)
      PROVE  UniqueInv'
  BY <1>6 DEF JoinRegion, TypeOK, ClaimInv, UniqueInv, Holds, shared, callerVs, workerVs,
     history
<1>7. ASSUME NEW w \in Workers, Sleep(w)
      PROVE  UniqueInv'
  BY <1>7 DEF Sleep, TypeOK, ClaimInv, UniqueInv, Holds, shared, callerVs, workerVs, history
<1>8. ASSUME NEW w \in Workers, Claim(w)
      PROVE  UniqueInv'
  BY <1>8 DEF Claim, TypeOK, ClaimInv, UniqueInv, Holds, shared, callerVs, workerVs, history
<1>9. ASSUME NEW w \in Workers, NoneLeft(w)
      PROVE  UniqueInv'
  BY <1>9 DEF NoneLeft, TypeOK, ClaimInv, UniqueInv, Holds, shared, callerVs, workerVs, history
<1>10. ASSUME NEW w \in Workers, RunClaimed(w)
      PROVE  UniqueInv'
  BY <1>10 DEF RunClaimed, EnterTask, TypeOK, ClaimInv, UniqueInv, Holds, shared, callerVs,
     workerVs, history
<1>11. ASSUME NEW w \in Workers, NestedWorker(w)
      PROVE  UniqueInv'
  <2>1. \A v \in Workers : Holds(v)' => Holds(v) /\ claim'[v] = claim[v]
    BY <1>11 DEF NestedWorker, TypeOK, Holds
  <2> QED
    BY <2>1 DEF UniqueInv
<1>12. ASSUME NEW w \in Workers, NEW throws \in BOOLEAN, FinishClaimed(w, throws)
      PROVE  UniqueInv'
  BY <1>12 DEF FinishClaimed, LeaveTask, TypeOK, ClaimInv, UniqueInv, Holds, shared, callerVs,
     workerVs, history
<1>13. ASSUME NEW w \in Workers, Retire(w)
      PROVE  UniqueInv'
  BY <1>13 DEF Retire, TypeOK, ClaimInv, UniqueInv, Holds, shared, callerVs, workerVs, history
<1>14. ASSUME NEW w \in Workers, Signal(w)
      PROVE  UniqueInv'
  BY <1>14 DEF Signal, TypeOK, ClaimInv, UniqueInv, Holds, shared, callerVs, workerVs, history
<1>15. ASSUME NEW w \in Workers, SpuriousWake(w)
      PROVE  UniqueInv'
  BY <1>15 DEF SpuriousWake, TypeOK, ClaimInv, UniqueInv, Holds, shared, callerVs, workerVs,
     history
<1>16. ASSUME NotifyStop
      PROVE  UniqueInv'
  BY <1>16 DEF NotifyStop, WakeWorkers, TypeOK, ClaimInv, UniqueInv, Holds, shared, callerVs,
     workerVs, history
<1>17. CASE UNCHANGED <<wpc, claim>>
  BY <1>17 DEF TypeOK, ClaimInv, UniqueInv, Holds
<1>18.
     \/ \E c \in Callers :
          \/ Ensure(c)
          \/ EnsureThrows(c)
          \/ NotifyWorkers(c)
     \/ \E w \in Workers :
          \/ StartLoop(w)
          \/ Quit(w)
          \/ JoinRegion(w)
          \/ Sleep(w)
          \/ Claim(w)
          \/ NoneLeft(w)
          \/ RunClaimed(w)
          \/ NestedWorker(w)
          \/ Retire(w)
          \/ Signal(w)
          \/ SpuriousWake(w)
     \/ \E w \in Workers, throws \in BOOLEAN : FinishClaimed(w, throws)
     \/ NotifyStop
     \/ UNCHANGED <<wpc, claim>>
  BY DEF Next, CallerStep, WorkerStep, PoolExit, Terminated, ParallelFor, Enter, Publish,
     RunTask0, NestedCaller, FinishTask0, WaitDone, Collect, Return, SpuriousCheck, StopPool,
     Join, vars, shared, callerVs, workerVs, history
<1> QED
  BY <1>1, <1>2, <1>3, <1>4, <1>5, <1>6, <1>7, <1>8, <1>9, <1>10, <1>11, <1>12, <1>13,
     <1>14, <1>15, <1>16, <1>17, <1>18

\* Which indices of the region have been entered, and how often.
LEMMA RanInvStep ==
  ASSUME TypeOK, OwnerInv, TaskInv, ActiveInv, ClaimInv, UniqueInv, RanInv, [Next]_vars
  PROVE  RanInv'
<1>1. ASSUME NEW c \in Callers, NEW n \in 2 .. MaxTasks, ParallelFor(c, n)
      PROVE  RanInv'
  BY <1>1 DEF ParallelFor, TypeOK, RanInv, Unentered, shared, callerVs, workerVs, history
<1>2. ASSUME NEW c \in Callers, Enter(c)
      PROVE  RanInv'
  BY <1>2 DEF Enter, TypeOK, RanInv, Unentered, shared, callerVs, workerVs, history
<1>3. ASSUME NEW c \in Callers, Ensure(c)
      PROVE  RanInv'
  <2>1. task = None /\ task' = None
    BY <1>3 DEF Ensure, shared, TypeOK, TaskInv, OwnerInv, Holding, Published
  <2> QED
    BY <2>1 DEF RanInv
<1>4. ASSUME NEW c \in Callers, EnsureThrows(c)
      PROVE  RanInv'
  <2>1. task = None /\ task' = None
    BY <1>4 DEF EnsureThrows, shared, TypeOK, TaskInv, OwnerInv, Holding, Published
  <2> QED
    BY <2>1 DEF RanInv
<1>5. ASSUME NEW c \in Callers, Publish(c)
      PROVE  RanInv'
  <2>1. PICK n \in 2 .. MaxTasks :
          /\ task' = c /\ cpc'[c] = "notifying" /\ next' = 1 /\ nTasks' = n
          /\ \A i \in Index : ran'[i] = 0
    BY <1>5 DEF Publish, TypeOK, TaskInv
  <2>2. ran'[0] = 0
    BY <2>1, PoolAssumption DEF Index
  <2>3. ASSUME NEW i \in 1 .. n - 1
        PROVE  ran'[i] = 0 /\ next' <= i
    <3>1. MaxTasks \in Nat
      BY PoolAssumption
    <3>2. i \in Index /\ 1 <= i
      BY <2>1, <3>1 DEF Index
    <3> QED
      BY <2>1, <3>2
  <2> QED
    BY <2>1, <2>2, <2>3 DEF RanInv
<1>6. ASSUME NEW c \in Callers, NotifyWorkers(c)
      PROVE  RanInv'
  BY <1>6 DEF NotifyWorkers, WakeWorkers, TypeOK, RanInv, Unentered, shared, callerVs, workerVs,
     history
<1>7. ASSUME NEW c \in Callers, RunTask0(c)
      PROVE  RanInv'
  <2>1. task = c /\ task' = c /\ c # None
    BY <1>7, PoolAssumption DEF RunTask0, shared, TaskInv, Published
  <2>2. /\ cpc'[c] = "body" /\ ran'[0] = ran[0] + 1
        /\ \A i \in Index \ {0} : ran'[i] = ran[i]
        /\ UNCHANGED <<nTasks, next, wpc, claim>>
    BY <1>7, PoolAssumption DEF RunTask0, EnterTask, TypeOK, Index, shared, workerVs
  <2>3. ran[0] = 0 /\ nTasks \in 0 .. MaxTasks
    BY <2>1, <1>7 DEF RunTask0, RanInv, TypeOK
  <2> QED
    BY <2>1, <2>2, <2>3, PoolAssumption DEF RanInv, Unentered, Index
<1>8. ASSUME NEW c \in Callers, NestedCaller(c)
      PROVE  RanInv'
  BY <1>8 DEF NestedCaller, TypeOK, RanInv, Unentered, shared, callerVs, workerVs, history
<1>9. ASSUME NEW c \in Callers, NEW throws \in BOOLEAN, FinishTask0(c, throws)
      PROVE  RanInv'
  BY <1>9 DEF FinishTask0, LeaveTask, TypeOK, RanInv, Unentered, shared, callerVs, workerVs,
     history
<1>10. ASSUME NEW c \in Callers, WaitDone(c)
      PROVE  RanInv'
  BY <1>10 DEF WaitDone, TypeOK, RanInv, Unentered, shared, callerVs, workerVs, history
<1>11. ASSUME NEW c \in Callers, Collect(c)
      PROVE  RanInv'
  BY <1>11 DEF Collect, TypeOK, RanInv, Unentered, shared, callerVs, workerVs, history
<1>12. ASSUME NEW c \in Callers, Return(c)
      PROVE  RanInv'
  BY <1>12 DEF Return, TypeOK, RanInv, Unentered, shared, callerVs, workerVs, history
<1>13. ASSUME NEW c \in Callers, SpuriousCheck(c)
      PROVE  RanInv'
  BY <1>13 DEF SpuriousCheck, TypeOK, RanInv, Unentered, shared, callerVs, workerVs, history
<1>14. ASSUME NEW w \in Workers, StartLoop(w)
      PROVE  RanInv'
  BY <1>14 DEF StartLoop, TypeOK, RanInv, Unentered, shared, callerVs, workerVs, history
<1>15. ASSUME NEW w \in Workers, Quit(w)
      PROVE  RanInv'
  BY <1>15 DEF Quit, TypeOK, RanInv, Unentered, shared, callerVs, workerVs, history
<1>16. ASSUME NEW w \in Workers, JoinRegion(w)
      PROVE  RanInv'
  BY <1>16 DEF JoinRegion, TypeOK, RanInv, Unentered, shared, callerVs, workerVs, history
<1>17. ASSUME NEW w \in Workers, Sleep(w)
      PROVE  RanInv'
  BY <1>17 DEF Sleep, TypeOK, RanInv, Unentered, shared, callerVs, workerVs, history
<1>18. ASSUME NEW w \in Workers, Claim(w)
      PROVE  RanInv'
  BY <1>18 DEF Claim, TypeOK, RanInv, Unentered, shared, callerVs, workerVs, history
<1>19. ASSUME NEW w \in Workers, NoneLeft(w)
      PROVE  RanInv'
  BY <1>19 DEF NoneLeft, TypeOK, RanInv, Unentered, shared, callerVs, workerVs, history
<1>20. ASSUME NEW w \in Workers, RunClaimed(w)
      PROVE  RanInv'
  <2>0. PICK k \in Nat : k = claim[w]
    BY DEF TypeOK
  <2>1. /\ task # None /\ k \in 1 .. next - 1 /\ k \in 1 .. nTasks - 1 /\ k \in Index
        /\ nTasks \in 0 .. MaxTasks /\ next \in Nat
    BY <1>20, <2>0, PoolAssumption DEF RunClaimed, ActiveInv, Active, ClaimInv, Holds, TypeOK, Index
  <2>2. ran[k] = 0
    BY <2>0, <2>1, <1>20 DEF RunClaimed, RanInv, Unentered
  <2>3. /\ ran'[k] = 1 /\ \A i \in Index : i # k => ran'[i] = ran[i]
        /\ UNCHANGED <<task, nTasks, next, cpc, claim>>
    BY <2>0, <2>1, <2>2, <1>20 DEF RunClaimed, EnterTask, TypeOK, shared, callerVs
  <2>4. \A v \in Workers : wpc'[v] = "claimed" <=> (wpc[v] = "claimed" /\ v # w)
    BY <1>20 DEF RunClaimed, TypeOK
  <2>5. ~Unentered(k)'
    BY <2>0, <2>3, <2>4, <1>20 DEF RunClaimed, Unentered, UniqueInv, Holds
  <2>6. \A i \in 1 .. nTasks - 1 : i # k => (Unentered(i)' <=> Unentered(i))
    BY <2>0, <2>3, <2>4 DEF Unentered
  <2>7. \A i \in 1 .. nTasks - 1 : i \in Index
    BY <2>1, PoolAssumption DEF Index
  <2>8. ran'[0] = ran[0]
    BY <2>1, <2>3, PoolAssumption DEF Index
  <2>9. ASSUME NEW i \in 1 .. nTasks - 1
        PROVE  ran'[i] = (IF next' <= i \/ Unentered(i)' THEN 0 ELSE 1)
    <3>1. CASE i = k
      <4>1. ~Unentered(i)'
        BY <3>1, <2>5 DEF Unentered
      <4>2. next' = next /\ i < next /\ next \in Nat /\ i \in Nat
        BY <3>1, <2>1, <2>3
      <4> QED
        BY <3>1, <2>3, <4>1, <4>2
    <3>2. CASE i # k
      <4>1. i \in 1 .. nTasks - 1 /\ ran'[i] = ran[i] /\ (Unentered(i)' <=> Unentered(i))
        BY <3>2, <2>3, <2>6, <2>7
      <4> QED
        BY <4>1, <2>1, <2>3 DEF RanInv
    <3> QED
      BY <3>1, <3>2
  <2> QED
    BY <2>1, <2>3, <2>8, <2>9 DEF RanInv
<1>21. ASSUME NEW w \in Workers, NestedWorker(w)
      PROVE  RanInv'
  BY <1>21 DEF NestedWorker, TypeOK, RanInv, Unentered, shared, callerVs, workerVs, history
<1>22. ASSUME NEW w \in Workers, NEW throws \in BOOLEAN, FinishClaimed(w, throws)
      PROVE  RanInv'
  BY <1>22 DEF FinishClaimed, LeaveTask, TypeOK, RanInv, Unentered, shared, callerVs, workerVs,
     history
<1>23. ASSUME NEW w \in Workers, Retire(w)
      PROVE  RanInv'
  BY <1>23 DEF Retire, TypeOK, RanInv, Unentered, shared, callerVs, workerVs, history
<1>24. ASSUME NEW w \in Workers, Signal(w)
      PROVE  RanInv'
  BY <1>24 DEF Signal, TypeOK, RanInv, Unentered, shared, callerVs, workerVs, history
<1>25. ASSUME NEW w \in Workers, SpuriousWake(w)
      PROVE  RanInv'
  BY <1>25 DEF SpuriousWake, TypeOK, RanInv, Unentered, shared, callerVs, workerVs, history
<1>26. ASSUME NotifyStop
      PROVE  RanInv'
  BY <1>26 DEF NotifyStop, WakeWorkers, TypeOK, RanInv, Unentered, shared, callerVs, workerVs,
     history
<1>27. CASE UNCHANGED <<task, ran, cpc, nTasks, next, wpc, claim>>
  BY <1>27 DEF TypeOK, RanInv, Unentered
<1>28.
     \/ \E c \in Callers, n \in 2 .. MaxTasks : ParallelFor(c, n)
     \/ \E c \in Callers :
          \/ Enter(c)
          \/ Ensure(c)
          \/ EnsureThrows(c)
          \/ Publish(c)
          \/ NotifyWorkers(c)
          \/ RunTask0(c)
          \/ NestedCaller(c)
          \/ WaitDone(c)
          \/ Collect(c)
          \/ Return(c)
          \/ SpuriousCheck(c)
     \/ \E c \in Callers, throws \in BOOLEAN : FinishTask0(c, throws)
     \/ \E w \in Workers :
          \/ StartLoop(w)
          \/ Quit(w)
          \/ JoinRegion(w)
          \/ Sleep(w)
          \/ Claim(w)
          \/ NoneLeft(w)
          \/ RunClaimed(w)
          \/ NestedWorker(w)
          \/ Retire(w)
          \/ Signal(w)
          \/ SpuriousWake(w)
     \/ \E w \in Workers, throws \in BOOLEAN : FinishClaimed(w, throws)
     \/ NotifyStop
     \/ UNCHANGED <<task, ran, cpc, nTasks, next, wpc, claim>>
  BY DEF Next, CallerStep, WorkerStep, PoolExit, Terminated, StopPool, Join, vars, shared,
     callerVs, workerVs, history
<1> QED
  BY <1>1, <1>2, <1>3, <1>4, <1>5, <1>6, <1>7, <1>8, <1>9, <1>10, <1>11, <1>12, <1>13,
     <1>14, <1>15, <1>16, <1>17, <1>18, <1>19, <1>20, <1>21, <1>22, <1>23, <1>24, <1>25, <1>26,
     <1>27, <1>28

\* A worker retires only when every index has been handed out.
LEMMA ExhaustedInvStep ==
  ASSUME TypeOK, OwnerInv, TaskInv, BirthInv, StopInv, ActiveInv, CountInv, ClaimInv, ExhaustedInv, [Next]_vars
  PROVE  ExhaustedInv'
<1>1. ASSUME NEW c \in Callers, Ensure(c)
      PROVE  ExhaustedInv'
  <2>1. task = None /\ task' = None
    BY <1>1 DEF Ensure, shared, TypeOK, TaskInv, OwnerInv, Holding, Published
  <2> QED
    BY <2>1 DEF ExhaustedInv
<1>2. ASSUME NEW c \in Callers, EnsureThrows(c)
      PROVE  ExhaustedInv'
  <2>1. task = None /\ task' = None
    BY <1>2 DEF EnsureThrows, shared, TypeOK, TaskInv, OwnerInv, Holding, Published
  <2> QED
    BY <2>1 DEF ExhaustedInv
<1>3. ASSUME NEW c \in Callers, Publish(c)
      PROVE  ExhaustedInv'
  <2>1. task = None /\ exit = "running" /\ ~stop /\ Owing = {}
    BY <1>3 DEF Publish, TypeOK, TaskInv, OwnerInv, Holding, Published, StopInv, CountInv
  <2>2. UNCHANGED <<wpc, seen>> /\ gen' = gen + 1
    BY <1>3 DEF Publish, workerVs
  <2>3. ASSUME NEW w \in Workers
        PROVE  ~Retired(w)'
    <3>1. wpc[w] # "exited"
      BY <2>1 DEF BirthInv
    <3>2. wpc[w] # "unborn" => Idle(w) /\ seen[w] = gen
      BY <2>1, <3>1 DEF Owing, Pending, Active, Idle, TypeOK, WorkerPc
    <3> QED
      BY <2>2, <3>2 DEF Retired, Pending, Idle, TypeOK
  <2> QED
    BY <2>3 DEF ExhaustedInv
<1>4. ASSUME NEW c \in Callers, NotifyWorkers(c)
      PROVE  ExhaustedInv'
  BY <1>4 DEF NotifyWorkers, WakeWorkers, TypeOK, ExhaustedInv, Retired, Pending, Active, Idle,
     shared, callerVs, workerVs, history
<1>5. ASSUME NEW c \in Callers, Collect(c)
      PROVE  ExhaustedInv'
  <2>1. task' = None
    BY <1>5 DEF Collect
  <2> QED
    BY <2>1 DEF ExhaustedInv
<1>6. ASSUME NEW w \in Workers, StartLoop(w)
      PROVE  ExhaustedInv'
  BY <1>6 DEF StartLoop, TypeOK, ExhaustedInv, Retired, Pending, Active, Idle, shared, callerVs,
     workerVs, history
<1>7. ASSUME NEW w \in Workers, Quit(w)
      PROVE  ExhaustedInv'
  <2>1. task = None /\ task' = None
    BY <1>7 DEF Quit, shared, TypeOK, StopInv, TaskInv, Published
  <2> QED
    BY <2>1 DEF ExhaustedInv
<1>8. ASSUME NEW w \in Workers, JoinRegion(w)
      PROVE  ExhaustedInv'
  BY <1>8 DEF JoinRegion, TypeOK, ExhaustedInv, Retired, Pending, Active, Idle, shared,
     callerVs, workerVs, history
<1>9. ASSUME NEW w \in Workers, Sleep(w)
      PROVE  ExhaustedInv'
  BY <1>9 DEF Sleep, TypeOK, ExhaustedInv, Retired, Pending, Active, Idle, shared, callerVs,
     workerVs, history
<1>10. ASSUME NEW w \in Workers, Claim(w)
      PROVE  ExhaustedInv'
  BY <1>10 DEF Claim, TypeOK, ExhaustedInv, Retired, Pending, Active, Idle, shared, callerVs,
     workerVs, history
<1>11. ASSUME NEW w \in Workers, NoneLeft(w)
      PROVE  ExhaustedInv'
  <2>1. nTasks <= next /\ UNCHANGED <<task, nTasks, next, seen, gen>>
    BY <1>11 DEF NoneLeft, ClaimInv, Holds, TypeOK, shared
  <2> QED
    BY <2>1 DEF ExhaustedInv
<1>12. ASSUME NEW w \in Workers, RunClaimed(w)
      PROVE  ExhaustedInv'
  BY <1>12 DEF RunClaimed, EnterTask, TypeOK, ExhaustedInv, Retired, Pending, Active, Idle,
     shared, callerVs, workerVs, history
<1>13. ASSUME NEW w \in Workers, NestedWorker(w)
      PROVE  ExhaustedInv'
  BY <1>13 DEF NestedWorker, TypeOK, ExhaustedInv, Retired, Pending, Active, Idle, shared,
     callerVs, workerVs, history
<1>14. ASSUME NEW w \in Workers, NEW throws \in BOOLEAN, FinishClaimed(w, throws)
      PROVE  ExhaustedInv'
  BY <1>14 DEF FinishClaimed, LeaveTask, TypeOK, ExhaustedInv, Retired, Pending, Active, Idle,
     shared, callerVs, workerVs, history
<1>15. ASSUME NEW w \in Workers, Retire(w)
      PROVE  ExhaustedInv'
  BY <1>15 DEF Retire, TypeOK, ExhaustedInv, Retired, Pending, Active, Idle, shared, callerVs,
     workerVs, history
<1>16. ASSUME NEW w \in Workers, Signal(w)
      PROVE  ExhaustedInv'
  BY <1>16 DEF Signal, TypeOK, ExhaustedInv, Retired, Pending, Active, Idle, shared, callerVs,
     workerVs, history
<1>17. ASSUME NEW w \in Workers, SpuriousWake(w)
      PROVE  ExhaustedInv'
  BY <1>17 DEF SpuriousWake, TypeOK, ExhaustedInv, Retired, Pending, Active, Idle, shared,
     callerVs, workerVs, history
<1>18. ASSUME StopPool
      PROVE  ExhaustedInv'
  <2>1. task = None /\ task' = None
    BY <1>18 DEF StopPool, TypeOK, TaskInv, Published
  <2> QED
    BY <2>1 DEF ExhaustedInv
<1>19. ASSUME NotifyStop
      PROVE  ExhaustedInv'
  BY <1>19 DEF NotifyStop, WakeWorkers, TypeOK, ExhaustedInv, Retired, Pending, Active, Idle,
     shared, callerVs, workerVs, history
<1>20. CASE UNCHANGED <<task, nTasks, next, wpc, seen, gen>>
  BY <1>20 DEF TypeOK, ExhaustedInv, Retired, Pending, Active, Idle
<1>21.
     \/ \E c \in Callers :
          \/ Ensure(c)
          \/ EnsureThrows(c)
          \/ Publish(c)
          \/ NotifyWorkers(c)
          \/ Collect(c)
     \/ \E w \in Workers :
          \/ StartLoop(w)
          \/ Quit(w)
          \/ JoinRegion(w)
          \/ Sleep(w)
          \/ Claim(w)
          \/ NoneLeft(w)
          \/ RunClaimed(w)
          \/ NestedWorker(w)
          \/ Retire(w)
          \/ Signal(w)
          \/ SpuriousWake(w)
     \/ \E w \in Workers, throws \in BOOLEAN : FinishClaimed(w, throws)
     \/ StopPool
     \/ NotifyStop
     \/ UNCHANGED <<task, nTasks, next, wpc, seen, gen>>
  BY DEF Next, CallerStep, WorkerStep, PoolExit, Terminated, ParallelFor, Enter, RunTask0,
     NestedCaller, FinishTask0, WaitDone, Return, SpuriousCheck, Join, vars, shared, callerVs,
     workerVs, history
<1> QED
  BY <1>1, <1>2, <1>3, <1>4, <1>5, <1>6, <1>7, <1>8, <1>9, <1>10, <1>11, <1>12, <1>13,
     <1>14, <1>15, <1>16, <1>17, <1>18, <1>19, <1>20, <1>21

\* err_ is an exception of this region, and is set as soon as one was thrown.
LEMMA ErrorInvStep ==
  ASSUME TypeOK, ClaimInv, ErrorInv, [Next]_vars
  PROVE  ErrorInv'
<1>1. ASSUME NEW c \in Callers, Publish(c)
      PROVE  ErrorInv'
  BY <1>1 DEF Publish, TypeOK, ErrorInv, shared, callerVs, workerVs, history
<1>2. ASSUME NEW c \in Callers, Collect(c)
      PROVE  ErrorInv'
  BY <1>2 DEF Collect, TypeOK, ErrorInv, shared, callerVs, workerVs, history
<1>3. ASSUME NEW c \in Callers, NEW throws \in BOOLEAN, FinishTask0(c, throws)
      PROVE  ErrorInv'
  <2>1. CASE throws
    BY <2>1, <1>3, PoolAssumption DEF FinishTask0, LeaveTask, ErrorInv, TypeOK, NoError, Index
  <2>2. CASE ~throws
    BY <2>2, <1>3 DEF FinishTask0, LeaveTask, ErrorInv
  <2> QED
    BY <2>1, <2>2
<1>4. ASSUME NEW w \in Workers, NEW throws \in BOOLEAN, FinishClaimed(w, throws)
      PROVE  ErrorInv'
  <2>1. CASE throws
    BY <2>1, <1>4, PoolAssumption DEF ClaimInv, FinishClaimed, LeaveTask, ErrorInv, TypeOK, NoError, Index
  <2>2. CASE ~throws
    BY <2>2, <1>4 DEF FinishClaimed, LeaveTask, ErrorInv
  <2> QED
    BY <2>1, <2>2
<1>5. CASE UNCHANGED <<task, err, threw>>
  BY <1>5 DEF TypeOK, ErrorInv
<1>6.
     \/ \E c \in Callers :
          \/ Publish(c)
          \/ Collect(c)
     \/ \E c \in Callers, throws \in BOOLEAN : FinishTask0(c, throws)
     \/ \E w \in Workers, throws \in BOOLEAN : FinishClaimed(w, throws)
     \/ UNCHANGED <<task, err, threw>>
  BY ZenonT(30) DEF Next, CallerStep, WorkerStep, PoolExit, Terminated, ParallelFor, Enter, Ensure,
     EnsureThrows, NotifyWorkers, RunTask0, NestedCaller, WaitDone, Return, SpuriousCheck,
     StartLoop, Quit, JoinRegion, Sleep, Claim, NoneLeft, RunClaimed, NestedWorker, Retire,
     Signal, SpuriousWake, StopPool, NotifyStop, Join, vars, shared, callerVs, workerVs, history
<1> QED
  BY <1>1, <1>2, <1>3, <1>4, <1>5, <1>6

\* At the end of a dispatch every index has run exactly once and every worker is out.
LEMMA RegionCompleteStep ==
  ASSUME TypeOK, OwnerInv, TaskInv, BirthInv, StopInv, ActiveInv, CountInv, ClaimInv, RanInv, ExhaustedInv, RegionComplete, [Next]_vars
  PROVE  RegionComplete'
<1>1. ASSUME NEW c \in Callers, NEW n \in 2 .. MaxTasks, ParallelFor(c, n)
      PROVE  RegionComplete'
  BY <1>1 DEF ParallelFor, TypeOK, RegionComplete, Active, shared, callerVs, workerVs, history
<1>2. ASSUME NEW c \in Callers, Enter(c)
      PROVE  RegionComplete'
  BY <1>2 DEF Enter, TypeOK, RegionComplete, Active, shared, callerVs, workerVs, history
<1>3. ASSUME NEW c \in Callers, Ensure(c)
      PROVE  RegionComplete'
  BY <1>3 DEF Ensure, Spawn, TypeOK, RegionComplete, Active, shared, callerVs, workerVs, history
<1>4. ASSUME NEW c \in Callers, EnsureThrows(c)
      PROVE  RegionComplete'
  BY <1>4 DEF EnsureThrows, Spawn, TypeOK, RegionComplete, Active, shared, callerVs, workerVs,
     history
<1>5. ASSUME NEW c \in Callers, Publish(c)
      PROVE  RegionComplete'
  <2>1. \A d \in Callers : cpc[d] # "leaving"
    BY <1>5 DEF Publish, TypeOK, OwnerInv, Holding
  <2> QED
    BY <2>1, <1>5 DEF Publish, TypeOK, RegionComplete
<1>6. ASSUME NEW c \in Callers, NotifyWorkers(c)
      PROVE  RegionComplete'
  BY <1>6 DEF NotifyWorkers, WakeWorkers, TypeOK, RegionComplete, Active, shared, callerVs,
     workerVs, history
<1>7. ASSUME NEW c \in Callers, RunTask0(c)
      PROVE  RegionComplete'
  <2>1. \A d \in Callers : cpc[d] # "leaving"
    BY <1>7 DEF RunTask0, TypeOK, OwnerInv, Holding
  <2> QED
    BY <2>1, <1>7 DEF RunTask0, TypeOK, RegionComplete
<1>8. ASSUME NEW c \in Callers, NestedCaller(c)
      PROVE  RegionComplete'
  BY <1>8 DEF NestedCaller, TypeOK, RegionComplete, Active, shared, callerVs, workerVs, history
<1>9. ASSUME NEW c \in Callers, NEW throws \in BOOLEAN, FinishTask0(c, throws)
      PROVE  RegionComplete'
  BY <1>9 DEF FinishTask0, LeaveTask, TypeOK, RegionComplete, Active, shared, callerVs,
     workerVs, history
<1>10. ASSUME NEW c \in Callers, WaitDone(c)
      PROVE  RegionComplete'
  BY <1>10 DEF WaitDone, TypeOK, RegionComplete, Active, shared, callerVs, workerVs, history
<1>11. ASSUME NEW c \in Callers, Collect(c)
      PROVE  RegionComplete'
  <2>1. task = c
    BY <1>11 DEF Collect, TaskInv, Published
  <2>2. Owing = {}
    BY <2>1, <1>11, OwingFinite, PoolAssumption DEF Collect, CountInv
  <2>3. /\ UNCHANGED <<wpc, want, ran>> /\ c # None
        /\ \A d \in Callers : cpc'[d] = "leaving" => d = c
    BY <1>11, PoolAssumption DEF Collect, TypeOK, OwnerInv, Holding, workerVs, history
  <2>4. \A w \in Workers : ~Active(w)
    BY <2>2 DEF Owing, Pending
  <2>5. nTasks = want[c] /\ nTasks \in 2 .. MaxTasks /\ nTasks - 1 <= size /\ size \in Nat
    BY <2>1, <2>3, <1>11 DEF Collect, TaskInv, TypeOK
  <2>6. nTasks <= next /\ next \in Nat
    <3>1. 1 \in Workers /\ 1 <= size
      BY <2>5, PoolAssumption DEF Workers
    <3>2. Retired(1)
      BY <3>1, <2>2, <2>5 DEF BirthInv, Retired, Owing
    <3> QED
      BY <3>1, <3>2, <2>1, <2>3 DEF ExhaustedInv, TypeOK
  <2>7. ASSUME NEW i \in 0 .. nTasks - 1
        PROVE  ran[i] = 1
    <3>1. CASE i = 0
      BY <3>1, <2>1, <2>3, <1>11 DEF Collect, RanInv
    <3>2. CASE i # 0
      <4>1. i \in 1 .. nTasks - 1 /\ ~(next <= i)
        BY <3>2, <2>5, <2>6
      <4>2. ~Unentered(i)
        BY <2>4 DEF Unentered, Active
      <4> QED
        BY <4>1, <4>2, <2>1, <2>3 DEF RanInv
    <3> QED
      BY <3>1, <3>2
  <2> QED
    BY <2>3, <2>4, <2>5, <2>7 DEF RegionComplete, Active
<1>12. ASSUME NEW c \in Callers, Return(c)
      PROVE  RegionComplete'
  BY <1>12 DEF Return, TypeOK, RegionComplete, Active, shared, callerVs, workerVs, history
<1>13. ASSUME NEW c \in Callers, SpuriousCheck(c)
      PROVE  RegionComplete'
  BY <1>13 DEF SpuriousCheck, TypeOK, RegionComplete, Active, shared, callerVs, workerVs,
     history
<1>14. ASSUME NEW w \in Workers, StartLoop(w)
      PROVE  RegionComplete'
  BY <1>14 DEF StartLoop, TypeOK, RegionComplete, Active, shared, callerVs, workerVs, history
<1>15. ASSUME NEW w \in Workers, Quit(w)
      PROVE  RegionComplete'
  BY <1>15 DEF Quit, TypeOK, RegionComplete, Active, shared, callerVs, workerVs, history
<1>16. ASSUME NEW w \in Workers, JoinRegion(w)
      PROVE  RegionComplete'
  <2>1. task # None
    BY <1>16 DEF JoinRegion, CountInv, StopInv, Owing, Pending, Idle
  <2>2. \A d \in Callers : cpc[d] # "leaving"
    BY <2>1 DEF TaskInv, OwnerInv, Holding, Published, TypeOK
  <2> QED
    BY <2>2, <1>16 DEF JoinRegion, RegionComplete, callerVs
<1>17. ASSUME NEW w \in Workers, Sleep(w)
      PROVE  RegionComplete'
  BY <1>17 DEF Sleep, TypeOK, RegionComplete, Active, shared, callerVs, workerVs, history
<1>18. ASSUME NEW w \in Workers, Claim(w)
      PROVE  RegionComplete'
  BY <1>18 DEF Claim, TypeOK, RegionComplete, Active, shared, callerVs, workerVs, history
<1>19. ASSUME NEW w \in Workers, NoneLeft(w)
      PROVE  RegionComplete'
  BY <1>19 DEF NoneLeft, TypeOK, RegionComplete, Active, shared, callerVs, workerVs, history
<1>20. ASSUME NEW w \in Workers, RunClaimed(w)
      PROVE  RegionComplete'
  BY <1>20 DEF RunClaimed, EnterTask, TypeOK, RegionComplete, Active, shared, callerVs,
     workerVs, history
<1>21. ASSUME NEW w \in Workers, NestedWorker(w)
      PROVE  RegionComplete'
  BY <1>21 DEF NestedWorker, TypeOK, RegionComplete, Active, shared, callerVs, workerVs, history
<1>22. ASSUME NEW w \in Workers, NEW throws \in BOOLEAN, FinishClaimed(w, throws)
      PROVE  RegionComplete'
  BY <1>22 DEF FinishClaimed, LeaveTask, TypeOK, RegionComplete, Active, shared, callerVs,
     workerVs, history
<1>23. ASSUME NEW w \in Workers, Retire(w)
      PROVE  RegionComplete'
  BY <1>23 DEF Retire, TypeOK, RegionComplete, Active, shared, callerVs, workerVs, history
<1>24. ASSUME NEW w \in Workers, Signal(w)
      PROVE  RegionComplete'
  BY <1>24 DEF Signal, TypeOK, RegionComplete, Active, shared, callerVs, workerVs, history
<1>25. ASSUME NEW w \in Workers, SpuriousWake(w)
      PROVE  RegionComplete'
  BY <1>25 DEF SpuriousWake, TypeOK, RegionComplete, Active, shared, callerVs, workerVs, history
<1>26. ASSUME NotifyStop
      PROVE  RegionComplete'
  BY <1>26 DEF NotifyStop, WakeWorkers, TypeOK, RegionComplete, Active, shared, callerVs,
     workerVs, history
<1>27. CASE UNCHANGED <<cpc, want, ran, wpc>>
  BY <1>27 DEF TypeOK, RegionComplete, Active
<1>28.
     \/ \E c \in Callers, n \in 2 .. MaxTasks : ParallelFor(c, n)
     \/ \E c \in Callers :
          \/ Enter(c)
          \/ Ensure(c)
          \/ EnsureThrows(c)
          \/ Publish(c)
          \/ NotifyWorkers(c)
          \/ RunTask0(c)
          \/ NestedCaller(c)
          \/ WaitDone(c)
          \/ Collect(c)
          \/ Return(c)
          \/ SpuriousCheck(c)
     \/ \E c \in Callers, throws \in BOOLEAN : FinishTask0(c, throws)
     \/ \E w \in Workers :
          \/ StartLoop(w)
          \/ Quit(w)
          \/ JoinRegion(w)
          \/ Sleep(w)
          \/ Claim(w)
          \/ NoneLeft(w)
          \/ RunClaimed(w)
          \/ NestedWorker(w)
          \/ Retire(w)
          \/ Signal(w)
          \/ SpuriousWake(w)
     \/ \E w \in Workers, throws \in BOOLEAN : FinishClaimed(w, throws)
     \/ NotifyStop
     \/ UNCHANGED <<cpc, want, ran, wpc>>
  BY DEF Next, CallerStep, WorkerStep, PoolExit, Terminated, StopPool, Join, vars, shared,
     callerVs, workerVs, history
<1> QED
  BY <1>1, <1>2, <1>3, <1>4, <1>5, <1>6, <1>7, <1>8, <1>9, <1>10, <1>11, <1>12, <1>13,
     <1>14, <1>15, <1>16, <1>17, <1>18, <1>19, <1>20, <1>21, <1>22, <1>23, <1>24, <1>25, <1>26,
     <1>27, <1>28

\* A dispatch rethrows an exception of its own, and only then.
LEMMA ErrorDeliveredStep ==
  ASSUME TypeOK, OwnerInv, TaskInv, ActiveInv, ErrorInv, ErrorDelivered, [Next]_vars
  PROVE  ErrorDelivered'
<1>1. ASSUME NEW c \in Callers, NEW n \in 2 .. MaxTasks, ParallelFor(c, n)
      PROVE  ErrorDelivered'
  BY <1>1 DEF ParallelFor, TypeOK, ErrorDelivered, shared, callerVs, workerVs, history
<1>2. ASSUME NEW c \in Callers, Enter(c)
      PROVE  ErrorDelivered'
  BY <1>2 DEF Enter, TypeOK, ErrorDelivered, shared, callerVs, workerVs, history
<1>3. ASSUME NEW c \in Callers, Ensure(c)
      PROVE  ErrorDelivered'
  BY <1>3 DEF Ensure, Spawn, TypeOK, ErrorDelivered, shared, callerVs, workerVs, history
<1>4. ASSUME NEW c \in Callers, EnsureThrows(c)
      PROVE  ErrorDelivered'
  BY <1>4 DEF EnsureThrows, Spawn, TypeOK, ErrorDelivered, shared, callerVs, workerVs, history
<1>5. ASSUME NEW c \in Callers, Publish(c)
      PROVE  ErrorDelivered'
  <2>1. \A d \in Callers : cpc[d] # "leaving"
    BY <1>5 DEF Publish, TypeOK, OwnerInv, Holding
  <2> QED
    BY <2>1, <1>5 DEF Publish, TypeOK, ErrorDelivered
<1>6. ASSUME NEW c \in Callers, NotifyWorkers(c)
      PROVE  ErrorDelivered'
  BY <1>6 DEF NotifyWorkers, WakeWorkers, TypeOK, ErrorDelivered, shared, callerVs, workerVs,
     history
<1>7. ASSUME NEW c \in Callers, RunTask0(c)
      PROVE  ErrorDelivered'
  BY <1>7 DEF RunTask0, EnterTask, TypeOK, ErrorDelivered, shared, callerVs, workerVs, history
<1>8. ASSUME NEW c \in Callers, NestedCaller(c)
      PROVE  ErrorDelivered'
  BY <1>8 DEF NestedCaller, TypeOK, ErrorDelivered, shared, callerVs, workerVs, history
<1>9. ASSUME NEW c \in Callers, NEW throws \in BOOLEAN, FinishTask0(c, throws)
      PROVE  ErrorDelivered'
  <2>1. \A d \in Callers : cpc[d] # "leaving"
    BY <1>9 DEF FinishTask0, TypeOK, OwnerInv, Holding
  <2>2. \A d \in Callers : cpc'[d] # "leaving"
    BY <2>1, <1>9 DEF FinishTask0, TypeOK
  <2> QED
    BY <2>2 DEF ErrorDelivered
<1>10. ASSUME NEW c \in Callers, WaitDone(c)
      PROVE  ErrorDelivered'
  BY <1>10 DEF WaitDone, TypeOK, ErrorDelivered, shared, callerVs, workerVs, history
<1>11. ASSUME NEW c \in Callers, Collect(c)
      PROVE  ErrorDelivered'
  <2>1. task = c /\ c # None
    BY <1>11, PoolAssumption DEF Collect, TaskInv, Published
  <2>2. \A d \in Callers : cpc'[d] = "leaving" => d = c
    BY <1>11 DEF Collect, TypeOK, OwnerInv, Holding
  <2>3. caught'[c] = err /\ threw' = threw
    BY <1>11 DEF Collect, TypeOK, history
  <2> QED
    BY <2>1, <2>2, <2>3 DEF ErrorDelivered, ErrorInv
<1>12. ASSUME NEW c \in Callers, Return(c)
      PROVE  ErrorDelivered'
  BY <1>12 DEF Return, TypeOK, ErrorDelivered, shared, callerVs, workerVs, history
<1>13. ASSUME NEW c \in Callers, SpuriousCheck(c)
      PROVE  ErrorDelivered'
  BY <1>13 DEF SpuriousCheck, TypeOK, ErrorDelivered, shared, callerVs, workerVs, history
<1>14. ASSUME NEW w \in Workers, NEW throws \in BOOLEAN, FinishClaimed(w, throws)
      PROVE  ErrorDelivered'
  <2>1. task # None /\ UNCHANGED cpc
    BY <1>14 DEF FinishClaimed, ActiveInv, Active, callerVs
  <2>2. \A d \in Callers : cpc[d] # "leaving"
    BY <2>1 DEF TaskInv, OwnerInv, Holding, Published, TypeOK
  <2> QED
    BY <2>1, <2>2 DEF ErrorDelivered
<1>15. ASSUME NEW w \in Workers, Signal(w)
      PROVE  ErrorDelivered'
  BY <1>15 DEF Signal, TypeOK, ErrorDelivered, shared, callerVs, workerVs, history
<1>16. CASE UNCHANGED <<cpc, threw, caught>>
  BY <1>16 DEF TypeOK, ErrorDelivered
<1>17.
     \/ \E c \in Callers, n \in 2 .. MaxTasks : ParallelFor(c, n)
     \/ \E c \in Callers :
          \/ Enter(c)
          \/ Ensure(c)
          \/ EnsureThrows(c)
          \/ Publish(c)
          \/ NotifyWorkers(c)
          \/ RunTask0(c)
          \/ NestedCaller(c)
          \/ WaitDone(c)
          \/ Collect(c)
          \/ Return(c)
          \/ SpuriousCheck(c)
     \/ \E c \in Callers, throws \in BOOLEAN : FinishTask0(c, throws)
     \/ \E w \in Workers :
          \/ Signal(w)
     \/ \E w \in Workers, throws \in BOOLEAN : FinishClaimed(w, throws)
     \/ UNCHANGED <<cpc, threw, caught>>
  BY DEF Next, CallerStep, WorkerStep, PoolExit, Terminated, StartLoop, Quit, JoinRegion, Sleep,
     Claim, NoneLeft, RunClaimed, NestedWorker, Retire, SpuriousWake, StopPool, NotifyStop,
     Join, vars, shared, callerVs, workerVs, history
<1> QED
  BY <1>1, <1>2, <1>3, <1>4, <1>5, <1>6, <1>7, <1>8, <1>9, <1>10, <1>11, <1>12, <1>13,
     <1>14, <1>15, <1>16, <1>17

\* Type correctness.
LEMMA TypeOKStep ==
  ASSUME TypeOK, TaskInv, ClaimInv, CountInv, ActiveInv, [Next]_vars
  PROVE  TypeOK'
<1>1. ASSUME NEW c \in Callers, NEW n \in 2 .. MaxTasks, ParallelFor(c, n)
      PROVE  TypeOK'
  BY <1>1, PoolAssumption DEF ParallelFor, TypeOK, CallerPc, WorkerPc, shared, callerVs,
     workerVs, history
<1>2. ASSUME NEW c \in Callers, Enter(c)
      PROVE  TypeOK'
  BY <1>2, PoolAssumption DEF Enter, TypeOK, CallerPc, WorkerPc, shared, callerVs, workerVs,
     history
<1>3. ASSUME NEW c \in Callers, Ensure(c)
      PROVE  TypeOK'
  BY <1>3, PoolAssumption DEF Ensure, Spawn, TypeOK, CallerPc, WorkerPc, shared, callerVs,
     workerVs, history
<1>4. ASSUME NEW c \in Callers, EnsureThrows(c)
      PROVE  TypeOK'
  BY <1>4, PoolAssumption DEF EnsureThrows, Spawn, TypeOK, CallerPc, WorkerPc, shared, callerVs,
     workerVs, history
<1>5. ASSUME NEW c \in Callers, Publish(c)
      PROVE  TypeOK'
  BY <1>5, PoolAssumption DEF Publish, TypeOK, CallerPc, WorkerPc, shared, callerVs, workerVs,
     history
<1>6. ASSUME NEW c \in Callers, NotifyWorkers(c)
      PROVE  TypeOK'
  BY <1>6, PoolAssumption DEF NotifyWorkers, WakeWorkers, TypeOK, CallerPc, WorkerPc, shared,
     callerVs, workerVs, history
<1>7. ASSUME NEW c \in Callers, RunTask0(c)
      PROVE  TypeOK'
  <2>1. 0 \in Index
    BY <1>7, PoolAssumption DEF RunTask0, TypeOK, Index, TaskInv, ActiveInv, Active, ClaimInv, Holds
  <2>2. ran' \in [Index -> Nat]
    BY <2>1, <1>7 DEF RunTask0, EnterTask, TypeOK
  <2>3. inRegion' \in [Threads -> BOOLEAN] /\ closure' \in [Threads -> Callers \cup {None}]
    BY <1>7 DEF RunTask0, EnterTask, TypeOK
  <2>4. cpc' \in [Callers -> CallerPc] /\ wpc' \in [Workers -> WorkerPc]
    BY <1>7 DEF RunTask0, TypeOK, CallerPc, WorkerPc, callerVs, workerVs
  <2> QED
    BY <2>2, <2>3, <2>4, <1>7 DEF RunTask0, TypeOK, shared, callerVs, workerVs
<1>8. ASSUME NEW c \in Callers, NestedCaller(c)
      PROVE  TypeOK'
  BY <1>8, PoolAssumption DEF NestedCaller, TypeOK, CallerPc, WorkerPc, shared, callerVs,
     workerVs, history
<1>9. ASSUME NEW c \in Callers, NEW throws \in BOOLEAN, FinishTask0(c, throws)
      PROVE  TypeOK'
  <2>0. 0 \in Index
    BY <1>9, PoolAssumption DEF FinishTask0, TypeOK, Index, ClaimInv, Holds
  <2>1. err' \in Index \cup {NoError} /\ threw' \in SUBSET Index
    BY <2>0, <1>9 DEF FinishTask0, LeaveTask, TypeOK
  <2>2. inRegion' \in [Threads -> BOOLEAN]
    <3>1. (c \in Workers) = FALSE
      BY PoolAssumption DEF Workers
    <3>2. inRegion' = [inRegion EXCEPT ![c] = (c \in Workers)]
      BY <1>9 DEF FinishTask0, LeaveTask
    <3> QED
      BY <3>1, <3>2 DEF TypeOK
  <2>3. closure' \in [Threads -> Callers \cup {None}]
    BY <1>9 DEF FinishTask0, LeaveTask, TypeOK
  <2>4. cpc' \in [Callers -> CallerPc] /\ wpc' \in [Workers -> WorkerPc]
    BY <1>9 DEF FinishTask0, TypeOK, CallerPc, WorkerPc, callerVs, workerVs
  <2> QED
    BY <2>1, <2>2, <2>3, <2>4, <1>9 DEF FinishTask0, TypeOK, callerVs, workerVs
<1>10. ASSUME NEW c \in Callers, WaitDone(c)
      PROVE  TypeOK'
  BY <1>10, PoolAssumption DEF WaitDone, TypeOK, CallerPc, WorkerPc, shared, callerVs, workerVs,
     history
<1>11. ASSUME NEW c \in Callers, Collect(c)
      PROVE  TypeOK'
  BY <1>11, PoolAssumption DEF Collect, TypeOK, CallerPc, WorkerPc, shared, callerVs, workerVs,
     history
<1>12. ASSUME NEW c \in Callers, Return(c)
      PROVE  TypeOK'
  BY <1>12, PoolAssumption DEF Return, TypeOK, CallerPc, WorkerPc, shared, callerVs, workerVs,
     history
<1>13. ASSUME NEW c \in Callers, SpuriousCheck(c)
      PROVE  TypeOK'
  BY <1>13, PoolAssumption DEF SpuriousCheck, TypeOK, CallerPc, WorkerPc, shared, callerVs,
     workerVs, history
<1>14. ASSUME NEW w \in Workers, StartLoop(w)
      PROVE  TypeOK'
  BY <1>14, PoolAssumption DEF StartLoop, TypeOK, CallerPc, WorkerPc, shared, callerVs,
     workerVs, history
<1>15. ASSUME NEW w \in Workers, Quit(w)
      PROVE  TypeOK'
  BY <1>15, PoolAssumption DEF Quit, TypeOK, CallerPc, WorkerPc, shared, callerVs, workerVs,
     history
<1>16. ASSUME NEW w \in Workers, JoinRegion(w)
      PROVE  TypeOK'
  BY <1>16, PoolAssumption DEF JoinRegion, TypeOK, CallerPc, WorkerPc, shared, callerVs,
     workerVs, history
<1>17. ASSUME NEW w \in Workers, Sleep(w)
      PROVE  TypeOK'
  BY <1>17, PoolAssumption DEF Sleep, TypeOK, CallerPc, WorkerPc, shared, callerVs, workerVs,
     history
<1>18. ASSUME NEW w \in Workers, Claim(w)
      PROVE  TypeOK'
  BY <1>18, PoolAssumption DEF Claim, TypeOK, CallerPc, WorkerPc, shared, callerVs, workerVs,
     history
<1>19. ASSUME NEW w \in Workers, NoneLeft(w)
      PROVE  TypeOK'
  BY <1>19, PoolAssumption DEF NoneLeft, TypeOK, CallerPc, WorkerPc, shared, callerVs, workerVs,
     history
<1>20. ASSUME NEW w \in Workers, RunClaimed(w)
      PROVE  TypeOK'
  <2>1. claim[w] \in Index
    BY <1>20, PoolAssumption DEF RunClaimed, TypeOK, Index, TaskInv, ActiveInv, Active, ClaimInv, Holds
  <2>2. ran' \in [Index -> Nat]
    BY <2>1, <1>20 DEF RunClaimed, EnterTask, TypeOK
  <2>3. inRegion' \in [Threads -> BOOLEAN] /\ closure' \in [Threads -> Callers \cup {None}]
    BY <1>20 DEF RunClaimed, EnterTask, TypeOK
  <2>4. cpc' \in [Callers -> CallerPc] /\ wpc' \in [Workers -> WorkerPc]
    BY <1>20 DEF RunClaimed, TypeOK, CallerPc, WorkerPc, callerVs, workerVs
  <2> QED
    BY <2>2, <2>3, <2>4, <1>20 DEF RunClaimed, TypeOK, shared, callerVs, workerVs
<1>21. ASSUME NEW w \in Workers, NestedWorker(w)
      PROVE  TypeOK'
  BY <1>21, PoolAssumption DEF NestedWorker, TypeOK, CallerPc, WorkerPc, shared, callerVs,
     workerVs, history
<1>22. ASSUME NEW w \in Workers, NEW throws \in BOOLEAN, FinishClaimed(w, throws)
      PROVE  TypeOK'
  <2>0. claim[w] \in Index
    BY <1>22, PoolAssumption DEF FinishClaimed, TypeOK, Index, ClaimInv, Holds
  <2>1. err' \in Index \cup {NoError} /\ threw' \in SUBSET Index
    BY <2>0, <1>22 DEF FinishClaimed, LeaveTask, TypeOK
  <2>2. inRegion' \in [Threads -> BOOLEAN]
    <3>1. (w \in Workers) = TRUE
      BY PoolAssumption DEF Workers
    <3>2. inRegion' = [inRegion EXCEPT ![w] = (w \in Workers)]
      BY <1>22 DEF FinishClaimed, LeaveTask
    <3> QED
      BY <3>1, <3>2 DEF TypeOK
  <2>3. closure' \in [Threads -> Callers \cup {None}]
    BY <1>22 DEF FinishClaimed, LeaveTask, TypeOK
  <2>4. cpc' \in [Callers -> CallerPc] /\ wpc' \in [Workers -> WorkerPc]
    BY <1>22 DEF FinishClaimed, TypeOK, CallerPc, WorkerPc, callerVs, workerVs
  <2> QED
    BY <2>1, <2>2, <2>3, <2>4, <1>22 DEF FinishClaimed, TypeOK, callerVs, workerVs
<1>23. ASSUME NEW w \in Workers, Retire(w)
      PROVE  TypeOK'
  <2>1. awake' = awake - 1 /\ wpc' \in [Workers -> WorkerPc]
    BY <1>23 DEF Retire, TypeOK, WorkerPc
  <2>2. task # None /\ Owing # {}
    BY <1>23 DEF Retire, ActiveInv, Active, Owing, Pending
  <2>3. awake # 0
    BY <2>2, OwingFinite DEF CountInv
  <2>4. awake' \in 0 .. MaxTasks - 1
    BY <2>1, <2>3, PoolAssumption DEF TypeOK
  <2> QED
    BY <2>1, <2>4, <1>23 DEF Retire, TypeOK, callerVs, history
<1>24. ASSUME NEW w \in Workers, Signal(w)
      PROVE  TypeOK'
  BY <1>24, PoolAssumption DEF Signal, TypeOK, CallerPc, WorkerPc, shared, callerVs, workerVs,
     history
<1>25. ASSUME NEW w \in Workers, SpuriousWake(w)
      PROVE  TypeOK'
  BY <1>25, PoolAssumption DEF SpuriousWake, TypeOK, CallerPc, WorkerPc, shared, callerVs,
     workerVs, history
<1>26. ASSUME StopPool
      PROVE  TypeOK'
  BY <1>26, PoolAssumption DEF StopPool, TypeOK, CallerPc, WorkerPc, shared, callerVs, workerVs,
     history
<1>27. ASSUME NotifyStop
      PROVE  TypeOK'
  BY <1>27, PoolAssumption DEF NotifyStop, WakeWorkers, TypeOK, CallerPc, WorkerPc, shared,
     callerVs, workerVs, history
<1>28. ASSUME Join
      PROVE  TypeOK'
  BY <1>28, PoolAssumption DEF Join, TypeOK, CallerPc, WorkerPc, shared, callerVs, workerVs,
     history
<1>29. CASE Terminated \/ UNCHANGED vars
  BY <1>29 DEF Terminated, TypeOK, CallerPc, WorkerPc, vars, shared, callerVs, workerVs, history
<1> QED
  BY <1>1, <1>2, <1>3, <1>4, <1>5, <1>6, <1>7, <1>8, <1>9, <1>10, <1>11, <1>12, <1>13,
     <1>14, <1>15, <1>16, <1>17, <1>18, <1>19, <1>20, <1>21, <1>22, <1>23, <1>24, <1>25, <1>26,
     <1>27, <1>28, <1>29 DEF Next, CallerStep, WorkerStep, PoolExit

\* A parallelFor inside a task runs inline: with the lock's owner past "entering" and the
\* flag set on every thread inside a task, no branch to the region lock is reachable.
LEMMA NestingFromFlags ==
  ASSUME OwnerInv, FlagInv
  PROVE  NestingIsInline
  BY DEF OwnerInv, Holding, FlagInv, NestingIsInline

LEMMA InitIInv ==
  ASSUME Init
  PROVE  IInv
<1>1. TypeOK
  <2>1. /\ MaxTasks \in Nat /\ 0 \in 0 .. MaxTasks /\ 0 \in 0 .. MaxTasks - 1 /\ 0 \in Nat
        /\ NoError \in Index \cup {NoError} /\ None \in Callers \cup {None}
    BY PoolAssumption
  <2> QED
    BY <2>1 DEF Init, TypeOK, CallerPc, WorkerPc
<1>2. OwnerInv /\ BirthInv /\ StopInv /\ TaskInv /\ ActiveInv
  BY PoolAssumption
  DEF Init, OwnerInv, Holding, BirthInv, Workers, StopInv, TaskInv, Published, ActiveInv, Active
<1>3. CountInv
  BY DEF Init, CountInv, Owing, Pending, Active, Idle
<1>4. FlagInv /\ ClosureInv
  BY DEF Init, FlagInv, ClosureInv, InBody, Threads
<1>5. ClaimInv /\ UniqueInv /\ RanInv /\ ExhaustedInv /\ ErrorInv
  BY DEF Init, ClaimInv, UniqueInv, Holds, RanInv, ExhaustedInv, ErrorInv
<1>6. RegionComplete /\ ErrorDelivered
  BY DEF Init, RegionComplete, ErrorDelivered
<1> QED
  BY <1>1, <1>2, <1>3, <1>4, <1>5, <1>6, NestingFromFlags DEF IInv

LEMMA NextIInv ==
  ASSUME IInv, [Next]_vars
  PROVE  IInv'
<1>1. /\ TypeOK /\ OwnerInv /\ BirthInv /\ StopInv /\ TaskInv /\ ActiveInv /\ CountInv
      /\ FlagInv /\ ClosureInv /\ ClaimInv /\ UniqueInv /\ RanInv /\ ExhaustedInv /\ ErrorInv
      /\ RegionComplete /\ ErrorDelivered
  BY DEF IInv
<1>2. TypeOK' /\ OwnerInv' /\ BirthInv' /\ StopInv' /\ TaskInv'
  BY <1>1, TypeOKStep, OwnerInvStep, BirthInvStep, StopInvStep, TaskInvStep
<1>3. ActiveInv' /\ CountInv' /\ FlagInv' /\ ClosureInv' /\ ClaimInv'
  BY <1>1, ActiveInvStep, CountInvStep, FlagInvStep, ClosureInvStep, ClaimInvStep
<1>4. UniqueInv' /\ RanInv' /\ ExhaustedInv' /\ ErrorInv' /\ RegionComplete' /\ ErrorDelivered'
  BY <1>1, UniqueInvStep, RanInvStep, ExhaustedInvStep, ErrorInvStep, RegionCompleteStep,
     ErrorDeliveredStep
<1>5. NestingIsInline'
  BY <1>2, <1>3 DEF OwnerInv, Holding, FlagInv, NestingIsInline
<1> QED
  BY <1>2, <1>3, <1>4, <1>5 DEF IInv

\* The inductive invariant holds in every reachable state.
THEOREM Invariance == Spec => []IInv
  BY InitIInv, NextIInv, PTL DEF Spec

\* Type correctness: in particular awake_ never goes below zero nor above the pool's size.
THEOREM TypeCorrect == Spec => []TypeOK
<1>1. IInv => TypeOK
  BY DEF IInv
<1> QED
  BY <1>1, Invariance, PTL

\* dispatch() returns with every index of its region executed exactly once.
THEOREM RegionsComplete == Spec => []RegionComplete
<1>1. IInv => RegionComplete
  BY DEF IInv
<1> QED
  BY <1>1, Invariance, PTL

\* dispatch() rethrows an exception of its own region, and only when there was one.
THEOREM ErrorsDelivered == Spec => []ErrorDelivered
<1>1. IInv => ErrorDelivered
  BY DEF IInv
<1> QED
  BY <1>1, Invariance, PTL

\* A nested parallelFor never reaches the region lock, a later one always does.
THEOREM NestingInline == Spec => []NestingIsInline
<1>1. IInv => NestingIsInline
  BY DEF IInv
<1> QED
  BY <1>1, Invariance, PTL

\* Whoever is inside a task runs the function of the caller that waits for it.
THEOREM NoDangling == Spec => []NoDanglingTask
<1>1. ASSUME IInv, NEW t \in Threads, InBody(t)
      PROVE  /\ closure[t] = owner /\ owner \in Callers
             /\ cpc[owner] \notin {"idle", "entering", "ensuring", "publishing", "leaving"}
  <2>1. task # None
    BY <1>1, PoolAssumption DEF IInv, InBody, TaskInv, Published, ActiveInv, Active, Threads
  <2>2. task \in Callers /\ Published(task)
    BY <1>1, <2>1 DEF IInv, TypeOK, TaskInv
  <2>3. owner = task
    BY <1>1, <2>2 DEF IInv, OwnerInv, Holding, Published
  <2> QED
    BY <1>1, <2>2, <2>3 DEF IInv, ClosureInv, Published
<1>2. IInv => NoDanglingTask
  BY <1>1 DEF NoDanglingTask
<1> QED
  BY <1>2, Invariance, PTL

\* The published task_ and nTasks_ do not change while a worker is between its wake-up and
\* its retirement, so workerLoop reads them without the lock.
THEOREM TaskIsStable == Spec => TaskStableWhileActive
<1>1. ASSUME IInv, [Next]_vars
      PROVE  [(\E w \in Workers : Active(w)) => UNCHANGED <<task, nTasks>>]_vars
  <2>1. ASSUME NEW c \in Callers, Publish(c)
        PROVE  \A w \in Workers : ~Active(w)
    BY <1>1, <2>1
    DEF IInv, Publish, TypeOK, TaskInv, OwnerInv, Holding, Published, ActiveInv
  <2>2. ASSUME NEW c \in Callers, Collect(c)
        PROVE  \A w \in Workers : ~Active(w)
    <3>1. task = c /\ c # None
      BY <1>1, <2>2, PoolAssumption DEF IInv, Collect, TaskInv, Published
    <3>2. Owing = {}
      BY <1>1, <2>2, <3>1, OwingFinite DEF IInv, Collect, CountInv
    <3> QED
      BY <3>2 DEF Owing, Pending
  <2>3. \/ \E c \in Callers : Publish(c) \/ Collect(c)
        \/ UNCHANGED <<task, nTasks>>
    BY <1>1
    DEF Next, CallerStep, WorkerStep, PoolExit, Terminated, ParallelFor, Enter, Ensure,
        EnsureThrows, NotifyWorkers, RunTask0, NestedCaller, FinishTask0, WaitDone, Return,
        SpuriousCheck, StartLoop, Quit, JoinRegion, Sleep, Claim, NoneLeft, RunClaimed,
        NestedWorker, FinishClaimed, Retire, Signal, SpuriousWake, StopPool, NotifyStop, Join,
        vars, shared
  <2> QED
    BY <2>1, <2>2, <2>3
<1> QED
  BY <1>1, Invariance, PTL DEF Spec, TaskStableWhileActive

-----------------------------------------------------------------------------
\* The refinement of ParallelRegion, step by step.

Bodies  == {"body", "nested"}
Outside == {"idle", "entering", "ensuring", "publishing"}
Waits   == {"notifying", "starting", "checking", "asleep"}

\* The region that is open is the one of the caller whose task is published or who is leaving.
LEMMA RegionIs ==
  ASSUME IInv
  PROVE  /\ RegionOwner \in Callers \cup {None}
         /\ \A c \in Callers : RegionOwner = c <=> cpc[c] \notin Outside
         /\ \A c \in Callers : RegionOwner = c => owner = c
<1>1. /\ \A c \in Callers : (owner = c) <=> cpc[c] \notin {"idle", "entering"}
      /\ owner \in Callers \cup {None} /\ cpc \in [Callers -> CallerPc] /\ None \notin Callers
  BY PoolAssumption DEF IInv, OwnerInv, Holding, TypeOK
<1>2. \A c \in Callers : cpc[c] \notin Outside <=> (Published(c) \/ cpc[c] = "leaving")
  BY <1>1 DEF Outside, Published, CallerPc
<1>3. RegionOwner \in Callers \cup {None} /\ (RegionOwner # None => RegionOwner = owner)
  BY <1>1 DEF RegionOwner
<1>4. ASSUME NEW c \in Callers, RegionOwner = c
      PROVE  owner = c /\ cpc[c] \notin Outside
  BY <1>1, <1>2, <1>4 DEF RegionOwner
<1>5. ASSUME NEW c \in Callers, cpc[c] \notin Outside
      PROVE  RegionOwner = c
  <2>1. owner = c
    BY <1>1, <1>5 DEF Outside
  <2> QED
    BY <1>1, <1>2, <1>5, <2>1 DEF RegionOwner
<1> QED
  BY <1>3, <1>4, <1>5

\* The same of the state after a step.
LEMMA RegionIsNext ==
  ASSUME IInv'
  PROVE  /\ RegionOwner' \in Callers \cup {None}
         /\ \A c \in Callers : RegionOwner' = c <=> cpc'[c] \notin Outside
         /\ \A c \in Callers : RegionOwner' = c => owner' = c
<1>1. /\ \A c \in Callers : (owner' = c) <=> cpc'[c] \notin {"idle", "entering"}
      /\ owner' \in Callers \cup {None} /\ cpc' \in [Callers -> CallerPc] /\ None \notin Callers
  BY PoolAssumption DEF IInv, OwnerInv, Holding, TypeOK
<1>2. \A c \in Callers : cpc'[c] \notin Outside <=> (Published(c)' \/ cpc'[c] = "leaving")
  BY <1>1 DEF Outside, Published, CallerPc
<1>3. RegionOwner' \in Callers \cup {None} /\ (RegionOwner' # None => RegionOwner' = owner')
  BY <1>1 DEF RegionOwner
<1>4. ASSUME NEW c \in Callers, RegionOwner' = c
      PROVE  owner' = c /\ cpc'[c] \notin Outside
  BY <1>1, <1>2, <1>4 DEF RegionOwner, Published
<1>5. ASSUME NEW c \in Callers, cpc'[c] \notin Outside
      PROVE  RegionOwner' = c
  <2>1. owner' = c
    BY <1>1, <1>5 DEF Outside
  <2> QED
    BY <1>1, <1>2, <1>5, <2>1 DEF RegionOwner, Published
<1> QED
  BY <1>3, <1>4, <1>5

\* The abstract state while a region is open, and while none is.
LEMMA OpenIs ==
  ASSUME IInv, NEW c \in Callers, cpc[c] \notin Outside
  PROVE  /\ RegionOwner = c /\ owner = c
         /\ Unstarted = {i \in 0 .. want[c] - 1 : ran[i] = 0}
         /\ Failed <=> (IF cpc[c] = "leaving" THEN caught[c] ELSE err) # NoError
<1>1. RegionOwner = c /\ owner = c /\ c # None
  BY RegionIs, PoolAssumption
<1> QED
  BY <1>1 DEF Unstarted, Failed

\* The same of the state after a step.
LEMMA OpenIsNext ==
  ASSUME IInv', NEW c \in Callers, cpc'[c] \notin Outside
  PROVE  /\ RegionOwner' = c /\ owner' = c
         /\ Unstarted' = {i \in 0 .. want'[c] - 1 : ran'[i] = 0}
         /\ Failed' <=> (IF cpc'[c] = "leaving" THEN caught'[c] ELSE err') # NoError
<1>1. RegionOwner' = c /\ owner' = c /\ c # None
  BY RegionIsNext, PoolAssumption
<1> QED
  BY <1>1 DEF Unstarted, Failed

\* With every caller outside, no region is open.
LEMMA ClosedIs ==
  ASSUME IInv, \A c \in Callers : cpc[c] \in Outside
  PROVE  RegionOwner = None /\ Unstarted = {} /\ ~Failed
<1>1. RegionOwner = None
  BY RegionIs
<1> QED
  BY <1>1 DEF Unstarted, Failed

\* The same of the state after a step.
LEMMA ClosedIsNext ==
  ASSUME IInv', \A c \in Callers : cpc'[c] \in Outside
  PROVE  RegionOwner' = None /\ Unstarted' = {} /\ ~Failed'
<1>1. RegionOwner' = None
  BY RegionIsNext
<1> QED
  BY <1>1 DEF Unstarted, Failed

\* Only one caller is past the region lock.
LEMMA OneOwner ==
  ASSUME IInv, NEW c \in Callers, cpc[c] \notin {"idle", "entering"}, NEW d \in Callers, d # c
  PROVE  cpc[d] \in {"idle", "entering"}
  BY DEF IInv, OwnerInv, Holding

\* The indices that are being executed.
LEMMA RunningIs ==
  \A i : i \in Running <=> \/ \E w \in Workers : wpc[w] \in Bodies /\ claim[w] = i
                           \/ i = 0 /\ \E c \in Callers : cpc[c] \in Bodies
<1>1. \A w \in Workers : InBody(w) <=> wpc[w] \in Bodies
  BY PoolAssumption DEF InBody, Workers, Bodies
<1>2. \A c \in Callers : InBody(c) <=> cpc[c] \in Bodies
  BY DEF InBody, Bodies
<1> QED
  BY <1>1, <1>2 DEF Running

\* The same of the state after a step.
LEMMA RunningIsNext ==
  \A i : i \in Running' <=> \/ \E w \in Workers : wpc'[w] \in Bodies /\ claim'[w] = i
                            \/ i = 0 /\ \E c \in Callers : cpc'[c] \in Bodies
<1>1. \A w \in Workers : InBody(w)' <=> wpc'[w] \in Bodies
  BY PoolAssumption DEF InBody, Workers, Bodies
<1>2. \A c \in Callers : InBody(c)' <=> cpc'[c] \in Bodies
  BY DEF InBody, Bodies
<1>3. Running' = {claim'[w] : w \in {v \in Workers : InBody(v)'}} \cup {0 : c \in {d \in Callers : InBody(d)'}}
  BY DEF Running, InBody
<1> QED
  BY <1>1, <1>2, <1>3

\* A step that moves no thread across the border of a region or of a task is no step of it.
LEMMA Unmoved ==
  ASSUME IInv, IInv',
         \A c \in Callers : \/ cpc[c] = cpc'[c]
                            \/ {cpc[c], cpc'[c]} \subseteq Outside
                            \/ {cpc[c], cpc'[c]} \subseteq Waits
                            \/ {cpc[c], cpc'[c]} \subseteq Bodies,
         \A c \in Callers : cpc[c] \notin Outside => want'[c] = want[c],
         \A w \in Workers : wpc'[w] \in Bodies <=> wpc[w] \in Bodies,
         \A w \in Workers : wpc[w] \in Bodies => claim'[w] = claim[w],
         UNCHANGED <<ran, err, caught, outcome>>
  PROVE  UNCHANGED Abstract!vars
<1>1. /\ \A c \in Callers : cpc[c] \in Bodies <=> cpc'[c] \in Bodies
      /\ \A c \in Callers : cpc[c] \in Outside <=> cpc'[c] \in Outside
      /\ \A c \in Callers : cpc[c] = "leaving" <=> cpc'[c] = "leaving"
  BY DEF Outside, Waits, Bodies
<1>2. \A i : i \in Running <=> i \in Running'
  BY <1>1, RunningIs, RunningIsNext
<1>3. Running' = Running
  BY <1>2 DEF Running
<1>4. RegionOwner' = RegionOwner /\ Unstarted' = Unstarted /\ (Failed' <=> Failed)
  <2>1. CASE \E c \in Callers : cpc[c] \notin Outside
    <3>1. PICK c \in Callers : cpc[c] \notin Outside
      BY <2>1
    <3>2. cpc'[c] \notin Outside /\ want'[c] = want[c]
      BY <1>1, <3>1
    <3>3. /\ RegionOwner = c /\ Unstarted = {i \in 0 .. want[c] - 1 : ran[i] = 0}
          /\ Failed <=> (IF cpc[c] = "leaving" THEN caught[c] ELSE err) # NoError
      BY <3>1, OpenIs
    <3>4. /\ RegionOwner' = c /\ Unstarted' = {i \in 0 .. want'[c] - 1 : ran'[i] = 0}
          /\ Failed' <=> (IF cpc'[c] = "leaving" THEN caught'[c] ELSE err') # NoError
      BY <3>2, OpenIsNext
    <3> QED
      BY <1>1, <3>2, <3>3, <3>4
  <2>2. CASE \A c \in Callers : cpc[c] \in Outside
    <3>1. \A c \in Callers : cpc'[c] \in Outside
      BY <1>1, <2>2
    <3> QED
      BY <2>2, <3>1, ClosedIs, ClosedIsNext
  <2> QED
    BY <2>1, <2>2
<1>5. Failed' = Failed
  BY <1>4, Zenon DEF Failed
<1> QED
  BY <1>3, <1>4, <1>5 DEF Abstract!vars

\* What the counters and flags say of a thread that enters or leaves a task.
LEMMA TaskFacts ==
  ASSUME IInv
  PROVE  /\ want \in [Callers -> 0 .. MaxTasks] /\ ran \in [Index -> Nat] /\ cpc \in [Callers -> CallerPc]
         /\ wpc \in [Workers -> WorkerPc] /\ claim \in [Workers -> Nat] /\ err \in Index \cup {NoError}
         /\ caught \in [Callers -> Index \cup {NoError}]
         /\ \A c \in Callers : cpc[c] # "idle" => want[c] \in 2 .. MaxTasks
         /\ \A c \in Callers : Published(c) => task = c /\ nTasks = want[c] /\ owner = c
         /\ \A w \in Workers : Active(w) => task \in Callers /\ Published(task)
  BY PoolAssumption DEF IInv, TypeOK, TaskInv, ActiveInv, OwnerInv, Holding, Published

\* The publishing section opens the region: all its indices are to be run, none has failed.
LEMMA PublishOpens ==
  ASSUME IInv, IInv', NEW c \in Callers, Publish(c)
  PROVE  Abstract!Open(c, want[c])
<1>1. cpc[c] = "publishing" /\ cpc' = [cpc EXCEPT ![c] = "notifying"] /\ err' = NoError
      /\ ran' = [i \in Index |-> 0] /\ UNCHANGED <<owner, want, caught, outcome, wpc, claim>>
  BY DEF Publish, workerVs
<1>2. cpc'[c] = "notifying" /\ \A d \in Callers : d # c => cpc'[d] = cpc[d]
  BY <1>1, TaskFacts
<1>3. \A d \in Callers : cpc[d] \in Outside
  BY <1>1, OneOwner DEF Outside
<1>4. RegionOwner = None
  BY <1>3, ClosedIs
<1>5. RegionOwner' = c /\ Unstarted' = {i \in 0 .. want'[c] - 1 : ran'[i] = 0}
      /\ (Failed' <=> (IF cpc'[c] = "leaving" THEN caught'[c] ELSE err') # NoError)
  BY <1>2, OpenIsNext DEF Outside
<1>6. Unstarted' = 0 .. want[c] - 1
  <2>1. \A i \in 0 .. want[c] - 1 : i \in Index /\ ran'[i] = 0
    <3>1. want[c] \in 0 .. MaxTasks
      BY TaskFacts
    <3> QED
      BY <1>1, <3>1, PoolAssumption DEF Index
  <2> QED
    BY <1>1, <1>5, <2>1
<1>7. ~Failed'
  BY <1>1, <1>2, <1>5
<1>8. Failed' = FALSE
  BY <1>7, Zenon DEF Failed
<1>9. Running' = Running
  <2>1. \A d \in Callers : cpc[d] \notin Bodies /\ cpc'[d] \notin Bodies
    BY <1>1, <1>2, <1>3 DEF Outside, Bodies
  <2>2. \A i : i \in Running <=> i \in Running'
    BY <1>1, <2>1, RunningIs, RunningIsNext
  <2> QED
    BY <2>2 DEF Running
<1> QED
  BY <1>1, <1>4, <1>5, <1>6, <1>8, <1>9 DEF Abstract!Open

\* A refused thread leaves the contract where it was, but for the outcome of the caller.
LEMMA EnsureThrowsRefuses ==
  ASSUME IInv, IInv', NEW c \in Callers, EnsureThrows(c)
  PROVE  Abstract!Refuse(c)
<1>1. cpc[c] = "ensuring" /\ cpc' = [cpc EXCEPT ![c] = "idle"] /\ UNCHANGED claim
      /\ outcome' = [outcome EXCEPT ![c] = "noThread"]
  BY DEF EnsureThrows
<1>2. cpc'[c] = "idle" /\ \A d \in Callers : d # c => cpc'[d] = cpc[d]
  BY <1>1, TaskFacts
<1>3. \A d \in Callers : cpc[d] \in Outside /\ cpc'[d] \in Outside
  BY <1>1, <1>2, OneOwner DEF Outside
<1>4. RegionOwner = None /\ Unstarted = {} /\ ~Failed /\ RegionOwner' = None /\ Unstarted' = {} /\ ~Failed'
  BY <1>3, ClosedIs, ClosedIsNext
<1>5. Failed' = Failed
  BY <1>4, Zenon DEF Failed
<1>6. \A w \in Workers : wpc'[w] \in Bodies <=> wpc[w] \in Bodies
  <2>1. TypeOK /\ TaskInv
    BY DEF IInv
  <2>2. PICK k \in size .. MaxTasks - 1 : SpawnTo(k)
    BY <2>1, EnsureEffect
  <2>3. \A w \in Workers : size < w => wpc[w] = "unborn"
    BY DEF IInv, BirthInv
  <2> QED
    BY <2>2, <2>3 DEF SpawnTo, Bodies
<1>7. Running' = Running
  <2>1. \A d \in Callers : cpc[d] \notin Bodies /\ cpc'[d] \notin Bodies
    BY <1>3 DEF Outside, Bodies
  <2>2. \A i : i \in Running <=> i \in Running'
    BY <1>1, <1>6, <2>1, RunningIs, RunningIsNext
  <2> QED
    BY <2>2 DEF Running
<1> QED
  BY <1>1, <1>4, <1>5, <1>7 DEF Abstract!Refuse

\* The caller starts index 0, which no worker can claim.
LEMMA RunTask0Starts ==
  ASSUME IInv, IInv', NEW c \in Callers, RunTask0(c)
  PROVE  Abstract!Start(0)
<1>1. cpc[c] = "starting" /\ cpc' = [cpc EXCEPT ![c] = "body"] /\ ran' = [ran EXCEPT ![0] = @ + 1]
      /\ UNCHANGED <<want, caught, outcome, err, wpc, claim>>
  BY DEF RunTask0, EnterTask, shared, workerVs
<1>2. cpc'[c] = "body" /\ \A d \in Callers : d # c => cpc'[d] = cpc[d] /\ cpc[d] \in Outside
  BY <1>1, TaskFacts, OneOwner DEF Outside
<1>3. task = c /\ want[c] \in 2 .. MaxTasks /\ c # None
  BY <1>1, TaskFacts, PoolAssumption DEF Published
<1>4. ran[0] = 0
  BY <1>1, <1>3 DEF IInv, RanInv
<1>5. ran'[0] = 1 /\ \A i \in 0 .. want[c] - 1 : i # 0 => ran'[i] = ran[i]
  <2>1. 0 \in Index /\ \A i \in 0 .. want[c] - 1 : i \in Index
    BY <1>3, PoolAssumption DEF Index
  <2> QED
    BY <1>1, <1>4, <2>1, TaskFacts
<1>6. /\ RegionOwner = c /\ Unstarted = {i \in 0 .. want[c] - 1 : ran[i] = 0}
      /\ Failed <=> (IF cpc[c] = "leaving" THEN caught[c] ELSE err) # NoError
  BY <1>1, OpenIs DEF Outside
<1>7. /\ RegionOwner' = c /\ Unstarted' = {i \in 0 .. want'[c] - 1 : ran'[i] = 0}
      /\ Failed' <=> (IF cpc'[c] = "leaving" THEN caught'[c] ELSE err') # NoError
  BY <1>2, OpenIsNext DEF Outside
<1>8. 0 \in Unstarted /\ Unstarted' = Unstarted \ {0}
  BY <1>1, <1>3, <1>4, <1>5, <1>6, <1>7
<1>9. Running' = Running \cup {0}
  <2>1. \A i : i \in Running' <=> i \in Running \cup {0}
    BY <1>1, <1>2, RunningIs, RunningIsNext DEF Bodies
  <2> QED
    BY <2>1
<1>10. Failed' <=> Failed
  BY <1>1, <1>2, <1>6, <1>7
<1>11. Failed' = Failed
  BY <1>10, Zenon DEF Failed
<1> QED
  BY <1>1, <1>6, <1>7, <1>8, <1>9, <1>11 DEF Abstract!Start

\* The caller leaves index 0; an exception of its own marks the region as failed.
LEMMA FinishTask0Finishes ==
  ASSUME IInv, IInv', NEW c \in Callers, NEW throws \in BOOLEAN, FinishTask0(c, throws)
  PROVE  Abstract!Finish(0, throws)
<1>1. cpc[c] \in Bodies /\ cpc' = [cpc EXCEPT ![c] = "checking"]
      /\ err' = (IF throws /\ err = NoError THEN 0 ELSE err)
      /\ UNCHANGED <<want, caught, outcome, ran, wpc, claim>>
  BY DEF FinishTask0, LeaveTask, workerVs, Bodies
<1>2. cpc'[c] = "checking" /\ \A d \in Callers : d # c => cpc'[d] = cpc[d] /\ cpc[d] \in Outside
  BY <1>1, TaskFacts, OneOwner DEF Outside, Bodies
<1>3. \A w \in Workers : wpc[w] \in Bodies => claim[w] # 0
  BY TaskFacts DEF IInv, ClaimInv, Holds, Bodies
<1>4. /\ RegionOwner = c /\ Unstarted = {i \in 0 .. want[c] - 1 : ran[i] = 0}
      /\ Failed <=> (IF cpc[c] = "leaving" THEN caught[c] ELSE err) # NoError
  BY <1>1, OpenIs DEF Outside, Bodies
<1>5. /\ RegionOwner' = c /\ Unstarted' = {i \in 0 .. want'[c] - 1 : ran'[i] = 0}
      /\ Failed' <=> (IF cpc'[c] = "leaving" THEN caught'[c] ELSE err') # NoError
  BY <1>2, OpenIsNext DEF Outside
<1>6. 0 \in Running /\ Running' = Running \ {0}
  <2>1. 0 \in Running
    BY <1>1, RunningIs
  <2>2. \A i : i \in Running' <=> i \in Running \ {0}
    BY <1>1, <1>2, <1>3, RunningIs, RunningIsNext DEF Bodies, Outside
  <2> QED
    BY <2>1, <2>2
<1>7. Failed' <=> (Failed \/ throws)
  BY <1>1, <1>2, <1>4, <1>5 DEF Bodies, NoError
<1>8. Failed' = (Failed \/ throws)
  BY <1>7, Zenon DEF Failed
<1> QED
  BY <1>1, <1>4, <1>5, <1>6, <1>8 DEF Abstract!Finish

\* The region closes with nothing left to start or running, and the outcome tells of a failure.
LEMMA ReturnCloses ==
  ASSUME IInv, IInv', NEW c \in Callers, Return(c)
  PROVE  Abstract!Close(c)
<1>1. cpc[c] = "leaving" /\ cpc' = [cpc EXCEPT ![c] = "idle"]
      /\ outcome' = [outcome EXCEPT ![c] = IF caught[c] = NoError THEN "ok" ELSE "error"]
      /\ UNCHANGED <<want, caught, wpc, claim>>
  BY DEF Return, workerVs
<1>2. cpc'[c] = "idle" /\ \A d \in Callers : d # c => cpc'[d] = cpc[d] /\ cpc[d] \in Outside
  BY <1>1, TaskFacts, OneOwner DEF Outside
<1>3. /\ \A i \in 0 .. want[c] - 1 : ran[i] = 1
      /\ \A w \in Workers : wpc[w] \notin Bodies
  BY <1>1 DEF IInv, RegionComplete, Active, Bodies
<1>4. /\ RegionOwner = c /\ Unstarted = {i \in 0 .. want[c] - 1 : ran[i] = 0}
      /\ Failed <=> (IF cpc[c] = "leaving" THEN caught[c] ELSE err) # NoError
  BY <1>1, OpenIs DEF Outside
<1>5. RegionOwner' = None /\ Unstarted' = {} /\ ~Failed'
  <2>1. \A d \in Callers : cpc'[d] \in Outside
    BY <1>2 DEF Outside
  <2> QED
    BY <2>1, ClosedIsNext
<1>6. Unstarted = {}
  BY <1>3, <1>4
<1>7. Running = {} /\ Running' = {}
  <2>1. \A d \in Callers : cpc[d] \notin Bodies /\ cpc'[d] \notin Bodies
    BY <1>1, <1>2 DEF Bodies, Outside
  <2>2. (\A i : i \notin Running) /\ (\A i : i \notin Running')
    BY <1>1, <1>3, <2>1, RunningIs, RunningIsNext
  <2> QED
    BY <2>2
<1>8. outcome' = [outcome EXCEPT ![c] = IF Failed THEN "error" ELSE "ok"]
  BY <1>1, <1>4
<1>9. Failed' = FALSE
  BY <1>5, Zenon DEF Failed
<1> QED
  BY <1>4, <1>5, <1>6, <1>7, <1>8, <1>9 DEF Abstract!Close

\* A worker that enters the task it claimed starts an index nobody has started.
LEMMA RunClaimedStarts ==
  ASSUME IInv, IInv', NEW w \in Workers, RunClaimed(w)
  PROVE  Abstract!Start(claim[w])
<1>1. wpc[w] = "claimed" /\ claim[w] < nTasks /\ wpc' = [wpc EXCEPT ![w] = "body"]
      /\ ran' = [ran EXCEPT ![claim[w]] = @ + 1]
      /\ UNCHANGED <<cpc, want, caught, outcome, err, claim>>
  BY DEF RunClaimed, EnterTask, shared, callerVs
<1> DEFINE c == task
<1>2. c \in Callers /\ Published(c) /\ nTasks = want[c] /\ owner = c /\ c # None
  BY <1>1, TaskFacts, PoolAssumption DEF Active
<1>3. cpc[c] \notin Outside /\ cpc[c] # "leaving" /\ want[c] \in 0 .. MaxTasks
  BY <1>2, TaskFacts DEF Outside, Published
<1>4. claim[w] \in 1 .. next - 1
  BY <1>1 DEF IInv, ClaimInv, Holds
<1>5. claim[w] \in 1 .. nTasks - 1 /\ claim[w] \in 0 .. want[c] - 1
  BY <1>1, <1>2, <1>3, <1>4, PoolAssumption, TaskFacts
<1>6. ran[claim[w]] = 0
  BY <1>1, <1>2, <1>5 DEF IInv, RanInv, Unentered
<1>7. ran'[claim[w]] = 1 /\ \A i \in 0 .. want[c] - 1 : i # claim[w] => ran'[i] = ran[i]
  <2>1. claim[w] \in Index /\ \A i \in 0 .. want[c] - 1 : i \in Index
    BY <1>3, <1>5, PoolAssumption DEF Index
  <2> QED
    BY <1>1, <1>6, <2>1, TaskFacts
<1> HIDE DEF c
<1>8. /\ RegionOwner = c /\ Unstarted = {i \in 0 .. want[c] - 1 : ran[i] = 0}
      /\ Failed <=> (IF cpc[c] = "leaving" THEN caught[c] ELSE err) # NoError
  BY <1>2, <1>3, OpenIs
<1>9. /\ RegionOwner' = c /\ Unstarted' = {i \in 0 .. want'[c] - 1 : ran'[i] = 0}
      /\ Failed' <=> (IF cpc'[c] = "leaving" THEN caught'[c] ELSE err') # NoError
  BY <1>1, <1>2, <1>3, OpenIsNext
<1>10. claim[w] \in Unstarted /\ Unstarted' = Unstarted \ {claim[w]}
  BY <1>1, <1>5, <1>6, <1>7, <1>8, <1>9
<1>11. Running' = Running \cup {claim[w]}
  <2>1. wpc'[w] = "body" /\ \A v \in Workers : v # w => wpc'[v] = wpc[v]
    BY <1>1, TaskFacts
  <2>2. \A i : i \in Running' <=> i \in Running \cup {claim[w]}
    BY <1>1, <2>1, RunningIs, RunningIsNext DEF Bodies
  <2> QED
    BY <2>2
<1>12. Failed' <=> Failed
  BY <1>1, <1>8, <1>9
<1>13. Failed' = Failed
  BY <1>12, Zenon DEF Failed
<1> QED
  BY <1>1, <1>8, <1>9, <1>10, <1>11, <1>13 DEF Abstract!Start

\* A worker that leaves its task finishes an index no other thread is executing, and an
\* exception it brings marks the region as failed.
LEMMA FinishClaimedFinishes ==
  ASSUME IInv, IInv', NEW w \in Workers, NEW throws \in BOOLEAN, FinishClaimed(w, throws)
  PROVE  Abstract!Finish(claim[w], throws)
<1>1. wpc[w] \in Bodies /\ wpc' = [wpc EXCEPT ![w] = "claiming"]
      /\ err' = (IF throws /\ err = NoError THEN claim[w] ELSE err)
      /\ UNCHANGED <<cpc, want, caught, outcome, ran, claim>>
  BY DEF FinishClaimed, LeaveTask, callerVs, Bodies
<1> DEFINE c == task
<1>2. c \in Callers /\ Published(c) /\ owner = c /\ c # None
  BY <1>1, TaskFacts, PoolAssumption DEF Active, Bodies
<1>3. cpc[c] \notin Outside /\ cpc[c] # "leaving"
  BY <1>2, TaskFacts DEF Outside, Published
<1>4. claim[w] \in Nat /\ claim[w] >= 1
  <2>1. claim[w] \in 1 .. next - 1
    BY <1>1 DEF IInv, ClaimInv, Holds, Bodies
  <2> QED
    BY <2>1
<1>5. \A v \in Workers : (wpc[v] \in Bodies /\ claim[v] = claim[w]) => v = w
  BY <1>1 DEF IInv, UniqueInv, Holds, Bodies
<1> HIDE DEF c
<1>6. /\ RegionOwner = c /\ Unstarted = {i \in 0 .. want[c] - 1 : ran[i] = 0}
      /\ Failed <=> (IF cpc[c] = "leaving" THEN caught[c] ELSE err) # NoError
  BY <1>2, <1>3, OpenIs
<1>7. /\ RegionOwner' = c /\ Unstarted' = {i \in 0 .. want'[c] - 1 : ran'[i] = 0}
      /\ Failed' <=> (IF cpc'[c] = "leaving" THEN caught'[c] ELSE err') # NoError
  BY <1>1, <1>2, <1>3, OpenIsNext
<1>8. claim[w] \in Running /\ Running' = Running \ {claim[w]}
  <2>1. claim[w] \in Running
    BY <1>1, RunningIs
  <2>2. wpc'[w] \notin Bodies /\ \A v \in Workers : v # w => wpc'[v] = wpc[v]
    BY <1>1, TaskFacts DEF Bodies
  <2>3. claim[w] # 0
    BY <1>4
  <2>4. \A i : i \in Running' <=> i \in Running \ {claim[w]}
    BY <1>1, <1>5, <2>2, <2>3, RunningIs, RunningIsNext
  <2> QED
    BY <2>1, <2>4
<1>9. Failed' <=> (Failed \/ throws)
  <2>1. claim[w] # NoError
    BY <1>4 DEF NoError
  <2> QED
    BY <1>1, <1>3, <1>6, <1>7, <2>1
<1>10. Failed' = (Failed \/ throws)
  BY <1>9, Zenon DEF Failed
<1> QED
  BY <1>1, <1>6, <1>7, <1>8, <1>10 DEF Abstract!Finish

\* The caller that collects the exception keeps its region open, and its verdict.
LEMMA CollectStutters ==
  ASSUME IInv, IInv', NEW c \in Callers, Collect(c)
  PROVE  UNCHANGED Abstract!vars
<1>1. cpc[c] = "checking" /\ cpc' = [cpc EXCEPT ![c] = "leaving"]
      /\ caught' = [caught EXCEPT ![c] = err]
      /\ UNCHANGED <<want, outcome, ran, wpc, claim>>
  BY DEF Collect, workerVs, history
<1>2. cpc'[c] = "leaving" /\ caught'[c] = err
      /\ \A d \in Callers : d # c => cpc'[d] = cpc[d] /\ cpc[d] \in Outside
  BY <1>1, TaskFacts, OneOwner DEF Outside
<1>3. /\ RegionOwner = c /\ Unstarted = {i \in 0 .. want[c] - 1 : ran[i] = 0}
      /\ Failed <=> (IF cpc[c] = "leaving" THEN caught[c] ELSE err) # NoError
  BY <1>1, OpenIs DEF Outside
<1>4. /\ RegionOwner' = c /\ Unstarted' = {i \in 0 .. want'[c] - 1 : ran'[i] = 0}
      /\ Failed' <=> (IF cpc'[c] = "leaving" THEN caught'[c] ELSE err') # NoError
  BY <1>2, OpenIsNext DEF Outside
<1>5. Failed' <=> Failed
  BY <1>1, <1>2, <1>3, <1>4
<1>6. Failed' = Failed
  BY <1>5, Zenon DEF Failed
<1>7. Running' = Running
  <2>1. \A d \in Callers : cpc[d] \notin Bodies /\ cpc'[d] \notin Bodies
    BY <1>1, <1>2 DEF Bodies, Outside
  <2>2. \A i : i \in Running <=> i \in Running'
    BY <1>1, <2>1, RunningIs, RunningIsNext
  <2> QED
    BY <2>2 DEF Running
<1> QED
  BY <1>1, <1>3, <1>4, <1>6, <1>7 DEF Abstract!vars

\* Every other step of a caller is invisible to the contract.
LEMMA CallerStutters ==
  ASSUME IInv, IInv', NEW c \in Callers,
         \/ \E n \in 2 .. MaxTasks : ParallelFor(c, n)
         \/ Enter(c) \/ NestedCaller(c) \/ WaitDone(c) \/ SpuriousCheck(c)
  PROVE  UNCHANGED Abstract!vars
<1>1. inRegion[c] <=> cpc[c] \in Bodies
  BY DEF IInv, FlagInv, InBody, Bodies
<1>2. UNCHANGED <<ran, err, caught, wpc, claim>>
  BY DEF ParallelFor, Enter, NestedCaller, WaitDone, SpuriousCheck, shared, workerVs, history
<1>3. \A d \in Callers : d # c => cpc'[d] = cpc[d] /\ want'[d] = want[d]
  BY TaskFacts DEF ParallelFor, Enter, NestedCaller, WaitDone, SpuriousCheck
<1>4. CASE \E n \in 2 .. MaxTasks : ParallelFor(c, n)
  <2>1. cpc[c] = "idle" /\ ~inRegion[c]
    BY <1>1, <1>4 DEF ParallelFor, Bodies
  <2>2. cpc'[c] = "entering" /\ UNCHANGED outcome
    BY <1>4, <2>1, TaskFacts DEF ParallelFor
  <2>3. {cpc[c], cpc'[c]} \subseteq Outside /\ cpc[c] \in Outside
    BY <2>1, <2>2 DEF Outside
  <2> QED
    BY <1>2, <1>3, <2>2, <2>3, Unmoved
<1>5. CASE Enter(c) \/ NestedCaller(c) \/ WaitDone(c) \/ SpuriousCheck(c)
  <2>1. UNCHANGED <<want, outcome>>
    BY <1>5 DEF Enter, NestedCaller, WaitDone, SpuriousCheck
  <2>2. \/ {cpc[c], cpc'[c]} \subseteq Outside
        \/ {cpc[c], cpc'[c]} \subseteq Waits
        \/ {cpc[c], cpc'[c]} \subseteq Bodies
    <3>1. CASE Enter(c)
      BY <3>1, TaskFacts DEF Enter, Outside
    <3>2. CASE NestedCaller(c)
      BY <1>1, <3>2, TaskFacts DEF NestedCaller, Bodies
    <3>3. CASE WaitDone(c)
      BY <3>3, TaskFacts DEF WaitDone, Waits
    <3>4. CASE SpuriousCheck(c)
      BY <3>4, TaskFacts DEF SpuriousCheck, Waits
    <3> QED
      BY <1>5, <3>1, <3>2, <3>3, <3>4
  <2> QED
    BY <1>2, <1>3, <2>1, <2>2, Unmoved
<1> QED
  BY <1>4, <1>5

\* Growing the pool and waking its workers start no task.
LEMMA PoolStutters ==
  ASSUME IInv, IInv', NEW c \in Callers, Ensure(c) \/ NotifyWorkers(c)
  PROVE  UNCHANGED Abstract!vars
<1>1. UNCHANGED <<ran, err, caught, outcome, want, claim>>
  BY DEF Ensure, NotifyWorkers, shared, history
<1>2. /\ \A d \in Callers : d # c => cpc'[d] = cpc[d]
      /\ {cpc[c], cpc'[c]} \subseteq Outside \/ {cpc[c], cpc'[c]} \subseteq Waits
  BY TaskFacts DEF Ensure, NotifyWorkers, Outside, Waits
<1>3. \A w \in Workers : wpc'[w] \in Bodies <=> wpc[w] \in Bodies
  <2>1. CASE Ensure(c)
    <3>1. TypeOK /\ TaskInv /\ \A w \in Workers : size < w => wpc[w] = "unborn"
      BY DEF IInv, BirthInv
    <3>2. PICK k \in size .. MaxTasks - 1 : SpawnTo(k)
      BY <2>1, <3>1, EnsureEffect
    <3> QED
      BY <3>1, <3>2 DEF SpawnTo, Bodies
  <2>2. CASE NotifyWorkers(c)
    BY <2>2 DEF NotifyWorkers, WakeWorkers, Bodies
  <2> QED
    BY <2>1, <2>2
<1> QED
  BY <1>1, <1>2, <1>3, Unmoved

\* So are the steps of a worker that neither enters nor leaves a task.
LEMMA WorkerStutters ==
  ASSUME IInv, IInv', NEW w \in Workers,
         \/ StartLoop(w) \/ Quit(w) \/ JoinRegion(w) \/ Sleep(w) \/ Claim(w) \/ NoneLeft(w)
         \/ NestedWorker(w) \/ Retire(w) \/ Signal(w) \/ SpuriousWake(w)
  PROVE  UNCHANGED Abstract!vars
<1>1. UNCHANGED <<ran, err, caught, outcome, want>>
  BY DEF StartLoop, Quit, JoinRegion, Sleep, Claim, NoneLeft, NestedWorker, Retire, Signal,
         SpuriousWake, shared, callerVs, history
<1>2. /\ \A v \in Workers : v # w => wpc'[v] = wpc[v] /\ claim'[v] = claim[v]
      /\ wpc[w] \in Bodies => claim'[w] = claim[w]
  BY TaskFacts DEF StartLoop, Quit, JoinRegion, Sleep, Claim, NoneLeft, NestedWorker, Retire, Signal,
         SpuriousWake, Bodies
<1>3. \A d \in Callers : cpc'[d] = cpc[d] \/ {cpc[d], cpc'[d]} \subseteq Waits
  BY TaskFacts DEF StartLoop, Quit, JoinRegion, Sleep, Claim, NoneLeft, NestedWorker, Retire, Signal,
         SpuriousWake, callerVs, Waits
<1>4. wpc'[w] \in Bodies <=> wpc[w] \in Bodies
  <2>1. CASE NestedWorker(w)
    <3>1. inRegion[w]
      BY <2>1 DEF IInv, FlagInv, NestedWorker
    <3> QED
      BY <2>1, <3>1, TaskFacts DEF NestedWorker, Bodies
  <2>2. CASE ~NestedWorker(w)
    <3>1. wpc[w] \notin Bodies
      BY <2>2 DEF StartLoop, Quit, JoinRegion, Sleep, Claim, NoneLeft, Retire, Signal,
                  SpuriousWake, Bodies
    <3>2. wpc'[w] \notin Bodies
      BY <2>2, TaskFacts DEF StartLoop, Quit, JoinRegion, Sleep, Claim, NoneLeft, Retire, Signal,
                  SpuriousWake, Bodies
    <3> QED
      BY <3>1, <3>2
  <2> QED
    BY <2>1, <2>2
<1> QED
  BY <1>1, <1>2, <1>3, <1>4, Unmoved

\* And those of the destructor, and of the world standing still.
LEMMA ExitStutters ==
  ASSUME IInv, IInv', StopPool \/ PoolExit \/ Terminated \/ UNCHANGED vars
  PROVE  UNCHANGED Abstract!vars
<1>1. UNCHANGED <<ran, err, caught, outcome, want, claim, cpc>>
  BY DEF StopPool, PoolExit, NotifyStop, Join, Terminated, vars, shared, callerVs, workerVs, history
<1>2. \A w \in Workers : wpc'[w] \in Bodies <=> wpc[w] \in Bodies
  BY DEF StopPool, PoolExit, NotifyStop, WakeWorkers, Join, Terminated, vars, workerVs, Bodies
<1> QED
  BY <1>1, <1>2, Unmoved

\* Every step of the pool is a step of the contract or invisible to it.
LEMMA StepRefines ==
  ASSUME IInv, IInv', [Next]_vars
  PROVE  [Abstract!Next]_(Abstract!vars)
<1>1. ASSUME NEW c \in Callers, Publish(c)
      PROVE  Abstract!Next
  <2>1. want[c] \in 2 .. MaxTasks
    BY <1>1, TaskFacts DEF Publish
  <2>2. Abstract!Open(c, want[c])
    BY <1>1, PublishOpens
  <2> QED
    BY <2>1, <2>2 DEF Abstract!Next
<1>2. ASSUME NEW c \in Callers, EnsureThrows(c)
      PROVE  Abstract!Next
  BY <1>2, EnsureThrowsRefuses DEF Abstract!Next
<1>3. ASSUME NEW c \in Callers, RunTask0(c)
      PROVE  Abstract!Next
  <2>1. Abstract!Start(0)
    BY <1>3, RunTask0Starts
  <2>2. 0 \in Unstarted
    BY <2>1 DEF Abstract!Start
  <2> QED
    BY <2>1, <2>2 DEF Abstract!Next, Abstract!Progress
<1>4. ASSUME NEW c \in Callers, NEW throws \in BOOLEAN, FinishTask0(c, throws)
      PROVE  Abstract!Next
  <2>1. Abstract!Finish(0, throws)
    BY <1>4, FinishTask0Finishes
  <2>2. 0 \in Running
    BY <2>1 DEF Abstract!Finish
  <2> QED
    BY <2>1, <2>2 DEF Abstract!Next, Abstract!Progress
<1>5. ASSUME NEW w \in Workers, RunClaimed(w)
      PROVE  Abstract!Next
  <2>1. Abstract!Start(claim[w])
    BY <1>5, RunClaimedStarts
  <2>2. claim[w] \in Unstarted
    BY <2>1 DEF Abstract!Start
  <2> QED
    BY <2>1, <2>2 DEF Abstract!Next, Abstract!Progress
<1>6. ASSUME NEW w \in Workers, NEW throws \in BOOLEAN, FinishClaimed(w, throws)
      PROVE  Abstract!Next
  <2>1. Abstract!Finish(claim[w], throws)
    BY <1>6, FinishClaimedFinishes
  <2>2. claim[w] \in Running
    BY <2>1 DEF Abstract!Finish
  <2> QED
    BY <2>1, <2>2 DEF Abstract!Next, Abstract!Progress
<1>7. ASSUME NEW c \in Callers, Return(c)
      PROVE  Abstract!Next
  BY <1>7, ReturnCloses DEF Abstract!Next, Abstract!Progress
<1>8. ASSUME NEW c \in Callers,
             \/ \E n \in 2 .. MaxTasks : ParallelFor(c, n)
             \/ Enter(c) \/ NestedCaller(c) \/ WaitDone(c) \/ SpuriousCheck(c)
             \/ Ensure(c) \/ NotifyWorkers(c) \/ Collect(c)
      PROVE  UNCHANGED Abstract!vars
  BY <1>8, CallerStutters, PoolStutters, CollectStutters
<1>9. ASSUME NEW w \in Workers,
             \/ StartLoop(w) \/ Quit(w) \/ JoinRegion(w) \/ Sleep(w) \/ Claim(w) \/ NoneLeft(w)
             \/ NestedWorker(w) \/ Retire(w) \/ Signal(w) \/ SpuriousWake(w)
      PROVE  UNCHANGED Abstract!vars
  BY <1>9, WorkerStutters
<1>10. ASSUME StopPool \/ PoolExit \/ Terminated \/ UNCHANGED vars
       PROVE  UNCHANGED Abstract!vars
  BY <1>10, ExitStutters
<1> QED
  BY <1>1, <1>2, <1>3, <1>4, <1>5, <1>6, <1>7, <1>8, <1>9, <1>10 DEF Next, CallerStep, WorkerStep

\* The pool starts where the contract does.
LEMMA InitRefines == Init => Abstract!Init
<1> SUFFICES ASSUME Init PROVE Abstract!Init
  OBVIOUS
<1>1. RegionOwner = None /\ Unstarted = {} /\ ~Failed
  BY DEF Init, RegionOwner, Unstarted, Failed
<1>2. Failed = FALSE
  BY <1>1, Zenon DEF Failed
<1>3. \A i : i \notin Running
  BY RunningIs DEF Init, Bodies
<1>4. Running = {}
  BY <1>3
<1> QED
  BY <1>1, <1>2, <1>4 DEF Init, Abstract!Init

\* The pool implements the contract of dispatch(): every step of any behaviour is a step of
\* ParallelRegion or invisible to it, so a region runs each of its tasks once, closes only
\* when all are over, and reports an error exactly when one of them threw.
THEOREM RefinesParallelRegion == Spec => Abstract!Safety
<1>1. Init => Abstract!Init
  BY InitRefines
<1>2. IInv /\ IInv' /\ [Next]_vars => [Abstract!Next]_(Abstract!vars)
  BY StepRefines
<1> QED
  BY <1>1, <1>2, Invariance, PTL DEF Spec, Abstract!Safety

=============================================================================
