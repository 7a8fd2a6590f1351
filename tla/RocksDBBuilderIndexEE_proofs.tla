-------------------- MODULE RocksDBBuilderIndexEE_proofs --------------------
(***************************************************************************)
(* The safety of RocksDBBuilderIndexEE for every number of threads, tasks  *)
(* and writes, every size of them and every budget.                        *)
(***************************************************************************)
EXTENDS RocksDBBuilderIndexEE, FiniteSetTheorems, WellFoundedInduction, TLAPS

Filling == owner \in {"submit", "notify", "wait"}

(* Which calls of the owner belong to which build state. *)
CallState ==
  /\ Filling => state = "kBuilding"
  /\ owner \in {"forEach", "visit", "failed", "clear"} => state = "kApplyingChangelog"
  /\ owner = "swap" <=> state = "kSwapping"

(* A task that was submitted and has no result is in exactly one place: the *)
(* queue or the hands of a worker that is about to run it.                  *)
TaskInOnePlace ==
  /\ \A k \in 1..Len(taskQueue) : result[taskQueue[k]] = "pending"
  /\ \A k, l \in 1..Len(taskQueue) : taskQueue[k] = taskQueue[l] => k = l
  /\ \A t \in Threads : job[t] # 0 => result[job[t]] = "pending"
  /\ \A t, u \in Threads : job[t] # 0 /\ job[t] = job[u] => t = u
  /\ \A t \in Threads : \A k \in 1..Len(taskQueue) : job[t] # taskQueue[k]
  /\ \A t \in Threads : worker[t] = "run" <=> job[t] # 0

(* The partitions are submitted in order, and beyond fillIndexParallel      *)
(* every result is there and, unless the build failed, is "true".           *)
FillProgress ==
  /\ state = "kIdle" => Submitted = {}
  /\ \E k \in 0..partitions :
       /\ Submitted = 1..k
       /\ owner = "submit" => k < partitions
       /\ owner = "notify" => k > 0
       /\ owner = "wait" => k = partitions
  /\ ~Filling => AllReady
  /\ ~Filling /\ state \in {"kBuilding", "kApplyingChangelog", "kSwapping", "kComplete"} =>
       Submitted = 1..partitions /\ \A i \in Submitted : result[i] = "true"

(* The index has it, or an applier that threw kept the end of it out.      *)
EarlyIsApplied == IsPrefix(early, index) \/ (throws = 1 /\ IsPrefix(index, early))

(* What was in the changelog when applyChangelog began stays at its front   *)
(* until it is in the index.                                                *)
ApplyProgress ==
  /\ state = "kIdle" => entries = <<>> /\ \A e \in Writes : write[e] # "loaded"
  /\ state \in {"kIdle", "kBuilding"} => entries = early /\ index = <<>>
  /\ owner # "visit" => cursor = 0
  /\ owner = "visit" => cursor > 0 /\ index = SubSeq(entries, 1, cursor - 1)
  /\ owner = "forEach" => index = <<>>
  /\ owner \in {"forEach", "visit"} => IsPrefix(early, entries)
  /\ state \in {"kApplyingChangelog", "kSwapping", "kComplete"}
     /\ owner \notin {"forEach", "visit", "failed"} => EarlyIsApplied

Inv ==
  /\ TypeOK
  /\ CallState
  /\ TaskInOnePlace
  /\ FillProgress
  /\ ApplyProgress

----------------------------------------------------------------------------

(* The tasks are numbered from 1. *)
LEMMA TasksFrom1 ==
  /\ Cardinality(Tasks) \in Nat
  /\ 0 \notin Tasks
  /\ Tasks \subseteq Nat
BY PoolAssumption, FS_CardinalityType

(* The prefix order on sequences, element by element. *)
LEMMA PrefixByElements ==
  ASSUME NEW S, NEW s \in Seq(S), NEW t \in Seq(S)
  PROVE  IsPrefix(s, t) <=>
           Len(s) <= Len(t) /\ \A i \in 1..Len(s) : s[i] = t[i]
<1>1. ASSUME Len(s) <= Len(t)
      PROVE  /\ SubSeq(s, 1, Len(s)) \in Seq(S) /\ SubSeq(t, 1, Len(s)) \in Seq(S)
             /\ Len(SubSeq(s, 1, Len(s))) = Len(s) /\ Len(SubSeq(t, 1, Len(s))) = Len(s)
             /\ \A i \in 1..Len(s) : SubSeq(s, 1, Len(s))[i] = s[i]
                                     /\ SubSeq(t, 1, Len(s))[i] = t[i]
  BY <1>1
<1>2. ASSUME Len(s) <= Len(t), \A i \in 1..Len(s) : s[i] = t[i]
      PROVE  SubSeq(s, 1, Len(s)) = SubSeq(t, 1, Len(s))
  BY <1>1, <1>2
<1>. QED
  BY <1>1, <1>2 DEF IsPrefix

(* Init establishes the invariant. *)
LEMMA InitInv == Init => Inv
<1> SUFFICES ASSUME Init
             PROVE  Inv
  OBVIOUS
<1> USE DEF Init, PoolInit, ChangelogInit
<1>1. TypeOK
  <2>1. PoolTypeOK
    <3>1. worker \in [Threads -> {"lock", "test", "block", "asleep", "run", "exited"}]
      OBVIOUS
    <3>2. job \in [Threads -> Tasks \cup {0}]
      OBVIOUS
    <3>3. result \in [Tasks -> {"none", "pending", "true", "false"}]
      OBVIOUS
    <3>4. taskQueue \in Seq(Tasks)
      OBVIOUS
    <3>5. shutdown \in BOOLEAN /\ mutex \in SUBSET Threads
      OBVIOUS
    <3>. QED
      BY ONLY <3>1, <3>2, <3>3, <3>4, <3>5 DEF PoolTypeOK
  <2>2. ChangelogTypeOK
    BY ChangelogAssumption DEF ChangelogTypeOK
  <2>3. write \in [Writes -> {"new", "loaded", "true", "false"}]
    OBVIOUS
  <2>. QED
    BY <2>1, <2>2, <2>3 DEF TypeOK
<1>2. CallState
  BY DEF CallState, Filling
<1>3. TaskInOnePlace
  BY DEF TaskInOnePlace
<1>4. FillProgress
  <2>1. Submitted = {} /\ Submitted = 1..0
    BY DEF Submitted
  <2>. QED
    BY <2>1 DEF FillProgress, AllReady, Filling
<1>5. ApplyProgress
  BY DEF ApplyProgress
<1>. QED
  BY <1>1, <1>2, <1>3, <1>4, <1>5 DEF Inv

(* Every action preserves the types. *)
LEMMA TypeStep == Inv /\ [Next]_vars => TypeOK'
<1> SUFFICES ASSUME Inv, [Next]_vars
             PROVE  TypeOK'
  OBVIOUS
<1> USE ChangelogAssumption, TasksFrom1
        DEF Inv, TypeOK, PoolTypeOK, ChangelogTypeOK, builderVars
<1>1. CASE FillStep
  <2>1. CASE BeginFill
    BY <2>1 DEF BeginFill, Owner, poolVars, changelogVars
  <2>2. CASE Submit
    <3>1. PICK k \in 0..partitions : Submitted = 1..k /\ k < partitions
      BY <2>2 DEF Submit, Owner, FillProgress
    <3>2. Cardinality(Submitted) = k
      BY <3>1, FS_Interval
    <3>3. k + 1 \in Tasks
      BY <3>1, PoolAssumption
    <3>. QED
      BY <2>2, <3>2, <3>3 DEF Submit, Enqueue, Owner, changelogVars
  <2>3. CASE Notify
    BY <2>3 DEF Notify, NotifyOne, Asleep, Owner, changelogVars
  <2>4. CASE EndFill
    BY <2>4 DEF EndFill, Owner, poolVars, changelogVars
  <2>. QED
    BY <1>1, <2>1, <2>2, <2>3, <2>4 DEF FillStep
<1>2. CASE ApplyStep
  <2>1. CASE BeginApply \/ StoreFailed
    BY <2>1 DEF BeginApply, StoreFailed, Owner, poolVars, changelogVars
  <2>2. CASE LockChangelog
    BY <2>2 DEF LockChangelog, BeginForEach, Owner, poolVars
  <2>3. CASE ApplyEntry
    BY <2>3 DEF ApplyEntry, Visiting, VisitNext, Owner, poolVars
  <2>4. CASE ApplyEntryFails \/ ApplierThrows \/ EndApply
    BY <2>4 DEF ApplyEntryFails, ApplierThrows, EndApply, EndForEach, Owner, poolVars
  <2>5. CASE ClearChangelog
    BY <2>5 DEF ClearChangelog, Clear, Owner, poolVars
  <2>. QED
    BY <1>2, <2>1, <2>2, <2>3, <2>4, <2>5 DEF ApplyStep
<1>3. CASE SwapStep
  BY <1>3 DEF SwapStep, BeginSwap, EndSwap, Owner, poolVars, changelogVars
<1>4. CASE DestroyStep
  BY <1>4 DEF DestroyStep, BeginDestroy, NotifyShutdown, JoinWorkers, Owner, SetShutdown,
              NotifyAll, poolVars, changelogVars
<1>5. ASSUME NEW e \in Writes, WriteStep(e)
      PROVE  TypeOK'
  <2>1. /\ UNCHANGED <<poolVars, state, owner, partitions, index, throws>>
        /\ write' \in [Writes -> {"new", "loaded", "true", "false"}]
    BY <1>5 DEF WriteStep, LoadState, AppendWrite, RefuseWrite, WriteGoes
  <2>2. CASE LoadState(e) \/ RefuseWrite(e)
    BY <2>1, <2>2 DEF LoadState, RefuseWrite, RefuseEntry, poolVars, changelogVars
  <2>3. CASE AppendWrite(e)
    <3>1. early' \in Seq(Writes)
      BY <2>3 DEF AppendWrite
    <3>2. ChangelogTypeOK'
      BY <2>3 DEF AppendWrite, AppendEntry, Fits
    <3>. QED
      BY <2>1, <3>1, <3>2 DEF poolVars
  <2>. QED
    BY <1>5, <2>2, <2>3 DEF WriteStep
<1>6. ASSUME NEW t \in Threads, Worker(t) \/ WakeUp(t)
      PROVE  TypeOK'
  <2>1. UNCHANGED <<changelogVars, builderVars>>
    BY <1>6 DEF Worker, WakeUp
  <2>2. PoolTypeOK'
    <3>1. CASE Lock(t) \/ DecideToWait(t) \/ Block(t) \/ Exit(t) \/ SpuriousWakeup(t)
      BY <3>1 DEF Lock, DecideToWait, Block, Exit, SpuriousWakeup, WorkerGoes
    <3>2. CASE TakeTask(t)
      BY <3>2 DEF TakeTask, WorkerGoes
    <3>3. CASE RunTask(t)
      BY <3>3 DEF RunTask, WorkerGoes
    <3>. QED
      BY <1>6, <3>1, <3>2, <3>3 DEF Worker, WakeUp, Run
  <2>. QED
    BY <2>1, <2>2 DEF changelogVars
<1>7. CASE UNCHANGED vars
  BY <1>7 DEF vars, poolVars, changelogVars
<1>. QED
  BY <1>1, <1>2, <1>3, <1>4, <1>5, <1>6, <1>7 DEF Next

(* A step of a worker thread changes nothing but the pool. *)
LEMMA WorkersKeep ==
  ASSUME NEW t \in Threads, Worker(t) \/ WakeUp(t)
  PROVE  /\ UNCHANGED <<entries, usage, cursor, state, owner, partitions, write>>
         /\ UNCHANGED <<index, early, throws>>
         /\ \/ RunTask(t)
            \/ TakeTask(t)
            \/ UNCHANGED <<taskQueue, result, job>>
               /\ worker[t] # "run" /\ \E w : w # "run" /\ worker' = [worker EXCEPT ![t] = w]
<1>1. UNCHANGED <<entries, usage, cursor, state, owner, partitions, write, index, early, throws>>
  BY DEF Worker, WakeUp, changelogVars, builderVars
<1>2. CASE Lock(t) \/ DecideToWait(t) \/ Block(t) \/ Exit(t) \/ SpuriousWakeup(t)
  BY <1>1, <1>2 DEF Lock, DecideToWait, Block, Exit, SpuriousWakeup, WorkerGoes
<1>. QED
  BY <1>1, <1>2 DEF Worker, WakeUp, Run

(* Each call of the owner belongs to its build state. *)
LEMMA CallStateStep == Inv /\ [Next]_vars => CallState'
<1> SUFFICES ASSUME Inv, [Next]_vars
             PROVE  CallState'
  OBVIOUS
<1> USE DEF Inv, CallState, Filling
<1>1. CASE FillStep
  BY <1>1 DEF FillStep, BeginFill, Submit, Notify, EndFill, Owner
<1>2. CASE ApplyStep
  BY <1>2 DEF ApplyStep, BeginApply, LockChangelog, ApplyEntry, ApplyEntryFails, ApplierThrows,
              StoreFailed, EndApply, ClearChangelog, Owner
<1>3. CASE SwapStep
  BY <1>3 DEF SwapStep, BeginSwap, EndSwap, Owner
<1>4. CASE DestroyStep
  BY <1>4 DEF DestroyStep, BeginDestroy, NotifyShutdown, JoinWorkers, Owner
<1>5. CASE UNCHANGED <<state, owner>>
  BY <1>5
<1>6. ASSUME NEW e \in Writes, WriteStep(e)
      PROVE  UNCHANGED <<state, owner>>
  BY <1>6 DEF WriteStep, LoadState, AppendWrite, RefuseWrite, WriteGoes
<1>. QED
  BY <1>1, <1>2, <1>3, <1>4, <1>5, <1>6, WorkersKeep DEF Next, vars, builderVars

(* A task moves from the queue to a worker to its result. *)
LEMMA TaskInOnePlaceStep == Inv /\ [Next]_vars => TaskInOnePlace'
<1> SUFFICES ASSUME Inv, [Next]_vars
             PROVE  TaskInOnePlace'
  OBVIOUS
<1>t. /\ taskQueue \in Seq(Tasks)
      /\ worker \in [Threads -> {"lock", "test", "block", "asleep", "run", "exited"}]
      /\ job \in [Threads -> Tasks \cup {0}]
      /\ result \in [Tasks -> {"none", "pending", "true", "false"}]
      /\ partitions \in Tasks \cup {0}
  BY DEF Inv, TypeOK, PoolTypeOK
<1>q. \A k \in 1..Len(taskQueue) : taskQueue[k] \in Tasks /\ result[taskQueue[k]] = "pending"
  BY <1>t DEF Inv, TaskInOnePlace
<1>d. \A k, l \in 1..Len(taskQueue) : taskQueue[k] = taskQueue[l] => k = l
  BY DEF Inv, TaskInOnePlace
<1>j. \A t \in Threads : job[t] # 0 => result[job[t]] = "pending"
  BY DEF Inv, TaskInOnePlace
<1>u. \A t, u \in Threads : job[t] # 0 /\ job[t] = job[u] => t = u
  BY DEF Inv, TaskInOnePlace
<1>x. \A t \in Threads : \A k \in 1..Len(taskQueue) : job[t] # taskQueue[k]
  BY DEF Inv, TaskInOnePlace
<1>r. \A t \in Threads : worker[t] = "run" <=> job[t] # 0
  BY DEF Inv, TaskInOnePlace
<1>0. ASSUME UNCHANGED <<taskQueue, result, job>>,
             \A t \in Threads : worker'[t] = "run" <=> worker[t] = "run"
      PROVE  TaskInOnePlace'
  BY <1>0 DEF Inv, TaskInOnePlace
<1>1. CASE Submit
  <2>1. PICK i \in Tasks : result[i] = "none" /\ Enqueue(i)
    <3>1. PICK k \in 0..partitions : Submitted = 1..k /\ k < partitions
      BY <1>1 DEF Submit, Owner, Inv, FillProgress
    <3>2. Cardinality(Submitted) = k
      BY <1>t, <3>1, TasksFrom1, FS_Interval
    <3>3. k + 1 \in Tasks
      BY <1>t, <3>1, PoolAssumption, TasksFrom1
    <3>4. k + 1 \notin Submitted
      BY <3>1
    <3>. QED
      BY <1>1, <3>2, <3>3, <3>4 DEF Submit, Submitted
  <2>2. /\ taskQueue' = Append(taskQueue, i)
        /\ result' = [result EXCEPT ![i] = "pending"]
        /\ UNCHANGED <<job, worker>>
    BY <2>1 DEF Enqueue
  <2>3. /\ Len(taskQueue') = Len(taskQueue) + 1
        /\ taskQueue'[Len(taskQueue) + 1] = i
        /\ \A k \in 1..Len(taskQueue) : taskQueue'[k] = taskQueue[k]
    BY <1>t, <2>2
  <2>4. result'[i] = "pending" /\ \A j \in Tasks \ {i} : result'[j] = result[j]
    BY <1>t, <2>2
  <2>5. /\ \A k \in 1..Len(taskQueue) : taskQueue[k] # i
        /\ \A t \in Threads : job[t] # i
    BY <1>q, <1>j, <2>1, TasksFrom1
  <2>6. \A k \in 1..Len(taskQueue') : k \in 1..Len(taskQueue) \/ k = Len(taskQueue) + 1
    BY <1>t, <2>3
  <2>7. \A k \in 1..Len(taskQueue') : result'[taskQueue'[k]] = "pending"
    BY <1>q, <2>3, <2>4, <2>5, <2>6
  <2>8. \A k, l \in 1..Len(taskQueue') : taskQueue'[k] = taskQueue'[l] => k = l
    BY <1>d, <2>3, <2>5, <2>6
  <2>9. \A t \in Threads : job'[t] # 0 => result'[job'[t]] = "pending"
    BY <1>t, <1>j, <2>2, <2>4, <2>5
  <2>10. \A t \in Threads : \A k \in 1..Len(taskQueue') : job'[t] # taskQueue'[k]
    BY <1>x, <2>2, <2>3, <2>5, <2>6
  <2>. QED
    BY <1>u, <1>r, <2>2, <2>7, <2>8, <2>9, <2>10 DEF TaskInOnePlace
<1>2. CASE Notify
  BY <1>0, <1>2, <1>t DEF Notify, NotifyOne, Asleep
<1>3. CASE BeginFill \/ EndFill \/ ApplyStep \/ SwapStep
  <2>1. UNCHANGED poolVars
    BY <1>3 DEF BeginFill, EndFill, ApplyStep, BeginApply, LockChangelog, ApplyEntry,
                ApplyEntryFails, ApplierThrows, StoreFailed, EndApply, ClearChangelog,
                SwapStep, BeginSwap, EndSwap
  <2>. QED
    BY <1>0, <2>1 DEF poolVars
<1>4. CASE DestroyStep
  BY <1>0, <1>4, <1>t DEF DestroyStep, BeginDestroy, NotifyShutdown, JoinWorkers, SetShutdown,
                          NotifyAll, Asleep, poolVars
<1>5. ASSUME NEW e \in Writes, WriteStep(e)
      PROVE  TaskInOnePlace'
  <2>1. UNCHANGED poolVars
    BY <1>5 DEF WriteStep, LoadState, AppendWrite, RefuseWrite, WriteGoes
  <2>. QED
    BY <1>0, <2>1 DEF poolVars
<1>6. ASSUME NEW t \in Threads, TakeTask(t)
      PROVE  TaskInOnePlace'
  <2>1. /\ taskQueue # <<>>
        /\ taskQueue' = Tail(taskQueue)
        /\ job' = [job EXCEPT ![t] = Head(taskQueue)]
        /\ worker' = [worker EXCEPT ![t] = "run"]
        /\ worker[t] # "run"
        /\ UNCHANGED result
    BY <1>6 DEF TakeTask, WorkerGoes
  <2>2. /\ 1 \in 1..Len(taskQueue)
        /\ Head(taskQueue) = taskQueue[1]
        /\ \A k \in 1..Len(taskQueue') :
             k + 1 \in 1..Len(taskQueue) /\ k + 1 # 1 /\ taskQueue'[k] = taskQueue[k + 1]
    BY <1>t, <2>1
  <2>3. /\ taskQueue[1] \in Tasks /\ taskQueue[1] # 0
        /\ result[taskQueue[1]] = "pending"
        /\ \A u \in Threads : job[u] # taskQueue[1]
    BY <1>q, <1>x, <2>2, TasksFrom1
  <2>4. \A u \in Threads : IF u = t THEN job'[u] = taskQueue[1] ELSE job'[u] = job[u]
    BY <1>t, <2>1, <2>2
  <2>5. \A k \in 1..Len(taskQueue') : result'[taskQueue'[k]] = "pending"
    BY <1>q, <2>1, <2>2
  <2>6. \A k, l \in 1..Len(taskQueue') : taskQueue'[k] = taskQueue'[l] => k = l
    <3> SUFFICES ASSUME NEW k \in 1..Len(taskQueue'), NEW l \in 1..Len(taskQueue'),
                        taskQueue'[k] = taskQueue'[l]
                 PROVE  k = l
      OBVIOUS
    <3>1. k + 1 = l + 1
      BY <1>d, <2>2
    <3>. QED
      BY <3>1
  <2>7. \A u \in Threads : job'[u] # 0 => result'[job'[u]] = "pending"
    BY <1>j, <2>1, <2>3, <2>4
  <2>8. \A u, v \in Threads : job'[u] # 0 /\ job'[u] = job'[v] => u = v
    BY <1>u, <2>3, <2>4
  <2>9. \A u \in Threads : \A k \in 1..Len(taskQueue') : job'[u] # taskQueue'[k]
    BY <1>d, <1>x, <2>2, <2>4
  <2>10. \A u \in Threads : worker'[u] = "run" <=> job'[u] # 0
    BY <1>t, <1>r, <2>1, <2>3, <2>4
  <2>. QED
    BY <2>5, <2>6, <2>7, <2>8, <2>9, <2>10 DEF TaskInOnePlace
<1>7. ASSUME NEW t \in Threads, RunTask(t)
      PROVE  TaskInOnePlace'
  <2>1. PICK r \in {"true", "false"} : result' = [result EXCEPT ![job[t]] = r]
    BY <1>7 DEF RunTask
  <2>2. /\ job' = [job EXCEPT ![t] = 0]
        /\ worker' = [worker EXCEPT ![t] = "lock"]
        /\ UNCHANGED taskQueue
        /\ job[t] \in Tasks
    BY <1>7, <1>t, <1>r DEF RunTask, WorkerGoes
  <2>3. \A j \in Tasks \ {job[t]} : result'[j] = result[j]
    BY <1>t, <2>1
  <2>4. \A u \in Threads : IF u = t THEN job'[u] = 0 ELSE job'[u] = job[u]
    BY <1>t, <2>2
  <2>5. \A k \in 1..Len(taskQueue') : result'[taskQueue'[k]] = "pending"
    BY <1>q, <1>x, <2>2, <2>3
  <2>6. \A u \in Threads : job'[u] # 0 => result'[job'[u]] = "pending"
    BY <1>t, <1>j, <1>u, <2>3, <2>4
  <2>7. \A u, v \in Threads : job'[u] # 0 /\ job'[u] = job'[v] => u = v
    BY <1>u, <2>4
  <2>8. \A u \in Threads : \A k \in 1..Len(taskQueue') : job'[u] # taskQueue'[k]
    BY <1>q, <1>x, <2>2, <2>4, TasksFrom1
  <2>9. \A u \in Threads : worker'[u] = "run" <=> job'[u] # 0
    BY <1>t, <1>r, <2>2, <2>4
  <2>. QED
    BY <1>d, <2>2, <2>5, <2>6, <2>7, <2>8, <2>9 DEF TaskInOnePlace
<1>8. ASSUME NEW t \in Threads, UNCHANGED <<taskQueue, result, job>>, worker[t] # "run",
             NEW w, w # "run", worker' = [worker EXCEPT ![t] = w]
      PROVE  TaskInOnePlace'
  BY <1>0, <1>8, <1>t
<1>9. CASE UNCHANGED vars
  BY <1>0, <1>9 DEF vars, poolVars
<1>. QED
  BY <1>1, <1>2, <1>3, <1>4, <1>5, <1>6, <1>7, <1>8, <1>9, WorkersKeep DEF Next, FillStep

(* The partitions are submitted one by one and all of them are waited for. *)
LEMMA FillProgressStep == Inv /\ [Next]_vars => FillProgress'
<1> SUFFICES ASSUME Inv, [Next]_vars
             PROVE  FillProgress'
  OBVIOUS
<1>t. /\ job \in [Threads -> Tasks \cup {0}]
      /\ result \in [Tasks -> {"none", "pending", "true", "false"}]
      /\ partitions \in Nat
      /\ state \in {"kIdle", "kBuilding", "kApplyingChangelog", "kSwapping",
                    "kComplete", "kFailed"}
  BY TasksFrom1 DEF Inv, TypeOK, PoolTypeOK
<1>c. CallState
  BY DEF Inv
<1>i. state = "kIdle" => Submitted = {}
  BY DEF Inv, FillProgress
<1>k. PICK k \in 0..partitions :
        /\ Submitted = 1..k
        /\ owner = "submit" => k < partitions
        /\ owner = "notify" => k > 0
        /\ owner = "wait" => k = partitions
  BY DEF Inv, FillProgress
<1>n. k \in Nat /\ Cardinality(Submitted) = k
  BY <1>t, <1>k, FS_Interval
<1>0. ASSUME UNCHANGED <<result, partitions>>, ~Filling, ~Filling',
             state' = "kIdle" => state = "kIdle",
             state' \in {"kBuilding", "kApplyingChangelog", "kSwapping", "kComplete"} =>
               state \in {"kBuilding", "kApplyingChangelog", "kSwapping", "kComplete"}
      PROVE  FillProgress'
  BY <1>0 DEF Inv, FillProgress, Submitted, AllReady, Filling
<1>1. ASSUME UNCHANGED <<result, partitions, state, owner>>
      PROVE  FillProgress'
  BY <1>1 DEF Inv, FillProgress, Submitted, AllReady, Filling
<1>2. CASE BeginFill
  <2>1. /\ UNCHANGED result
        /\ state = "kIdle"
        /\ state' = "kBuilding"
        /\ partitions' \in Tasks \cup {0}
        /\ owner' = IF partitions' = 0 THEN "ready" ELSE "submit"
    BY <1>2 DEF BeginFill, Owner, poolVars
  <2>2. Submitted' = {} /\ Submitted' = 1..0
    BY <1>i, <2>1 DEF Submitted
  <2>3. AllReady'
    BY <2>2 DEF AllReady, Submitted
  <2>4. partitions' \in Nat /\ 0 \in 0..partitions'
    BY <2>1, TasksFrom1
  <2>. QED
    BY <2>1, <2>2, <2>3, <2>4 DEF FillProgress, Filling
<1>3. CASE Submit
  <2>1. /\ owner = "submit" /\ owner' = "notify"
        /\ UNCHANGED <<state, partitions>>
        /\ result' = [result EXCEPT ![k + 1] = "pending"]
    BY <1>3, <1>n DEF Submit, Owner, Enqueue
  <2>2. state = "kBuilding"
    BY <1>c, <2>1 DEF CallState, Filling
  <2>3. k + 1 \in Tasks /\ k + 1 \in 0..partitions /\ k + 1 > 0
    <3>1. k < partitions
      BY <1>k, <2>1
    <3>2. PICK m \in Nat : Tasks = 1..m
      BY PoolAssumption, TasksFrom1
    <3>3. partitions \in 0..m
      BY <3>2 DEF Inv, TypeOK
    <3>. QED
      BY <1>n, <3>1, <3>2, <3>3
  <2>4. Submitted' = Submitted \cup {k + 1}
    BY <1>t, <2>1, <2>3 DEF Submitted
  <2>5. Submitted' = 1..(k + 1)
    BY <1>k, <1>n, <2>4
  <2>. QED
    BY <2>1, <2>2, <2>3, <2>5 DEF FillProgress, Filling
<1>4. CASE Notify
  <2>1. /\ owner = "notify"
        /\ owner' = IF k < partitions THEN "submit" ELSE "wait"
        /\ UNCHANGED <<state, partitions, result>>
    BY <1>4, <1>n DEF Notify, NotifyOne, Owner
  <2>2. state = "kBuilding"
    BY <1>c, <2>1 DEF CallState, Filling
  <2>3. Submitted' = 1..k
    BY <1>k, <2>1 DEF Submitted
  <2>4. k \in 0..partitions' /\ (owner' = "wait" => k = partitions')
    BY <1>t, <1>k, <2>1
  <2>. QED
    BY <2>1, <2>2, <2>3, <2>4 DEF FillProgress, Filling
<1>5. CASE EndFill
  <2>1. /\ owner = "wait" /\ owner' = "ready"
        /\ AllReady
        /\ state' = IF \A j \in Submitted : result[j] = "true" THEN state ELSE "kFailed"
        /\ UNCHANGED <<partitions, result>>
    BY <1>5 DEF EndFill, Owner, poolVars
  <2>2. state = "kBuilding"
    BY <1>c, <2>1 DEF CallState, Filling
  <2>3. k = partitions /\ Submitted' = 1..k /\ Submitted' = Submitted /\ AllReady'
    BY <1>k, <2>1 DEF Submitted, AllReady
  <2>. QED
    BY <1>k, <2>1, <2>2, <2>3 DEF FillProgress, Filling
<1>6. CASE ApplyStep
  <2>1. UNCHANGED <<result, partitions>>
    BY <1>6 DEF ApplyStep, BeginApply, LockChangelog, ApplyEntry, ApplyEntryFails,
                ApplierThrows, StoreFailed, EndApply, ClearChangelog, poolVars
  <2>2. /\ ~Filling /\ ~Filling'
        /\ state' = "kIdle" => state = "kIdle"
        /\ state' \in {"kBuilding", "kApplyingChangelog", "kSwapping", "kComplete"} =>
             state \in {"kBuilding", "kApplyingChangelog", "kSwapping", "kComplete"}
    BY <1>6 DEF ApplyStep, BeginApply, LockChangelog, ApplyEntry, ApplyEntryFails,
                ApplierThrows, StoreFailed, EndApply, ClearChangelog, Owner, Filling
  <2>. QED
    BY <1>0, <2>1, <2>2
<1>7. CASE SwapStep
  BY <1>0, <1>7, <1>c DEF SwapStep, BeginSwap, EndSwap, Owner, Filling, CallState, poolVars
<1>8. CASE DestroyStep
  BY <1>0, <1>8 DEF DestroyStep, BeginDestroy, NotifyShutdown, JoinWorkers, SetShutdown,
                    NotifyAll, Owner, Filling, poolVars
<1>9. ASSUME NEW e \in Writes, WriteStep(e)
      PROVE  FillProgress'
  BY <1>1, <1>9 DEF WriteStep, LoadState, AppendWrite, RefuseWrite, WriteGoes, poolVars
<1>10. ASSUME NEW t \in Threads, RunTask(t), UNCHANGED <<state, owner, partitions>>
       PROVE  FillProgress'
  <2>1. job[t] \in Tasks /\ result[job[t]] = "pending"
    BY <1>10, <1>t DEF RunTask, WorkerGoes, Inv, TaskInOnePlace
  <2>2. Filling /\ state = "kBuilding"
    BY <1>c, <2>1 DEF Inv, FillProgress, AllReady, CallState
  <2>3. PICK r \in {"true", "false"} : result' = [result EXCEPT ![job[t]] = r]
    BY <1>10 DEF RunTask
  <2>4. Submitted' = Submitted
    BY <1>t, <2>1, <2>3 DEF Submitted
  <2>. QED
    BY <1>10, <1>k, <2>2, <2>4 DEF FillProgress, Filling
<1>11. ASSUME NEW t \in Threads, Worker(t) \/ WakeUp(t)
       PROVE  FillProgress'
  BY <1>1, <1>10, <1>11, WorkersKeep DEF TakeTask
<1>12. CASE UNCHANGED vars
  BY <1>1, <1>12 DEF vars, poolVars, builderVars
<1>. QED
  BY <1>2, <1>3, <1>4, <1>5, <1>6, <1>7, <1>8, <1>9, <1>11, <1>12 DEF Next, FillStep

(* Appending keeps a prefix, and a sequence is a prefix of itself. *)
LEMMA PrefixKept ==
  ASSUME NEW S, NEW s \in Seq(S), NEW t \in Seq(S), NEW e \in S
  PROVE  /\ IsPrefix(s, s)
         /\ IsPrefix(s, t) => IsPrefix(s, Append(t, e))
<1>1. Append(t, e) \in Seq(S) /\ Len(Append(t, e)) = Len(t) + 1
      /\ \A i \in 1..Len(t) : Append(t, e)[i] = t[i]
  OBVIOUS
<1>2. IsPrefix(s, s)
  BY PrefixByElements
<1>3. ASSUME IsPrefix(s, t)
      PROVE  IsPrefix(s, Append(t, e))
  <2>1. Len(s) <= Len(t) /\ \A i \in 1..Len(s) : s[i] = t[i]
    BY <1>3, PrefixByElements
  <2>2. Len(s) <= Len(Append(t, e)) /\ \A i \in 1..Len(s) : s[i] = Append(t, e)[i]
    BY <1>1, <2>1
  <2>. QED
    BY <1>1, <2>2, PrefixByElements
<1>. QED
  BY <1>2, <1>3

(* applyChangelog goes through the changelog from its front. *)
LEMMA ApplyProgressStep == Inv /\ [Next]_vars => ApplyProgress'
<1> SUFFICES ASSUME Inv, [Next]_vars
             PROVE  ApplyProgress'
  OBVIOUS
<1>t. /\ entries \in Seq(Writes) /\ index \in Seq(Writes) /\ early \in Seq(Writes)
      /\ cursor \in 0..(Len(entries) + 1)
      /\ write \in [Writes -> {"new", "loaded", "true", "false"}]
  BY DEF Inv, TypeOK, ChangelogTypeOK
<1>c. CallState
  BY DEF Inv
<1>a. ApplyProgress
  BY DEF Inv
<1>u. UNCHANGED <<index, early, throws>> => (EarlyIsApplied' <=> EarlyIsApplied)
  BY DEF EarlyIsApplied
<1>0. ASSUME UNCHANGED <<entries, cursor, write, state, owner, index, early, throws>>
      PROVE  ApplyProgress'
  BY <1>0, <1>a, <1>u DEF ApplyProgress
<1>1. CASE FillStep
  <2>1. UNCHANGED <<entries, cursor, write, index, early, throws>>
    BY <1>1 DEF FillStep, BeginFill, Submit, Notify, EndFill, changelogVars
  <2>2. /\ owner \in {"ready", "submit", "notify", "wait"}
        /\ owner' \in {"ready", "submit", "notify", "wait"}
        /\ state \in {"kIdle", "kBuilding"} /\ state' \in {"kBuilding", "kFailed"}
    BY <1>1, <1>c DEF FillStep, BeginFill, Submit, Notify, EndFill, Owner, CallState, Filling
  <2>. QED
    BY <1>a, <2>1, <2>2 DEF ApplyProgress
<1>2. CASE BeginApply
  <2>1. UNCHANGED <<entries, cursor, write, index, early, throws>>
    BY <1>2 DEF BeginApply, changelogVars
  <2>2. state = "kBuilding" /\ owner = "ready" /\ owner' = "forEach"
        /\ state' = "kApplyingChangelog"
    BY <1>2 DEF BeginApply, Owner
  <2>3. entries = early /\ index = <<>> /\ cursor = 0
    BY <1>a, <2>2 DEF ApplyProgress
  <2>4. IsPrefix(early, entries)
    BY <1>t, <2>3, PrefixByElements
  <2>. QED
    BY <2>1, <2>2, <2>3, <2>4 DEF ApplyProgress
<1>3. CASE LockChangelog
  <2>1. /\ UNCHANGED <<entries, write, index, early, state>>
        /\ owner = "forEach" /\ owner' = "visit" /\ cursor' = 1
    BY <1>3 DEF LockChangelog, BeginForEach, Owner
  <2>2. state = "kApplyingChangelog" /\ index = <<>> /\ IsPrefix(early, entries)
    BY <1>a, <1>c, <2>1 DEF ApplyProgress, CallState
  <2>3. SubSeq(entries, 1, 0) = <<>>
    BY <1>t
  <2>. QED
    BY <2>1, <2>2, <2>3 DEF ApplyProgress
<1>4. CASE ApplyEntry
  <2>1. /\ UNCHANGED <<entries, write, early, state>>
        /\ owner = "visit" /\ owner' = "visit"
        /\ cursor \in 1..Len(entries) /\ cursor' = cursor + 1
        /\ index' = Append(index, entries[cursor])
    BY <1>4 DEF ApplyEntry, Visiting, VisitNext, Owner
  <2>2. state = "kApplyingChangelog" /\ index = SubSeq(entries, 1, cursor - 1)
        /\ IsPrefix(early, entries)
    BY <1>a, <1>c, <2>1 DEF ApplyProgress, CallState
  <2>3. Append(SubSeq(entries, 1, cursor - 1), entries[cursor]) = SubSeq(entries, 1, cursor)
    BY <1>t, <2>1
  <2>4. cursor' > 0 /\ cursor' - 1 = cursor
    BY <2>1
  <2>. QED
    BY <2>1, <2>2, <2>3, <2>4 DEF ApplyProgress
<1>5. CASE ApplyEntryFails
  <2>1. /\ UNCHANGED <<entries, write, early, state, index>>
        /\ owner = "visit" /\ owner' = "failed" /\ cursor' = 0
    BY <1>5 DEF ApplyEntryFails, EndForEach, Owner
  <2>. QED
    BY <1>c, <2>1 DEF ApplyProgress, CallState
<1>14. CASE ApplierThrows
  <2>1. /\ UNCHANGED <<entries, write, early, state, index>>
        /\ owner = "visit" /\ owner' = "ready" /\ cursor' = 0 /\ throws' = 1
    BY <1>14 DEF ApplierThrows, EndForEach, Owner
  <2>2. /\ state = "kApplyingChangelog" /\ index = SubSeq(entries, 1, cursor - 1)
        /\ cursor > 0 /\ cursor <= Len(entries)
        /\ IsPrefix(early, entries)
    BY <1>a, <1>c, <1>t, <1>14, <2>1 DEF ApplyProgress, CallState, ApplierThrows, Visiting
  <2>3. /\ Len(index) = cursor - 1
        /\ \A i \in 1..(cursor - 1) : index[i] = entries[i]
    BY <1>t, <2>2
  <2>4. /\ Len(early) <= Len(entries)
        /\ \A i \in 1..Len(early) : early[i] = entries[i]
    BY <1>t, <2>2, PrefixByElements
  <2>5. CASE Len(early) <= Len(index)
    <3>1. \A i \in 1..Len(early) : early[i] = index[i]
      BY <1>t, <2>2, <2>3, <2>4, <2>5
    <3>2. IsPrefix(early, index)
      BY <1>t, <2>5, <3>1, PrefixByElements
    <3>. QED
      BY <1>a, <2>1, <2>2, <3>2 DEF ApplyProgress, EarlyIsApplied
  <2>6. CASE ~(Len(early) <= Len(index))
    <3>1. Len(index) <= Len(early) /\ \A i \in 1..Len(index) : index[i] = early[i]
      BY <1>t, <2>2, <2>3, <2>4, <2>6
    <3>2. IsPrefix(index, early)
      BY <1>t, <3>1, PrefixByElements
    <3>. QED
      BY <1>a, <2>1, <2>2, <3>2 DEF ApplyProgress, EarlyIsApplied
  <2>. QED
    BY <2>5, <2>6
<1>6. CASE StoreFailed
  <2>1. /\ UNCHANGED <<entries, write, early, cursor, index, throws>>
        /\ owner = "failed" /\ owner' = "ready" /\ state' = "kFailed"
    BY <1>6 DEF StoreFailed, Owner, changelogVars
  <2>. QED
    BY <1>a, <2>1 DEF ApplyProgress
<1>7. CASE EndApply
  <2>1. /\ UNCHANGED <<entries, write, early, state, index>>
        /\ owner = "visit" /\ owner' = "clear" /\ cursor' = 0
        /\ cursor \notin 1..Len(entries)
    BY <1>7 DEF EndApply, Visiting, EndForEach, Owner
  <2>2. state = "kApplyingChangelog" /\ index = SubSeq(entries, 1, cursor - 1) /\ cursor > 0
        /\ IsPrefix(early, entries)
    BY <1>a, <1>c, <2>1 DEF ApplyProgress, CallState
  <2>3. index = entries
    <3>1. cursor - 1 = Len(entries)
      BY <1>t, <2>1, <2>2
    <3>. QED
      BY <1>t, <2>2, <3>1
  <2>. QED
    BY <2>1, <2>2, <2>3 DEF ApplyProgress, EarlyIsApplied
<1>8. CASE ClearChangelog
  <2>1. /\ UNCHANGED <<write, early, cursor, index, throws, state>>
        /\ owner = "clear" /\ owner' = "ready"
    BY <1>8 DEF ClearChangelog, Clear, Owner
  <2>. QED
    BY <1>a, <1>c, <1>u, <2>1 DEF ApplyProgress, CallState
<1>9. CASE SwapStep
  <2>1. /\ UNCHANGED <<entries, write, early, cursor, index, throws>>
        /\ \/ owner = "ready" /\ owner' = "swap" /\ state = "kApplyingChangelog"
              /\ state' = "kSwapping"
           \/ owner = "swap" /\ owner' = "ready" /\ state' \in {"kComplete", "kFailed"}
    BY <1>9 DEF SwapStep, BeginSwap, EndSwap, Owner, changelogVars
  <2>. QED
    BY <1>a, <1>c, <1>u, <2>1 DEF ApplyProgress, CallState
<1>10. CASE DestroyStep
  <2>1. /\ UNCHANGED <<entries, write, early, cursor, index, throws, state>>
        /\ owner \in {"ready", "notifyAll", "join"}
        /\ owner' \in {"notifyAll", "join", "gone"}
    BY <1>10 DEF DestroyStep, BeginDestroy, NotifyShutdown, JoinWorkers, Owner, changelogVars
  <2>. QED
    BY <1>a, <1>u, <2>1 DEF ApplyProgress
<1>11. ASSUME NEW e \in Writes, WriteStep(e)
       PROVE  ApplyProgress'
  <2>1. UNCHANGED <<state, owner, index, throws>>
    BY <1>11 DEF WriteStep, LoadState, AppendWrite, RefuseWrite, WriteGoes
  <2>2. CASE LoadState(e) \/ RefuseWrite(e)
    <3>1. UNCHANGED <<entries, cursor, early>>
      BY <2>2 DEF LoadState, RefuseWrite, RefuseEntry, changelogVars
    <3>2. state = "kIdle" => \A f \in Writes : write'[f] # "loaded"
      BY <1>a, <1>t, <2>2 DEF LoadState, RefuseWrite, WriteGoes, ApplyProgress
    <3>. QED
      BY <1>a, <1>u, <2>1, <3>1, <3>2 DEF ApplyProgress
  <2>3. CASE AppendWrite(e)
    <3>1. /\ write[e] = "loaded"
          /\ cursor = 0 /\ UNCHANGED cursor
          /\ entries' = Append(entries, e)
          /\ early' = IF state = "kBuilding" THEN Append(early, e) ELSE early
      BY <2>3 DEF AppendWrite, AppendEntry, WriteGoes
    <3>2. state # "kIdle" /\ owner # "visit"
      BY <1>a, <3>1 DEF ApplyProgress
    <3>3. CASE state = "kBuilding"
      <4>1. owner \notin {"forEach", "visit"}
        BY <1>c, <3>3 DEF CallState
      <4>. QED
        BY <1>a, <2>1, <3>1, <3>3, <4>1 DEF ApplyProgress
    <3>4. CASE state # "kBuilding"
      <4>1. IsPrefix(early, entries) => IsPrefix(early', entries')
        BY <1>t, <3>1, <3>4, PrefixKept
      <4>. QED
        BY <1>a, <1>u, <2>1, <3>1, <3>2, <3>4, <4>1 DEF ApplyProgress
    <3>. QED
      BY <3>3, <3>4
  <2>. QED
    BY <1>11, <2>2, <2>3 DEF WriteStep
<1>12. ASSUME NEW t \in Threads, Worker(t) \/ WakeUp(t)
       PROVE  ApplyProgress'
  BY <1>0, <1>12, WorkersKeep
<1>13. CASE UNCHANGED vars
  BY <1>0, <1>13 DEF vars, changelogVars, builderVars
<1>. QED
  BY <1>1, <1>2, <1>3, <1>4, <1>5, <1>6, <1>7, <1>8, <1>9, <1>10, <1>11, <1>12, <1>13,
     <1>14 DEF Next, ApplyStep

----------------------------------------------------------------------------

(* Inv holds in every state an index build can reach: each call of the      *)
(* owner belongs to its build state, a task is in one place until it has a  *)
(* result, and what was buffered before applyChangelog stays at the front.  *)
THEOREM Invariance == Spec => []Inv
<1>1. Inv /\ [Next]_vars => Inv'
  BY TypeStep, CallStateStep, TaskInOnePlaceStep, FillProgressStep, ApplyProgressStep DEF Inv
<1>. QED
  BY InitInv, <1>1, PTL DEF Spec

(* The queue, the workers, the futures, the changelog and _state keep their *)
(* types; in particular the changelog stays within its memory budget.       *)
THEOREM TypeCorrect == Spec => []TypeOK
<1>1. Inv => TypeOK
  BY DEF Inv
<1>. QED
  BY Invariance, <1>1, PTL

(* atomicSwap publishes no index with a hole: all partitions are filled and *)
(* what was buffered before applyChangelog began has been applied in order, *)
(* up to the entry at which the applier threw if it did.                    *)
THEOREM PublishedFilled == Spec => []PublishedIsFilled
<1>1. Inv => PublishedIsFilled
  <2> SUFFICES ASSUME Inv, state \in {"kSwapping", "kComplete"}
               PROVE  /\ Cardinality(Submitted) = partitions
                      /\ \A i \in Submitted : result[i] = "true"
                      /\ EarlyIsApplied
    BY DEF PublishedIsFilled, EarlyIsApplied
  <2>1. ~Filling /\ owner \notin {"forEach", "visit", "failed"}
    BY DEF Inv, CallState
  <2>2. Submitted = 1..partitions /\ \A i \in Submitted : result[i] = "true"
    BY <2>1 DEF Inv, FillProgress
  <2>3. partitions \in Nat
    BY TasksFrom1 DEF Inv, TypeOK
  <2>4. Cardinality(Submitted) = partitions
    BY <2>2, <2>3, FS_Interval
  <2>5. EarlyIsApplied
    BY <2>1 DEF Inv, ApplyProgress
  <2>. QED
    BY <2>2, <2>4, <2>5
<1>. QED
  BY Invariance, <1>1, PTL

(* Outside fillIndexParallel no task is queued and no worker holds one.     *)
THEOREM NoTaskOutlives == Spec => []NoTaskOutlivesFill
<1>1. Inv => NoTaskOutlivesFill
  <2> SUFFICES ASSUME Inv, ~Filling
               PROVE  taskQueue = <<>> /\ \A t \in Threads : job[t] = 0
    BY DEF NoTaskOutlivesFill, Filling
  <2>1. /\ taskQueue \in Seq(Tasks)
        /\ job \in [Threads -> Tasks \cup {0}]
    BY DEF Inv, TypeOK, PoolTypeOK
  <2>2. \A i \in Tasks : result[i] # "pending"
    BY DEF Inv, FillProgress, AllReady
  <2>3. \A k \in 1..Len(taskQueue) : taskQueue[k] \in Tasks /\ result[taskQueue[k]] = "pending"
    BY <2>1 DEF Inv, TaskInOnePlace
  <2>4. Len(taskQueue) = 0
    BY <2>1, <2>2, <2>3
  <2>5. \A t \in Threads : job[t] = 0
    BY <2>1, <2>2 DEF Inv, TaskInOnePlace
  <2>. QED
    BY <2>1, <2>4, <2>5
<1>. QED
  BY Invariance, <1>1, PTL
----------------------------------------------------------------------------

(* Every nonempty set of natural numbers has a least element.               *)
LEMMA LeastOf ==
  ASSUME NEW S \in SUBSET Nat, S # {}
  PROVE  \E n \in S : \A m \in S : n <= m
<1>1. PICK n \in S : \A m \in S : ~(<<m, n>> \in OpToRel(<, Nat))
  BY NatLessThanWellFounded, WFMin
<1>2. \A m \in S : ~(m < n)
  BY <1>1 DEF OpToRel
<1>. QED
  BY <1>2

(* u holds the memory of every first part of the entries s.                 *)
RunningTotal(u, s) ==
  u = [n \in 0..Len(s) |-> IF n = 0 THEN 0 ELSE u[n - 1] + EntrySize[s[n]]]

(* There are such running totals, and they are numbers.                     *)
LEMMA TotalsExist ==
  ASSUME NEW s \in Seq(Writes)
  PROVE  \E u \in [0..Len(s) -> Nat] : RunningTotal(u, s)
<1> DEFINE Upto(k) == \E u \in [0..k -> Nat] :
                        \A n \in 0..k : u[n] = IF n = 0 THEN 0 ELSE u[n - 1] + EntrySize[s[n]]
           Missing == {k \in 0..Len(s) : ~Upto(k)}
<1>1. Upto(0)
  <2> DEFINE u == [n \in 0..0 |-> 0]
  <2>1. u \in [0..0 -> Nat] /\ \A n \in 0..0 : n = 0 /\ u[n] = 0
    OBVIOUS
  <2> HIDE DEF u
  <2>. QED
    BY <2>1
<1>2. ASSUME NEW k \in 1..Len(s), Upto(k - 1)
      PROVE  Upto(k)
  <2>1. PICK u \in [0..(k - 1) -> Nat] :
          \A n \in 0..(k - 1) : u[n] = IF n = 0 THEN 0 ELSE u[n - 1] + EntrySize[s[n]]
    BY <1>2
  <2> DEFINE v == [n \in 0..k |-> IF n = k THEN u[k - 1] + EntrySize[s[k]] ELSE u[n]]
  <2>2. s[k] \in Writes /\ EntrySize[s[k]] \in Nat
    BY ChangelogAssumption
  <2>3. v \in [0..k -> Nat]
    BY <2>2
  <2>4. \A n \in 0..k : v[n] = IF n = 0 THEN 0 ELSE v[n - 1] + EntrySize[s[n]]
    BY <2>1
  <2>. QED
    BY <2>3, <2>4
<1> HIDE DEF Upto
<1>3. Missing = {}
  <2> SUFFICES ASSUME Missing # {}
               PROVE  FALSE
    OBVIOUS
  <2>0. Missing \in SUBSET Nat
    OBVIOUS
  <2>1. PICK k \in Missing : \A m \in Missing : k <= m
    BY <2>0, LeastOf
  <2>2. k # 0
    BY <1>1
  <2>3. k \in 1..Len(s) /\ k - 1 \in 0..Len(s) /\ k - 1 \notin Missing
    BY <2>1, <2>2
  <2>. QED
    BY <1>2, <2>3
<1>4. Upto(Len(s))
  BY <1>3
<1>. QED
  BY <1>4 DEF Upto, RunningTotal

(* One more entry leaves the totals of the entries before it as they are.   *)
LEMMA TotalsAgree ==
  ASSUME NEW s \in Seq(Writes), NEW e \in Writes,
         NEW u, RunningTotal(u, s), NEW v, RunningTotal(v, Append(s, e))
  PROVE  v[Len(s) + 1] = u[Len(s)] + EntrySize[e]
<1>1. /\ Append(s, e) \in Seq(Writes) /\ Len(Append(s, e)) = Len(s) + 1
      /\ Append(s, e)[Len(s) + 1] = e
      /\ \A n \in 1..Len(s) : Append(s, e)[n] = s[n]
      /\ Len(s) \in Nat
  OBVIOUS
<1>2. \A n \in 0..Len(s) : u[n] = IF n = 0 THEN 0 ELSE u[n - 1] + EntrySize[s[n]]
  BY DEF RunningTotal
<1>3. \A n \in 0..(Len(s) + 1) : v[n] = IF n = 0 THEN 0 ELSE v[n - 1] + EntrySize[Append(s, e)[n]]
  BY <1>1 DEF RunningTotal
<1> DEFINE Apart == {n \in 0..Len(s) : u[n] # v[n]}
<1>4. Apart = {}
  <2> SUFFICES ASSUME Apart # {}
               PROVE  FALSE
    OBVIOUS
  <2>0. Apart \in SUBSET Nat
    OBVIOUS
  <2>1. PICK n \in Apart : \A m \in Apart : n <= m
    BY <2>0, LeastOf
  <2>2. CASE n = 0
    BY <1>1, <1>2, <1>3, <2>1, <2>2
  <2>3. CASE n # 0
    <3>1. n \in 1..Len(s) /\ n - 1 \in 0..Len(s) /\ n - 1 \notin Apart
      BY <2>1, <2>3
    <3>2. u[n] = u[n - 1] + EntrySize[s[n]] /\ v[n] = v[n - 1] + EntrySize[s[n]]
      BY <1>1, <1>2, <1>3, <3>1
    <3>. QED
      BY <2>1, <3>1, <3>2
  <2>. QED
    BY <2>2, <2>3
<1>5. u[Len(s)] = v[Len(s)]
  BY <1>1, <1>4
<1>. QED
  BY <1>1, <1>3, <1>5

(* The memory of the entries s, as MemoryAccounted has it.                  *)
Total(s) ==
  LET used[n \in 0..Len(s)] ==
        IF n = 0 THEN 0 ELSE used[n - 1] + EntrySize[s[n]]
  IN  used[Len(s)]

LEMMA TotalIsRunning ==
  ASSUME NEW s \in Seq(Writes)
  PROVE  \E u : RunningTotal(u, s) /\ Total(s) = u[Len(s)]
<1>1. \E u : RunningTotal(u, s)
  BY TotalsExist
<1>. QED
  BY <1>1 DEF Total, RunningTotal

LEMMA TotalOfNone == Total(<<>>) = 0
<1>1. <<>> \in Seq(Writes) /\ Len(<<>>) = 0
  OBVIOUS
<1>2. PICK u : RunningTotal(u, <<>>) /\ Total(<<>>) = u[0]
  BY <1>1, TotalIsRunning
<1>3. u[0] = 0
  BY <1>1, <1>2 DEF RunningTotal
<1>. QED
  BY <1>2, <1>3

LEMMA TotalOfAppend ==
  ASSUME NEW s \in Seq(Writes), NEW e \in Writes
  PROVE  Total(Append(s, e)) = Total(s) + EntrySize[e]
<1>1. Append(s, e) \in Seq(Writes) /\ Len(Append(s, e)) = Len(s) + 1
  OBVIOUS
<1>2. PICK u : RunningTotal(u, s) /\ Total(s) = u[Len(s)]
  BY TotalIsRunning
<1>3. PICK v : RunningTotal(v, Append(s, e)) /\ Total(Append(s, e)) = v[Len(s) + 1]
  BY <1>1, TotalIsRunning
<1>. QED
  BY <1>2, <1>3, TotalsAgree

(* _currentMemoryUsage is the sum of the sizes of the buffered entries in   *)
(* every state, whatever writes are buffered, refused and cleared.          *)
THEOREM MemoryIsAccounted == Spec => []MemoryAccounted
<1>1. MemoryAccounted <=> usage = Total(entries)
  BY DEF MemoryAccounted, Total
<1>2. MemoryAccounted' <=> usage' = Total(entries')
  BY DEF MemoryAccounted, Total
<1>3. Init => MemoryAccounted
  BY <1>1, TotalOfNone DEF Init, ChangelogInit
<1>4. ASSUME TypeOK, MemoryAccounted, [Next]_vars
      PROVE  MemoryAccounted'
  <2>1. CASE UNCHANGED <<entries, usage>>
    BY <1>1, <1>2, <1>4, <2>1
  <2>2. ASSUME NEW e \in Writes, AppendWrite(e)
        PROVE  MemoryAccounted'
    <3>1. entries' = Append(entries, e) /\ usage' = usage + EntrySize[e]
      BY <2>2 DEF AppendWrite, AppendEntry
    <3>2. entries \in Seq(Writes)
      BY <1>4 DEF TypeOK, ChangelogTypeOK
    <3>. QED
      BY <1>1, <1>2, <1>4, <3>1, <3>2, TotalOfAppend
  <2>3. CASE ClearChangelog
    <3>1. entries' = <<>> /\ usage' = 0
      BY <2>3 DEF ClearChangelog, Clear
    <3>. QED
      BY <1>2, <3>1, TotalOfNone
  <2>4. CASE FillStep
    BY <2>1, <2>4 DEF FillStep, BeginFill, Submit, Notify, EndFill, changelogVars
  <2>5. CASE BeginApply \/ LockChangelog \/ ApplyEntry \/ ApplyEntryFails \/ ApplierThrows
        \/ StoreFailed \/ EndApply
    BY <2>1, <2>5 DEF BeginApply, LockChangelog, ApplyEntry, ApplyEntryFails, ApplierThrows,
       StoreFailed, EndApply, BeginForEach, VisitNext, EndForEach, changelogVars
  <2>6. CASE SwapStep \/ DestroyStep
    BY <2>1, <2>6 DEF SwapStep, BeginSwap, EndSwap, DestroyStep, BeginDestroy, NotifyShutdown,
       JoinWorkers, changelogVars
  <2>7. ASSUME NEW e \in Writes, LoadState(e) \/ RefuseWrite(e)
        PROVE  MemoryAccounted'
    BY <2>1, <2>7 DEF LoadState, RefuseWrite, RefuseEntry, changelogVars
  <2>8. ASSUME NEW t \in Threads, Worker(t) \/ WakeUp(t)
        PROVE  MemoryAccounted'
    BY <2>1, <2>8 DEF Worker, WakeUp, changelogVars
  <2>9. CASE UNCHANGED vars
    BY <2>1, <2>9 DEF vars, changelogVars
  <2>. QED
    BY <1>4, <2>2, <2>3, <2>4, <2>5, <2>6, <2>7, <2>8, <2>9 DEF Next, ApplyStep, WriteStep
<1>5. TypeOK /\ MemoryAccounted /\ [Next]_vars => MemoryAccounted'
  BY <1>4
<1>. QED
  BY <1>3, <1>5, TypeCorrect, PTL DEF Spec
=============================================================================
