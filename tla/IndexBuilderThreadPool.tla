----------------------- MODULE IndexBuilderThreadPool -----------------------
(***************************************************************************)
(* Enterprise/RocksDBEngine/IndexBuilderThreadPool.{h,cpp}: worker threads *)
(* that wait on a condition variable for tasks or for the shutdown flag.   *)
(*                                                                         *)
(* The workers are complete here.  What the thread that owns the pool does *)
(* to it (submit, wait for a result, shutdown) is given as operators that  *)
(* RocksDBBuilderIndexEE puts into its own steps.  That thread is the only *)
(* one that sets _shutdown, in the destructor of the builder, so submit    *)
(* never finds it set.                                                     *)
(*                                                                         *)
(* _shutdown is an atomic that shutdown() sets without _mutex.  That is    *)
(* why testing the predicate of the wait and going to sleep are two steps. *)
(***************************************************************************)
EXTENDS Naturals, Sequences, FiniteSets

CONSTANTS
  Threads,       \* the worker threads
  Tasks          \* 1..n, the tasks that can be submitted

ASSUME PoolAssumption ==
  /\ IsFiniteSet(Tasks)
  /\ Tasks = 1..Cardinality(Tasks)

VARIABLES
  taskQueue,     \* _taskQueue
  shutdown,      \* _shutdown
  mutex,         \* the threads inside a critical section of _mutex
  worker,        \* worker[t]: what thread t does next
  job,           \* job[t]: the task thread t has taken, 0 for none
  result         \* result[i]: the state of the future of task i

poolVars == <<taskQueue, shutdown, mutex, worker, job, result>>

PoolInit ==
  /\ taskQueue = <<>>
  /\ shutdown = FALSE
  /\ mutex = {}
  /\ worker = [t \in Threads |-> "lock"]
  /\ job = [t \in Threads |-> 0]
  /\ result = [i \in Tasks |-> "none"]

PoolTypeOK ==
  /\ taskQueue \in Seq(Tasks)
  /\ shutdown \in BOOLEAN
  /\ mutex \in SUBSET Threads
  /\ worker \in [Threads -> {"lock", "test", "block", "asleep", "run", "exited"}]
  /\ job \in [Threads -> Tasks \cup {0}]
  /\ result \in [Tasks -> {"none", "pending", "true", "false"}]

(***************************************************************************)
(* workerLoop.                                                             *)
(***************************************************************************)

WorkerGoes(t, from, to) ==
  /\ worker[t] = from
  /\ worker' = [worker EXCEPT ![t] = to]

Lock(t) ==
  /\ WorkerGoes(t, "lock", "test")
  /\ mutex = {}
  /\ mutex' = {t}
  /\ UNCHANGED <<taskQueue, shutdown, job, result>>

(* The predicate is false; the thread still holds the mutex. *)
DecideToWait(t) ==
  /\ WorkerGoes(t, "test", "block")
  /\ ~shutdown
  /\ taskQueue = <<>>
  /\ UNCHANGED <<taskQueue, shutdown, mutex, job, result>>

(* The mutex is released and the thread waits for a notification. *)
Block(t) ==
  /\ WorkerGoes(t, "block", "asleep")
  /\ mutex' = {}
  /\ UNCHANGED <<taskQueue, shutdown, job, result>>

(* A wakeup without a notification. *)
SpuriousWakeup(t) ==
  /\ WorkerGoes(t, "asleep", "lock")
  /\ UNCHANGED <<taskQueue, shutdown, mutex, job, result>>

TakeTask(t) ==
  /\ WorkerGoes(t, "test", "run")
  /\ taskQueue # <<>>
  /\ job' = [job EXCEPT ![t] = Head(taskQueue)]
  /\ taskQueue' = Tail(taskQueue)
  /\ mutex' = {}
  /\ UNCHANGED <<shutdown, result>>

(* Queued tasks are finished before a thread leaves. *)
Exit(t) ==
  /\ WorkerGoes(t, "test", "exited")
  /\ shutdown
  /\ taskQueue = <<>>
  /\ mutex' = {}
  /\ UNCHANGED <<taskQueue, shutdown, job, result>>

(* The task runs and its future becomes ready; "false" stands for a task    *)
(* that returned false and for one that threw.                              *)
RunTask(t) ==
  /\ WorkerGoes(t, "run", "lock")
  /\ job' = [job EXCEPT ![t] = 0]
  /\ \E r \in {"true", "false"} : result' = [result EXCEPT ![job[t]] = r]
  /\ UNCHANGED <<taskQueue, shutdown, mutex>>

(* Everything a worker thread does by itself. *)
Run(t) ==
  \/ Lock(t)
  \/ DecideToWait(t)
  \/ Block(t)
  \/ TakeTask(t)
  \/ Exit(t)
  \/ RunTask(t)

WorkerNext == \E t \in Threads : Run(t) \/ SpuriousWakeup(t)

(***************************************************************************)
(* The owner's operations.                                                 *)
(***************************************************************************)

Asleep == {t \in Threads : worker[t] = "asleep"}

(* submit up to the end of its critical section. *)
Enqueue(i) ==
  /\ mutex = {}
  /\ taskQueue' = Append(taskQueue, i)
  /\ result' = [result EXCEPT ![i] = "pending"]
  /\ UNCHANGED <<shutdown, mutex, worker, job>>

(* Mutated: nobody is told about the new task. *)
NotifyNobody == UNCHANGED poolVars

(* notify_one: some sleeping thread, if there is one, wakes up. *)
NotifyOne ==
  /\ IF Asleep = {}
       THEN UNCHANGED worker
       ELSE \E t \in Asleep : worker' = [worker EXCEPT ![t] = "lock"]
  /\ UNCHANGED <<taskQueue, shutdown, mutex, job, result>>

(* future.get() returned for every task submitted so far. *)
AllReady == \A i \in Tasks : result[i] # "pending"

SetShutdown ==
  /\ shutdown' = TRUE
  /\ UNCHANGED <<taskQueue, mutex, worker, job, result>>

NotifyAll ==
  /\ worker' = [t \in Threads |-> IF t \in Asleep THEN "lock" ELSE worker[t]]
  /\ UNCHANGED <<taskQueue, shutdown, mutex, job, result>>

AllExited == \A t \in Threads : worker[t] = "exited"
=============================================================================
