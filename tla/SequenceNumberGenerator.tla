----------------------- MODULE SequenceNumberGenerator -----------------------
(***************************************************************************)
(* Enterprise/Replication/SequenceNumberGenerator.{h,cpp}: nextSequence,   *)
(* called by many threads for one shard id.                                *)
(*                                                                         *)
(* The map holds pointers to atomic counters.  A call takes a pointer out  *)
(* of the map under the read lock, or under the write lock when there was  *)
(* none, and increments the counter without a lock.                        *)
(***************************************************************************)
EXTENDS Naturals

CONSTANT Callers       \* the threads that call nextSequence

VARIABLES
  heap,          \* heap[c]: the value of the counter that caller c has allocated
  counter,       \* the caller whose counter is in _counters, {} for none
  call,          \* call[t]: what thread t does next in nextSequence
  handle,        \* handle[t]: the counter that getOrCreate gave to t
  number         \* number[t]: what nextSequence returned to t

generatorVars == <<heap, counter, call, handle, number>>

GeneratorInit ==
  /\ heap = [c \in Callers |-> 0]
  /\ counter = {}
  /\ call = [t \in Callers |-> "none"]
  /\ handle = [t \in Callers |-> {}]
  /\ number = [t \in Callers |-> 0]

GeneratorTypeOK ==
  /\ heap \in [Callers -> Nat]
  /\ counter \in SUBSET Callers
  /\ call \in [Callers -> {"none", "find", "insert", "add", "returned"}]
  /\ handle \in [Callers -> SUBSET Callers]
  /\ number \in [Callers -> Nat]

CallGoes(t, from, to) ==
  /\ call[t] = from
  /\ call' = [call EXCEPT ![t] = to]

BeginNext(t) ==
  /\ CallGoes(t, "none", "find")
  /\ UNCHANGED <<heap, counter, handle, number>>

(* The fast path of getOrCreate, under the read lock. *)
FindCounter(t) ==
  /\ CallGoes(t, "find", IF counter = {} THEN "insert" ELSE "add")
  /\ handle' = [handle EXCEPT ![t] = counter]
  /\ UNCHANGED <<heap, counter, number>>

(* Mutated: a counter that another thread has inserted is replaced. *)
ReplaceCounter(t) ==
  /\ CallGoes(t, "insert", "add")
  /\ counter' = {t}
  /\ heap' = [heap EXCEPT ![t] = 0]
  /\ handle' = [handle EXCEPT ![t] = {t}]
  /\ UNCHANGED number

(* The slow path, under the write lock: emplace keeps a counter that is there. *)
InsertCounter(t) ==
  /\ CallGoes(t, "insert", "add")
  /\ counter' = IF counter = {} THEN {t} ELSE counter
  /\ handle' = [handle EXCEPT ![t] = counter']
  /\ UNCHANGED <<heap, number>>

(* fetch_add on the counter. *)
Increment(t) ==
  /\ CallGoes(t, "add", "returned")
  /\ \E c \in handle[t] :
       /\ heap' = [heap EXCEPT ![c] = @ + 1]
       /\ number' = [number EXCEPT ![t] = heap[c] + 1]
  /\ handle' = [handle EXCEPT ![t] = {}]
  /\ UNCHANGED counter

NextSequence(t) == FindCounter(t) \/ InsertCounter(t) \/ Increment(t)

(* The caller goes on with the number. *)
Returned(t) ==
  /\ CallGoes(t, "returned", "none")
  /\ number' = [number EXCEPT ![t] = 0]
  /\ UNCHANGED <<heap, counter, handle>>
=============================================================================
