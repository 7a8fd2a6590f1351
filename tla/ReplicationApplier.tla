------------------------- MODULE ReplicationApplier -------------------------
(***************************************************************************)
(* The target side of DC-to-DC replication:                                *)
(* Enterprise/Replication/ReplicationApplier.{h,cpp}.                      *)
(*                                                                         *)
(* A caller hands the applier one message (applyMessage) or a batch        *)
(* (applyBatch).  The call takes _mutex and keeps it until it returns, so  *)
(* calls do not interleave with each other; but a call may perform many    *)
(* writes through the write callback, and each of them can fail.  A step   *)
(* of this module is one decision of applyLocked or one iteration of       *)
(* drainBuffered, with the mutex held across the steps of a call           *)
(* (todo # <<>>).                                                          *)
(*                                                                         *)
(* A message is its shard and its sequence number: operation, payload,     *)
(* documentKey and documentRev are only passed on to the callback.         *)
(***************************************************************************)
EXTENDS Naturals, Sequences

CONSTANTS
  Shards,        \* shard ids
  Satellites,    \* the shards for which _satelliteCb answers true
  MaxSeq,        \* the source has generated 1..MaxSeq for every shard
  MaxBatch,      \* longest batch given to applyBatch
  MaxFailures    \* how often the write callback may fail

ASSUME ApplierAssumption ==
  /\ Satellites \subseteq Shards
  /\ MaxSeq \in Nat
  /\ MaxBatch \in Nat
  /\ MaxFailures \in Nat

(* Sequence number 0 is the "no sequence" sentinel; it can arrive too. *)
Messages == [shard : Shards, seq : 0..MaxSeq]

Replicated == Shards \ Satellites

VARIABLES
  lastApplied,   \* _lastApplied, 0 for a shard without an entry
  buffer,        \* buffer[s]: the keys of _buffer[s], {} for a shard without one
  todo,          \* messages the running call still has to handle; <<>> = mutex free
  draining,      \* the running call is inside drainBuffered for Head(todo).shard
  single,        \* the running call is applyMessage, whose caller learns the code
  acked,         \* messages for which applyMessage returned 0
  failures,      \* writes that failed so far
  store          \* store[s]: sequence numbers written to shard s, in order

vars == <<lastApplied, buffer, todo, draining, single, acked, failures, store>>

Init ==
  /\ lastApplied = [s \in Shards |-> 0]
  /\ buffer = [s \in Shards |-> {}]
  /\ todo = <<>>
  /\ draining = FALSE
  /\ single = FALSE
  /\ acked = {}
  /\ failures = 0
  /\ store = [s \in Shards |-> <<>>]

(***************************************************************************)
(* The calls.                                                              *)
(***************************************************************************)

ApplyMessage(m) ==
  /\ todo = <<>>
  /\ todo' = <<m>>
  /\ single' = TRUE
  /\ UNCHANGED <<lastApplied, buffer, draining, acked, failures, store>>

(* An empty batch returns 0 without a step. *)
ApplyBatch(batch) ==
  /\ todo = <<>>
  /\ batch # <<>>
  /\ todo' = batch
  /\ single' = FALSE
  /\ UNCHANGED <<lastApplied, buffer, draining, acked, failures, store>>

(***************************************************************************)
(* applyLocked: one message, with _mutex held.                             *)
(***************************************************************************)

(* The message applyLocked is about to decide on belongs to shard s. *)
Deciding(s) == todo # <<>> /\ ~draining /\ Head(todo).shard = s

Next1(s) == lastApplied[s] + 1

(* applyLocked returned 0: go to the next message of the call. *)
ReturnOk ==
  /\ todo' = Tail(todo)
  /\ acked' = IF single THEN acked \cup {Head(todo)} ELSE acked
  /\ UNCHANGED single

(* The write callback succeeded for sequence number Next1(s). *)
WriteNext(s) ==
  /\ store' = [store EXCEPT ![s] = Append(@, Next1(s))]
  /\ lastApplied' = [lastApplied EXCEPT ![s] = Next1(s)]

(* The write callback returned an error code. *)
WriteFails ==
  /\ failures < MaxFailures
  /\ failures' = failures + 1

SkipSatellite(s) ==
  /\ Deciding(s)
  /\ s \in Satellites
  /\ ReturnOk
  /\ UNCHANGED <<lastApplied, buffer, draining, failures, store>>

(* Mutated: compares with the expected sequence number. *)
RejectExpectedToo(s) ==
  /\ Deciding(s)
  /\ s \notin Satellites
  /\ Head(todo).seq <= Next1(s)
  /\ ReturnOk
  /\ UNCHANGED <<lastApplied, buffer, draining, failures, store>>

RejectDuplicate(s) ==
  /\ Deciding(s)
  /\ s \notin Satellites
  /\ Head(todo).seq <= lastApplied[s]
  /\ ReturnOk
  /\ UNCHANGED <<lastApplied, buffer, draining, failures, store>>

BufferOutOfOrder(s) ==
  /\ Deciding(s)
  /\ s \notin Satellites
  /\ Head(todo).seq > Next1(s)
  /\ buffer' = [buffer EXCEPT ![s] = @ \cup {Head(todo).seq}]
  /\ ReturnOk
  /\ UNCHANGED <<lastApplied, draining, failures, store>>

(* Mutated: writes whatever is new, with no check for a gap. *)
WriteAnyNew(s) ==
  /\ Deciding(s)
  /\ s \notin Satellites
  /\ Head(todo).seq > lastApplied[s]
  /\ store' = [store EXCEPT ![s] = Append(@, Head(todo).seq)]
  /\ lastApplied' = [lastApplied EXCEPT ![s] = Head(todo).seq]
  /\ draining' = TRUE
  /\ UNCHANGED <<buffer, todo, single, acked, failures>>

(* Mutated: returns without draining. *)
WriteWithoutDrain(s) ==
  /\ Deciding(s)
  /\ s \notin Satellites
  /\ Head(todo).seq = Next1(s)
  /\ WriteNext(s)
  /\ ReturnOk
  /\ UNCHANGED <<buffer, draining, failures>>

(* The expected message is written; drainBuffered follows before the return. *)
WriteExpected(s) ==
  /\ Deciding(s)
  /\ s \notin Satellites
  /\ Head(todo).seq = Next1(s)
  /\ WriteNext(s)
  /\ draining' = TRUE
  /\ UNCHANGED <<buffer, todo, single, acked, failures>>

(* The error code is returned; applyBatch breaks out of its loop. *)
FailExpected(s) ==
  /\ Deciding(s)
  /\ s \notin Satellites
  /\ Head(todo).seq = Next1(s)
  /\ WriteFails
  /\ todo' = <<>>
  /\ UNCHANGED <<lastApplied, buffer, draining, single, acked, store>>

(***************************************************************************)
(* drainBuffered: one iteration of its loop.                               *)
(***************************************************************************)

Draining(s) == todo # <<>> /\ draining /\ Head(todo).shard = s

(* Mutated: drains in the order of the hash map. *)
DrainAny(s) ==
  /\ Draining(s)
  /\ \E q \in buffer[s] :
       /\ store' = [store EXCEPT ![s] = Append(@, q)]
       /\ lastApplied' = [lastApplied EXCEPT ![s] = q]
       /\ buffer' = [buffer EXCEPT ![s] = @ \ {q}]
  /\ UNCHANGED <<todo, draining, single, acked, failures>>

DrainWrite(s) ==
  /\ Draining(s)
  /\ Next1(s) \in buffer[s]
  /\ WriteNext(s)
  /\ buffer' = [buffer EXCEPT ![s] = @ \ {Next1(s)}]
  /\ UNCHANGED <<todo, draining, single, acked, failures>>

(* Mutated: takes the message out of the buffer before it is written. *)
DrainFailErased(s) ==
  /\ Draining(s)
  /\ Next1(s) \in buffer[s]
  /\ WriteFails
  /\ draining' = FALSE
  /\ buffer' = [buffer EXCEPT ![s] = @ \ {Next1(s)}]
  /\ ReturnOk
  /\ UNCHANGED <<lastApplied, store>>

(* The failed message stays in the buffer; applyLocked still returns 0. *)
DrainFail(s) ==
  /\ Draining(s)
  /\ Next1(s) \in buffer[s]
  /\ WriteFails
  /\ draining' = FALSE
  /\ ReturnOk
  /\ UNCHANGED <<lastApplied, buffer, store>>

DrainEnd(s) ==
  /\ Draining(s)
  /\ Next1(s) \notin buffer[s]
  /\ draining' = FALSE
  /\ ReturnOk
  /\ UNCHANGED <<lastApplied, buffer, failures, store>>

(***************************************************************************)
(* The specification.                                                      *)
(***************************************************************************)

(* What the thread inside a call does next. *)
Handle ==
  \E s \in Shards :
    \/ SkipSatellite(s)
    \/ RejectDuplicate(s)
    \/ BufferOutOfOrder(s)
    \/ WriteExpected(s)
    \/ FailExpected(s)
    \/ DrainWrite(s)
    \/ DrainFail(s)
    \/ DrainEnd(s)

Batches == UNION {[1..n -> Messages] : n \in 1..MaxBatch}

(* The network loses, duplicates and reorders: any message in any call. *)
Next ==
  \/ \E m \in Messages : ApplyMessage(m)
  \/ \E batch \in Batches : ApplyBatch(batch)
  \/ Handle

Spec == Init /\ [][Next]_vars

(***************************************************************************)
(* Properties.                                                             *)
(***************************************************************************)

TypeOK ==
  /\ lastApplied \in [Shards -> Nat]
  /\ buffer \in [Shards -> SUBSET (2..MaxSeq)]
  /\ todo \in Seq(Messages)
  /\ draining \in BOOLEAN
  /\ single \in BOOLEAN
  /\ acked \in SUBSET Messages
  /\ failures \in 0..MaxFailures
  /\ store \in [Shards -> Seq(Nat)]

(* "Idempotent" and "Ordered" of the class comment: whatever is lost,       *)
(* duplicated, reordered or failed, what was written to a shard is exactly  *)
(* 1, 2, ..., lastApplied, each once, and nothing went to a satellite.      *)
InOrderExactlyOnce ==
  \A s \in Shards :
    /\ Len(store[s]) = lastApplied[s]
    /\ \A i \in 1..Len(store[s]) : store[s][i] = i
    /\ s \in Satellites => store[s] = <<>>

(* A return code of 0 for a replicated message means the applier has not    *)
(* dropped it: it is written, or still in the buffer.                       *)
AckedIsKept ==
  \A m \in acked :
    m.shard \in Replicated =>
      m.seq <= lastApplied[m.shard] \/ m.seq \in buffer[m.shard]

(* drainBuffered leaves nothing behind that it could have written: unless a *)
(* write failed, between calls every buffered message waits for a gap.      *)
BufferedWaitsForGap ==
  todo = <<>> /\ failures = 0 =>
    \A s \in Shards : \A q \in buffer[s] : q > Next1(s)

(* The applier implements the ordered log of the replicated shards. *)
OrderedLog == INSTANCE OrderedShardLog WITH
                log <- [s \in Replicated |-> store[s]]

ImplementsOrderedLog == OrderedLog!Spec
=============================================================================
