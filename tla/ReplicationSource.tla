------------------------- MODULE ReplicationSource -------------------------
(***************************************************************************)
(* The source side of DC-to-DC replication: DC2DCReplicator.cpp with the   *)
(* ShardWALTailer and the MessageBatcher of each of its tail threads, and  *)
(* the SequenceNumberGenerator they share through the one SequenceProvider *)
(* that configureWALTailing is given.                                      *)
(*                                                                         *)
(* A WAL entry is its position; Wal[k] says to which shard index its       *)
(* document key hashes and whether its collection is a satellite.  The     *)
(* iterators are IWALIterator's contract: each thread reads the same WAL   *)
(* from the start, and valid() is false at its current end.                *)
(***************************************************************************)
EXTENDS SequenceNumberGenerator, Sequences, SequencesExt

CONSTANTS
  Wal,           \* the WAL at its final length
  BatchSize      \* DC2DCOptions::batchSize

Shards == Callers     \* one tail thread per shard index

ASSUME SourceAssumption ==
  /\ Wal \in Seq([shard : Shards, satellite : BOOLEAN])
  /\ BatchSize \in Nat \ {0}

VARIABLES
  walEnd,        \* how much of the WAL has been written
  tailing,       \* "no" before start(), then _tailing
  pc,            \* pc[i]: where the thread of shard index i is in its loop
  next,          \* next[i]: the position of its iterator
  known,         \* known[i]: its _infoCache has the satellite collection
  polled,        \* polled[i]: entries that poll returned and add did not take
  pending,       \* pending[i]: MessageBatcher::_pending
  sealing,       \* sealing[i]: where the thread goes on after seal()
  sent           \* the batches given to _onBatchReady, in order

tailVars == <<walEnd, tailing, pc, next, known, polled, pending, sealing, sent>>
vars == <<generatorVars, tailVars>>

Init ==
  /\ GeneratorInit
  /\ walEnd = 0
  /\ tailing = "no"
  /\ pc = [i \in Shards |-> "none"]
  /\ next = [i \in Shards |-> 1]
  /\ known = [i \in Shards |-> FALSE]
  /\ polled = [i \in Shards |-> <<>>]
  /\ pending = [i \in Shards |-> <<>>]
  /\ sealing = [i \in Shards |-> "none"]
  /\ sent = <<>>

(* The database writes. *)
WriteWal ==
  /\ walEnd < Len(Wal)
  /\ walEnd' = walEnd + 1
  /\ UNCHANGED <<generatorVars, tailing, pc, next, known, polled, pending, sealing, sent>>

(***************************************************************************)
(* start() and stop().  stop() does not wait for the threads; the          *)
(* destructor does.                                                        *)
(***************************************************************************)

Start ==
  /\ tailing = "no"
  /\ tailing' = "true"
  /\ pc' = [i \in Shards |-> "loop"]
  /\ UNCHANGED <<generatorVars, walEnd, next, known, polled, pending, sealing, sent>>

Stop ==
  /\ tailing = "true"
  /\ tailing' = "false"
  /\ UNCHANGED <<generatorVars, walEnd, pc, next, known, polled, pending, sealing, sent>>

(***************************************************************************)
(* shardTailLoop.                                                          *)
(***************************************************************************)

Goes(i, from, to) ==
  /\ pc[i] = from
  /\ pc' = [pc EXCEPT ![i] = to]

(* The condition of the loop. *)
TestTailing(i) ==
  /\ Goes(i, "loop", IF tailing = "true" THEN "poll" ELSE "flushLast")
  /\ UNCHANGED <<generatorVars, walEnd, tailing, next, known, polled, pending, sealing, sent>>

More(i) == next[i] <= walEnd /\ Len(polled[i]) < BatchSize

(* poll examines one entry.  The resolver may not know the collection, and  *)
(* then the entry is not skipped; once it does, the answer is cached.       *)
Examine(i) ==
  /\ pc[i] = "poll"
  /\ More(i)
  /\ \E resolved \in IF known[i] \/ ~Wal[next[i]].satellite THEN {TRUE} ELSE BOOLEAN :
       LET skipped == Wal[next[i]].satellite /\ resolved
       IN  /\ known' = [known EXCEPT ![i] = @ \/ skipped]
           /\ polled' = [polled EXCEPT ![i] =
                IF ~skipped /\ Wal[next[i]].shard = i THEN Append(@, next[i]) ELSE @]
  /\ next' = [next EXCEPT ![i] = @ + 1]
  /\ UNCHANGED <<generatorVars, walEnd, tailing, pc, pending, sealing, sent>>

(* poll returns; an empty result makes the thread flush and sleep. *)
EndPoll(i) ==
  /\ ~More(i)
  /\ Goes(i, "poll", IF polled[i] = <<>> THEN "flush" ELSE "add")
  /\ UNCHANGED <<generatorVars, walEnd, tailing, next, known, polled, pending, sealing, sent>>

(* The thread calls seal() and goes on at "to" afterwards. *)
Seal(i, to) ==
  /\ pc' = [pc EXCEPT ![i] = "seal"]
  /\ sealing' = [sealing EXCEPT ![i] = to]
  /\ BeginNext(i)

(* MessageBatcher::add: a full batch is sealed at once. *)
Add(i) ==
  /\ pc[i] = "add"
  /\ polled[i] # <<>>
  /\ pending' = [pending EXCEPT ![i] = Append(@, Head(polled[i]))]
  /\ polled' = [polled EXCEPT ![i] = Tail(@)]
  /\ IF Len(pending'[i]) >= BatchSize
       THEN Seal(i, "add")
       ELSE UNCHANGED <<generatorVars, pc, sealing>>
  /\ UNCHANGED <<walEnd, tailing, next, known, sent>>

EndAdd(i) ==
  /\ polled[i] = <<>>
  /\ Goes(i, "add", "loop")
  /\ UNCHANGED <<generatorVars, walEnd, tailing, next, known, polled, pending, sealing, sent>>

(* MessageBatcher::flush, in the loop and after it. *)
FlushFrom(i, from, to) ==
  /\ pc[i] = from
  /\ IF pending[i] = <<>>
       THEN Goes(i, from, to) /\ UNCHANGED <<generatorVars, sealing>>
       ELSE Seal(i, to)
  /\ UNCHANGED <<walEnd, tailing, next, known, polled, pending, sent>>

(* Mutated: only full batches are sent while the thread tails. *)
SleepUnflushed(i) ==
  /\ Goes(i, "flush", "loop")
  /\ UNCHANGED <<generatorVars, walEnd, tailing, next, known, polled, pending, sealing, sent>>

Flush(i) == FlushFrom(i, "flush", "loop")

(* Mutated: the thread ends with what it has not batched yet. *)
EndUnflushed(i) ==
  /\ Goes(i, "flushLast", "done")
  /\ UNCHANGED <<generatorVars, walEnd, tailing, next, known, polled, pending, sealing, sent>>

FlushLast(i) == FlushFrom(i, "flushLast", "done")

(* seal() asks the generator for a number ... *)
AskNumber(i) ==
  /\ NextSequence(i)
  /\ UNCHANGED tailVars

(* Mutated: the pending entries are not cleared. *)
SendAndKeep(i) ==
  /\ pc[i] = "seal"
  /\ Returned(i)
  /\ sent' = Append(sent, [shard |-> i, number |-> number[i], entries |-> pending[i]])
  /\ Goes(i, "seal", sealing[i])
  /\ sealing' = [sealing EXCEPT ![i] = "none"]
  /\ UNCHANGED <<walEnd, tailing, next, known, polled, pending>>

(* ... and the batch goes to _onBatchReady. *)
Send(i) ==
  /\ Returned(i)
  /\ sent' = Append(sent, [shard |-> i, number |-> number[i], entries |-> pending[i]])
  /\ pending' = [pending EXCEPT ![i] = <<>>]
  /\ Goes(i, "seal", sealing[i])
  /\ sealing' = [sealing EXCEPT ![i] = "none"]
  /\ UNCHANGED <<walEnd, tailing, next, known, polled>>

----------------------------------------------------------------------------

Tail1(i) ==
  \/ TestTailing(i)
  \/ Examine(i)
  \/ EndPoll(i)
  \/ Add(i)
  \/ EndAdd(i)
  \/ Flush(i)
  \/ FlushLast(i)
  \/ AskNumber(i)
  \/ Send(i)

Next == WriteWal \/ Start \/ Stop \/ \E i \in Shards : Tail1(i)

Spec == Init /\ [][Next]_vars

(* The operating system runs every tail thread. *)
FairSpec == Spec /\ \A i \in Shards : WF_vars(Tail1(i))

(***************************************************************************)
(* Properties.                                                             *)
(***************************************************************************)

Positions == 1..Len(Wal)

TypeOK ==
  /\ GeneratorTypeOK
  /\ walEnd \in 0..Len(Wal)
  /\ tailing \in {"no", "true", "false"}
  /\ pc \in [Shards -> {"none", "loop", "poll", "add", "flush", "flushLast", "seal", "done"}]
  /\ next \in [Shards -> 1..(Len(Wal) + 1)]
  /\ known \in [Shards -> BOOLEAN]
  /\ polled \in [Shards -> Seq(Positions)]
  /\ pending \in [Shards -> Seq(Positions)]
  /\ \A i \in Shards : Len(polled[i]) <= BatchSize /\ Len(pending[i]) <= BatchSize
  /\ sealing \in [Shards -> {"none", "loop", "add", "done"}]
  /\ sent \in Seq([shard : Shards, number : Nat, entries : Seq(Positions)])
  /\ \A n \in DOMAIN sent : sent[n].number > 0 /\ Len(sent[n].entries) \in 1..BatchSize

BatchesOf(i) == {n \in DOMAIN sent : sent[n].shard = i}

(* What the thread of shard index i has shipped. *)
Shipped(i) == UNION {Range(sent[n].entries) : n \in BatchesOf(i)}

(* What it has polled and not shipped, in order. *)
InHand(i) == pending[i] \o polled[i]

(* Everything that went through the thread. *)
Taken(i) == Shipped(i) \cup Range(InHand(i))

Ascending(entries) ==
  \A m, n \in DOMAIN entries : m < n => entries[m] < entries[n]

Precedes(entries, later) ==
  \A m \in DOMAIN entries, n \in DOMAIN later : entries[m] < later[n]

(* The entries of a thread ascend, within a batch, from batch to batch and  *)
(* on to those in its hands.                                                *)
InWalOrder(i) ==
  /\ Ascending(InHand(i))
  /\ \A n \in BatchesOf(i) :
       /\ Ascending(sent[n].entries)
       /\ Precedes(sent[n].entries, InHand(i))
       /\ \A m \in BatchesOf(i) : m < n => Precedes(sent[m].entries, sent[n].entries)

(* It has the entries of its shard that its iterator has passed, and only   *)
(* those; satellites' entries may be among them.                            *)
TakesItsOwn(i) ==
  /\ \A k \in Taken(i) : k < next[i] /\ Wal[k].shard = i
  /\ \A k \in 1..(next[i] - 1) :
       Wal[k].shard = i /\ ~Wal[k].satellite => k \in Taken(i)

(* Each tail thread takes the entries of its shard, and only those, once    *)
(* and in WAL order, and none of them gets lost between poll, add, seal and *)
(* the callback; no batch is empty or larger than configured (in TypeOK).   *)
TakenOnceInOrder ==
  /\ TypeOK
  /\ \A i \in Shards : InWalOrder(i) /\ TakesItsOwn(i)

(* A thread that has ended has shipped all it has read from the WAL. *)
ShippedBeforeExit ==
  \A i \in Shards : pc[i] = "done" => InHand(i) = <<>>

(* "multiple WAL tail threads can call nextSequence() concurrently"         *)
(* (SequenceNumberGenerator.h:16): no two batches have the same number, and *)
(* the numbers of a shard's batches grow in the order they are shipped.     *)
NumbersGrow ==
  \A m, n \in DOMAIN sent :
    m < n =>
      /\ sent[m].number # sent[n].number
      /\ sent[m].shard = sent[n].shard => sent[m].number < sent[n].number

(* While the threads tail, every entry that is not a satellite's is         *)
(* shipped, even when it does not fill a batch.                             *)
EveryEntryShipped ==
  \A k \in DOMAIN Wal :
    k <= walEnd /\ tailing = "true" /\ ~Wal[k].satellite
      ~> tailing = "false" \/ k \in Shipped(Wal[k].shard)
=============================================================================
