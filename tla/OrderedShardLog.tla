--------------------------- MODULE OrderedShardLog ---------------------------
(***************************************************************************)
(* What a replication target promises about one data centre's copy of the  *)
(* shards: per shard, the writes form a log that only ever grows by the    *)
(* message whose sequence number is the next one.  Nothing is written      *)
(* twice, nothing is skipped, nothing is reordered, and shards do not      *)
(* wait for one another.  ReplicationApplier is shown to implement this.   *)
(***************************************************************************)
EXTENDS Naturals, Sequences

CONSTANT Replicated   \* the shards whose messages are to be written

VARIABLE log          \* log[s]: the sequence numbers written to shard s, in order

Init == log = [s \in Replicated |-> <<>>]

(* One shard's log grows by its next message. *)
Append1(s) == log' = [log EXCEPT ![s] = Append(@, Len(@) + 1)]

Next == \E s \in Replicated : Append1(s)

Spec == Init /\ [][Next]_log
=============================================================================
