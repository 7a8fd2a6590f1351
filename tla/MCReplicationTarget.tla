------------------------ MODULE MCReplicationTarget ------------------------
(***************************************************************************)
(* ReplicationTarget with a shard of its own for one worker and a shard    *)
(* that both workers apply messages of.                                    *)
(***************************************************************************)
EXTENDS ReplicationTarget, TLC

CONSTANTS own, shared, w1, w2

MCShards == {own, shared}
MCWorkers == {w1, w2}
MCOwn == (w1 :> {own, shared}) @@ (w2 :> {shared})
=============================================================================
