------------------------ MODULE MCReplicationSource ------------------------
(***************************************************************************)
(* Two tail threads on a WAL with entries of both and one of a satellite.  *)
(***************************************************************************)
EXTENDS ReplicationSource

CONSTANTS s0, s1

MCShards == {s0, s1}

Entry(s, sat) == [shard |-> s, satellite |-> sat]

MCWal ==
  << Entry(s0, FALSE), Entry(s1, FALSE), Entry(s0, TRUE), Entry(s0, FALSE) >>
=============================================================================
