---------------------------- MODULE MCIndexBuild ----------------------------
(***************************************************************************)
(* Index builds with writes of different sizes.                            *)
(***************************************************************************)
EXTENDS RocksDBBuilderIndexEE

CONSTANTS small, big, bigger

MCWrites == {small, big, bigger}
MCEntrySize == (small :> 1) @@ (big :> 2) @@ (bigger :> 3)
=============================================================================
