------------------------ MODULE MCReplicationApplier ------------------------
(***************************************************************************)
(* ReplicationApplier fed by two kinds of source.                          *)
(***************************************************************************)
EXTENDS ReplicationApplier

(***************************************************************************)
(* A source that retransmits: the message a shard waits for gets through   *)
(* again and again (DC2DCIntegrationTest.cpp:255, :308), and a call that   *)
(* holds the mutex runs on.                                                *)
(***************************************************************************)
ResendExpected(s) ==
  /\ Next1(s) <= MaxSeq
  /\ ApplyMessage([shard |-> s, seq |-> Next1(s)])

RetransmittingSpec ==
  /\ Spec
  /\ WF_vars(Handle)
  /\ \A s \in Replicated : SF_vars(ResendExpected(s))

(***************************************************************************)
(* A source that takes a return code of 0 for an answer: it never sends    *)
(* that message again, and sends every other one until it gets a 0.        *)
(***************************************************************************)
NextUnacked ==
  \/ \E m \in Messages \ acked : ApplyMessage(m)
  \/ Handle

AckingSpec ==
  /\ Init
  /\ [][NextUnacked]_vars
  /\ WF_vars(Handle)
  /\ \A m \in Messages : SF_vars(m \notin acked /\ ApplyMessage(m))

(* Every replicated shard catches up with a retransmitting source, whatever *)
(* order, loss, duplication and finitely many failing writes do to it.      *)
EveryShardCatchesUp == \A s \in Replicated : <>(lastApplied[s] = MaxSeq)

(* "Drain any buffered out-of-order messages that can now be applied"       *)
(* (ReplicationApplier.h:89), called "after each apply": a message that was *)
(* acknowledged, with all its predecessors, is eventually written.          *)
AckedIsEventuallyApplied ==
  \A s \in Replicated : \A q \in 1..MaxSeq :
    ({[shard |-> s, seq |-> p] : p \in 1..q} \subseteq acked)
      ~> (lastApplied[s] >= q)
=============================================================================
