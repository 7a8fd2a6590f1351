------------------------- MODULE EnterpriseServices -------------------------
(***************************************************************************)
(* The services beside replication, index building, backup and audit, in   *)
(* one server.  They share no state, so one of them is active in a         *)
(* behavior and the others keep one fixed state: the state spaces add up   *)
(* instead of multiplying, and what holds of a service here is what holds  *)
(* of it alone.                                                            *)
(***************************************************************************)
EXTENDS Integers, Sequences, FiniteSets

(* Each is described in the module of its service. *)
CONSTANTS
  Calls,                                           \* RCloneProcess
  Requests,                                        \* LDAPHandler
  Docs, SegmentOf, MaxScore,                       \* IResearchOptimizeTopK
  MaxByte, MaxKeyLength, MaxPartitions,            \* KeySpacePartitioner
  CounterDigits, BlockSize, IntLimit, FileSize, MaxStarts,  \* EncryptionProvider
  Clients, Width, MaxPayload, MaxConnects, MaxMessages,  \* DirectMQ
  Base,                                            \* both: the values of a byte
  Names, RuleChoices, KeptDigits, MaxLength, MaxConfigs, \* AttributeMasking
  GraphCollections, GraphKeys,                     \* SmartGraph: Collections, Keys
  Attributes, Hash, MaxVertices, MaxEdges, MaxSteps      \* SmartGraph

ASSUME DocsAssumption ==
  MaxScore \in Nat /\ IsFiniteSet(Docs) /\ Docs \subseteq Nat \ {0}

ASSUME EncryptionAssumption ==
  /\ CounterDigits \in Nat /\ BlockSize \in Nat \ {0} /\ FileSize \in Nat
  /\ IntLimit \in Nat \ {0}

ASSUME PartitionAssumption ==
  MaxByte \in Nat /\ MaxKeyLength \in Nat /\ MaxPartitions \in Nat

VARIABLES
  active,     \* the service that runs
  configured, pc, fds, polled, child, holders, unread, pollFailed, result,
  settings, at, open, secure, bound, held, outcome,
  plan, index, heap, position, current, delivered,
  asked, answered, answer,
  provider, starts, iv, stored, writtenWith,
  connection, connects, live, onWire, arrived, unreceived, messages, noise,
  file, cursor, configs,
  disjoint, localShard, satellites, vertices, edges, path, reached, refused

RC == INSTANCE RCloneProcess
LD == INSTANCE LDAPHandler
TK == INSTANCE IResearchOptimizeTopK
KP == INSTANCE KeySpacePartitioner
EP == INSTANCE EncryptionProvider
MQ == INSTANCE DirectMQ
AM == INSTANCE AttributeMasking
SG == INSTANCE SmartGraph WITH Collections <- GraphCollections, Keys <- GraphKeys

(* The length of a frame has the width of a length (kMaxPayloadSize). *)
ASSUME FrameAssumption ==
  /\ Base \in Nat \ {0} /\ Width \in Nat \ {0} /\ MaxPayload \in Nat
  /\ Width + MaxPayload < MQ!Modulus

(* A smart graph key is the sequence of its parts. *)
ASSUME KeysAreSequences == \A key \in GraphKeys : key \in Seq(STRING) /\ Len(key) > 0

rcloneVars == <<configured, pc, fds, polled, child, holders, unread, pollFailed, result>>
ldapVars == <<settings, at, open, secure, bound, held, outcome>>
topKVars == <<plan, index, heap, position, current, delivered>>
partitionVars == <<asked, answered, answer>>
encryptionVars == <<provider, starts, iv, stored, writtenWith>>
mqVars == <<connection, connects, live, onWire, arrived, unreceived, messages, noise>>
maskVars == <<file, cursor, configs>>
smartVars == <<disjoint, localShard, satellites, vertices, edges, path, reached, refused>>

vars == <<active, rcloneVars, ldapVars, topKVars, partitionVars, encryptionVars, mqVars,
          maskVars, smartVars>>

Services ==
  {"rclone", "ldap", "topK", "partitioner", "encryption", "directMQ", "masking", "smartGraph"}

(* All initial values of a service that runs, one of a service that does not. *)
From(service, values) == IF active = service THEN values ELSE {CHOOSE v \in values : TRUE}

Init ==
  /\ active \in Services
  /\ settings \in From("ldap", LD!Configs)
  /\ plan \in From("topK", TK!Plans) /\ index \in From("topK", TK!Indexes)
  /\ asked \in From("partitioner", KP!PartitionCalls \cup KP!SampleCalls)
  /\ file \in From("masking", AM!Files)
  /\ disjoint \in From("smartGraph", BOOLEAN) /\ localShard \in From("smartGraph", {Hash[p] : p \in DOMAIN Hash})
  /\ RC!Init /\ LD!Init /\ TK!Init /\ KP!Init /\ EP!Init /\ MQ!Init /\ AM!Init /\ SG!Init

Next ==
  /\ UNCHANGED active
  /\ IF active = "rclone" THEN RC!Next ELSE UNCHANGED rcloneVars
  /\ IF active = "ldap" THEN LD!Next ELSE UNCHANGED ldapVars
  /\ IF active = "topK" THEN TK!Next ELSE UNCHANGED topKVars
  /\ IF active = "partitioner" THEN KP!Next ELSE UNCHANGED partitionVars
  /\ IF active = "encryption" THEN EP!Next ELSE UNCHANGED encryptionVars
  /\ IF active = "directMQ" THEN MQ!Next ELSE UNCHANGED mqVars
  /\ IF active = "masking" THEN AM!Next ELSE UNCHANGED maskVars
  /\ IF active = "smartGraph" THEN SG!Next ELSE UNCHANGED smartVars

(* RC!Fairness, which concerns nobody else. *)
Fairness ==
  \A c \in Calls :
    /\ WF_rcloneVars(active = "rclone" /\ RC!Continue(c))
    /\ WF_rcloneVars(active = "rclone" /\ RC!EndAfterClosing(c))

Spec == Init /\ [][Next]_vars /\ Fairness

-----------------------------------------------------------------------------
(* RCloneProcess: what a call that has returned leaves behind. *)
ReturnedCleanly == RC!ReturnedCleanly

(* RCloneProcess: why a call may time out. *)
TimeoutHasReason == RC!TimeoutHasReason

(* RCloneProcess: every upload is answered unless its child writes for ever. *)
UploadReturns == RC!UploadReturns

(* LDAPHandler: concurrent authentications on one handler. *)
RequestsIsolated == LD!RequestsIsolated

(* IResearchOptimizeTopK: skipping documents does not change the result. *)
TopKIsExact == TK!TopKIsExact

(* KeySpacePartitioner: no key is left out of the parallel scans. *)
EveryKeyCovered == KP!EveryKeyCovered

(* EncryptionProvider: pieces are read back across writes and restarts. *)
ReadsBack == EP!ReadsBack

(* DirectMQClient and DirectMQProtocol: connections and frames. *)
TransportIsSound == MQ!TransportIsSound

(* AttributeMasking: the rules that the file declares are applied. *)
MaskedAsDeclared == AM!MaskedAsDeclared

(* SmartGraphSchema and the sharding agree on where a traversal runs. *)
TraversalStaysLocal == SG!TraversalStaysLocal
=============================================================================
