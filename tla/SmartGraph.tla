------------------------------ MODULE SmartGraph ------------------------------
(***************************************************************************)
(* Smart graphs: SmartGraphSchema validates vertices and edges before they *)
(* are stored, the sharding strategies place them by the prefix of their   *)
(* key, SmartGraphProvider starts traversals on its local shard, and       *)
(* checkValidDisjointPath checks each vertex that a traversal reaches.     *)
(* SatelliteCollectionRegistry says which collections are exempt.          *)
(*                                                                         *)
(* A key is the sequence of its parts between the ':'.  The schema and the *)
(* sharding read a key without ':' differently.  The callers are outside   *)
(* the repository: they store what the schema accepts, an edge joins       *)
(* stored vertices, and the collections of a graph are sharded alike.      *)
(***************************************************************************)
EXTENDS Naturals, Sequences, SequencesExt, FiniteSets

CONSTANTS
  Collections,  \* names of the vertex collections
  Keys,         \* keys of vertices
  Attributes,   \* values of the smart graph attribute, <<"">> if it is empty
  Hash,         \* computeShardIndex of every first part of a key
  MaxVertices, MaxEdges, MaxSteps  \* bounds: stored documents, steps of a path

VARIABLES
  disjoint,     \* isDisjoint of the graph
  localShard,   \* the shard of each collection in _collectionToShard
  satellites,   \* SatelliteCollectionRegistry::_satellites
  vertices,     \* stored vertices; smart: validateDocument has accepted it
  edges,        \* stored edges; exempt: a satellite was involved
  path,         \* edges of the traversal in progress
  reached,      \* vertices of the traversal, in order
  refused       \* checkValidDisjointPath has refused a vertex of it

smartVars ==
  <<disjoint, localShard, satellites, vertices, edges, path, reached, refused>>

Init ==
  /\ disjoint \in BOOLEAN
  /\ localShard \in {Hash[p] : p \in DOMAIN Hash}
  /\ satellites = {} /\ vertices = {} /\ edges = {}
  /\ path = <<>> /\ reached = <<>> /\ refused = FALSE

(***************************************************************************)
(* Keys.                                                                   *)
(***************************************************************************)

\* SmartGraphSchema::extractSmartValue: empty without a ':'
SmartValue(key) == IF Len(key) = 1 THEN "" ELSE Head(key)

\* extractSmartPrefix of the sharding: the whole key without a ':'
SmartPrefix(key) == Head(key)

ShardOf(key) == Hash[SmartPrefix(key)]

\* buildSmartEdgeKey
EdgeKey(from, to) == <<SmartValue(from.key), SmartValue(to.key), "edge">>

(***************************************************************************)
(* SatelliteCollectionRegistry.                                            *)
(***************************************************************************)

RegisterSatellite(c) ==
  /\ satellites' = satellites \cup {c}
  /\ UNCHANGED <<disjoint, localShard, vertices, edges, path, reached, refused>>

UnregisterSatellite(c) ==
  /\ satellites' = satellites \ {c}
  /\ UNCHANGED <<disjoint, localShard, vertices, edges, path, reached, refused>>

(***************************************************************************)
(* SmartGraphSchema.                                                       *)
(***************************************************************************)

(* Mutated: a key without ':' may be the attribute value itself. *)
ValidWithoutColon(key, attribute) ==
  attribute # <<"">> /\ attribute = <<Head(key)>>

ValidDocument(key, attribute) ==
  /\ attribute # <<"">>
  /\ Len(key) > 1
  /\ attribute = <<Head(key)>>

\* Only the documents of satellite collections are stored unvalidated.
InsertVertex(c, key, attribute) ==
  /\ Cardinality(vertices) < MaxVertices
  /\ c \in satellites \/ ValidDocument(key, attribute)
  /\ \A v \in vertices : v.collection # c \/ v.key # key
  /\ vertices' = vertices \cup
       {[collection |-> c, key |-> key, smart |-> c \notin satellites]}
  /\ UNCHANGED <<disjoint, localShard, satellites, edges, path, reached, refused>>

SatelliteInvolved(from, to) == {from.collection, to.collection} \cap satellites # {}

ValidEdge(from, to) ==
  \/ ~disjoint
  \/ SatelliteInvolved(from, to)
  \/ SmartValue(from.key) = SmartValue(to.key)

InsertEdge(from, to) ==
  /\ Cardinality(edges) < MaxEdges
  /\ ValidEdge(from, to)
  /\ edges' = edges \cup
       {[from |-> from, to |-> to, key |-> EdgeKey(from, to),
         exempt |-> SatelliteInvolved(from, to)]}
  /\ UNCHANGED <<disjoint, localShard, satellites, vertices, path, reached, refused>>

(***************************************************************************)
(* A traversal.                                                            *)
(***************************************************************************)

Responsible(v) == ShardOf(v.key) = localShard

ValidDisjointPath(start, v) ==
  disjoint => SmartPrefix(start.key) = SmartPrefix(v.key)

StartVertex(v) ==
  /\ Responsible(v)
  /\ reached' = <<v>> /\ path' = <<>> /\ refused' = FALSE
  /\ UNCHANGED <<disjoint, localShard, satellites, vertices, edges>>

\* The traversal itself is outside the repository.
Step(e) ==
  /\ reached # <<>> /\ ~refused
  /\ Len(path) < MaxSteps
  /\ e.from = Last(reached)
  /\ path' = Append(path, e)
  /\ reached' = Append(reached, e.to)
  /\ refused' = ~ValidDisjointPath(Head(reached), e.to)
  /\ UNCHANGED <<disjoint, localShard, satellites, vertices, edges>>

Next ==
  \/ \E c \in Collections : RegisterSatellite(c) \/ UnregisterSatellite(c)
  \/ \E c \in Collections, k \in Keys, a \in Attributes : InsertVertex(c, k, a)
  \/ \E v, w \in vertices : InsertEdge(v, w)
  \/ \E v \in vertices : StartVertex(v)
  \/ \E e \in edges : Step(e)

Spec == Init /\ [][Next]_smartVars

\* A traversal of a disjoint graph in which no satellite is involved.
SmartTraversal ==
  /\ disjoint
  /\ \A v \in ToSet(reached) : v.smart
  /\ \A e \in ToSet(path) : ~e.exempt

(***************************************************************************)
(* In a disjoint graph a traversal over smart vertices, by edges that no   *)
(* satellite exempted, never trips checkValidDisjointPath, and all its     *)
(* vertices and edges are on the shard it started on: what validateEdge    *)
(* compares (extractSmartValue) and what sharding and path validation      *)
(* compare (extractSmartPrefix) agree on what validateDocument lets in.    *)
(***************************************************************************)
TraversalStaysLocal ==
  SmartTraversal =>
    /\ ~refused
    /\ \A v \in ToSet(reached) : Responsible(v)
    /\ \A e \in ToSet(path) : ShardOf(e.key) = localShard
=============================================================================
