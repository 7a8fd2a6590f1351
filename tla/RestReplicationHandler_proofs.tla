------------------- MODULE RestReplicationHandler_proofs -------------------
(***************************************************************************)
(* Proofs about the REST interface of replication, for any shards,         *)
(* handlers, page sizes and number of messages.                            *)
(***************************************************************************)
EXTENDS RestReplicationHandler, FiniteSetTheorems, WellFoundedInduction, TLAPS

(* The log is bounded and no position is beyond it. *)
PositionInLog ==
  /\ Len(log) <= MaxMessages
  /\ \A s \in Shards : sync[s].after <= Len(log)

(* Neither the tracker nor a checkpoint under way is ahead of the client. *)
ProgressWasDelivered ==
  /\ \A s \in Known : tracker[s].lastApplied <= sync[s].after
  /\ \A r \in Requests :
       request[r].at = "checkpoint" =>
         request[r].appliedSequence <= sync[request[r].shard].after

IInv == TypeOK /\ PositionInLog /\ DeliveredOnceInOrder /\ ProgressWasDelivered

-----------------------------------------------------------------------------
(* The first n numbers of a set leave out only larger ones. *)
LEMMA FirstOfIsClosed ==
  ASSUME NEW C \in SUBSET Nat, IsFiniteSet(C), NEW k \in Nat,
         NEW i \in FirstOf(C, k), NEW j \in C, j < i
  PROVE  j \in FirstOf(C, k)
<1> DEFINE belowI == {y \in C : y < i}
           belowJ == {y \in C : y < j}
<1>1. belowI \in SUBSET C /\ belowJ \in SUBSET belowI
  <2>1. i \in Nat /\ \A y \in C : y \in Nat
    BY DEF FirstOf
  <2>2. j \in Nat /\ \A y \in C : y < j => y < i
    BY <2>1
  <2> QED
    BY <2>2
<1>2. Cardinality(belowI) < k
  BY DEF FirstOf
<1>3. Cardinality(belowJ) < k
  <2> HIDE DEF belowI, belowJ
  <2>1. IsFiniteSet(belowI)
    BY <1>1, FS_Subset
  <2>2. IsFiniteSet(belowJ) /\ Cardinality(belowJ) <= Cardinality(belowI)
    BY <1>1, <2>1, FS_Subset
  <2>3. Cardinality(belowI) \in Nat /\ Cardinality(belowJ) \in Nat
    BY <2>1, <2>2, FS_CardinalityType
  <2> QED
    BY <1>2, <2>2, <2>3
<1> QED
  BY <1>3 DEF FirstOf

(* Every nonempty set of natural numbers has a least element.              *)
LEMMA LeastOf ==
  ASSUME NEW S \in SUBSET Nat, S # {}
  PROVE  \E n \in S : \A m \in S : n <= m
<1>1. PICK n \in S : \A m \in S : ~(<<m, n>> \in OpToRel(<, Nat))
  BY NatLessThanWellFounded, WFMin
<1>2. \A m \in S : ~(m < n)
  BY <1>1 DEF OpToRel
<1> QED
  BY <1>2

(* A bounded one also has a greatest.                                      *)
LEMMA GreatestOf ==
  ASSUME NEW S \in SUBSET Nat, S # {}, NEW bound \in Nat, \A m \in S : m <= bound
  PROVE  \E n \in S : \A m \in S : m <= n
<1> DEFINE Above == {n \in Nat : \A m \in S : m <= n}
<1>1. Above \in SUBSET Nat /\ Above # {}
  OBVIOUS
<1>2. PICK n \in Above : \A u \in Above : n <= u
  BY <1>1, LeastOf
<1>3. SUFFICES ASSUME n \notin S
               PROVE  FALSE
  BY <1>2
<1>4. \A m \in S : m < n
  BY <1>2, <1>3
<1>5. n - 1 \in Nat
  <2>1. PICK m \in S : TRUE
    OBVIOUS
  <2>2. m \in Nat /\ n \in Nat /\ m < n
    BY <1>2, <1>4, <2>1
  <2> QED
    BY <2>2
<1>6. n - 1 \in Above
  BY <1>4, <1>5
<1> QED
  BY <1>2, <1>5, <1>6

(* The first k numbers are k, unless the set has fewer and they are all.   *)
LEMMA FirstOfIsFull ==
  ASSUME NEW C \in SUBSET Nat, IsFiniteSet(C), NEW k \in Nat, FirstOf(C, k) # C
  PROVE  Cardinality(FirstOf(C, k)) >= k
<1> DEFINE rest == C \ FirstOf(C, k)
<1>1. FirstOf(C, k) \in SUBSET C /\ rest # {} /\ rest \in SUBSET Nat
  BY DEF FirstOf
<1>2. PICK m \in rest : \A n \in rest : m <= n
  BY <1>1, LeastOf
<1> DEFINE below == {j \in C : j < m}
<1>3. below \in SUBSET FirstOf(C, k)
  <2> SUFFICES ASSUME NEW j \in C, j < m
               PROVE  j \in FirstOf(C, k)
    OBVIOUS
  <2>1. j \in Nat /\ m \in Nat
    BY <1>1
  <2> QED
    BY <1>2, <2>1
<1>4. ~(Cardinality(below) < k)
  BY DEF FirstOf
<1> HIDE DEF below
<1>5. IsFiniteSet(FirstOf(C, k))
  BY <1>1, FS_Subset
<1>6. IsFiniteSet(below) /\ Cardinality(below) <= Cardinality(FirstOf(C, k))
  BY <1>3, <1>5, FS_Subset
<1>7. Cardinality(below) \in Nat /\ Cardinality(FirstOf(C, k)) \in Nat
  BY <1>5, <1>6, FS_CardinalityType
<1> QED
  BY <1>4, <1>6, <1>7

(* A set that is its own first k numbers has no more than k.               *)
LEMMA FirstOfIsBounded ==
  ASSUME NEW C \in SUBSET Nat, NEW bound \in Nat, \A n \in C : n <= bound,
         NEW k \in Nat, FirstOf(C, k) = C
  PROVE  Cardinality(C) <= k
<1>1. CASE C = {}
  BY <1>1, FS_EmptySet
<1>2. CASE C # {}
  <2>1. PICK m \in C : \A n \in C : n <= m
    BY <1>2, GreatestOf
  <2> DEFINE below == {j \in C : j < m}
  <2>2. below = C \ {m}
    <3>1. m \in Nat /\ \A j \in C : j \in Nat /\ j <= m
      BY <2>1
    <3>2. \A j \in C : j < m <=> j # m
      BY <3>1
    <3> QED
      BY <3>2
  <2>3. Cardinality(below) < k
    BY DEF FirstOf
  <2> HIDE DEF below
  <2>4. IsFiniteSet(C)
    BY FS_BoundedSetOfNaturals
  <2>5. Cardinality(below) = Cardinality(C) - 1
    BY <2>2, <2>4, FS_RemoveElement
  <2>6. Cardinality(C) \in Nat
    BY <2>4, FS_CardinalityType
  <2> QED
    BY <2>3, <2>5, <2>6
<1> QED
  BY <1>1, <1>2

(* A fetch brings more than a page exactly if the page leaves a message of *)
(* the shard out.                                                          *)
LEMMA MoreThanAPage ==
  ASSUME NEW C \in SUBSET Nat, NEW bound \in Nat, \A n \in C : n <= bound,
         NEW max \in Nat
  PROVE  LET messages == FirstOf(C, max + 1)
             page == FirstOf(messages, max)
         IN  Cardinality(messages) > max <=> page # C
<1> DEFINE messages == FirstOf(C, max + 1)
           page == FirstOf(messages, max)
<1>1. messages \in SUBSET C /\ page \in SUBSET messages
  BY DEF FirstOf
<1>2. IsFiniteSet(C)
  BY FS_BoundedSetOfNaturals
<1>3. IsFiniteSet(messages) /\ IsFiniteSet(page) /\ messages \in SUBSET Nat
  BY <1>1, <1>2, FS_Subset
<1>4. Cardinality(messages) \in Nat /\ Cardinality(page) \in Nat
  BY <1>3, FS_CardinalityType
<1>5. CASE page = C
  <2>1. messages = C /\ FirstOf(C, max) = C
    BY <1>1, <1>5
  <2>2. Cardinality(C) <= max
    BY <2>1, FirstOfIsBounded
  <2> QED
    BY <1>4, <1>5, <2>1, <2>2
<1>6. CASE messages # C
  <2>1. Cardinality(messages) >= max + 1
    BY <1>2, <1>6, FirstOfIsFull
  <2>2. page # C
    BY <1>1, <1>6
  <2> HIDE DEF messages, page
  <2>3. Cardinality(messages) > max
    BY <1>4, <2>1
  <2> QED
    BY <2>2, <2>3 DEF messages, page
<1>7. CASE page # C /\ messages = C
  <2>1. page # messages
    BY <1>7
  <2> HIDE DEF messages
  <2>2. Cardinality(page) >= max
    BY <1>3, <2>1, FirstOfIsFull
  <2> HIDE DEF page
  <2>3. Cardinality(page) <= Cardinality(messages) /\ Cardinality(page) # Cardinality(messages)
    BY <1>1, <1>3, <2>1, FS_Subset
  <2>4. Cardinality(messages) > max
    BY <1>4, <2>2, <2>3
  <2> QED
    BY <1>7, <2>4 DEF messages, page
<1> QED
  BY <1>5, <1>6, <1>7

LEMMA MaxCountType ==
  ASSUME NEW count \in Counts
  PROVE  MaxCount(count) \in Nat
BY FeedAssumption DEF MaxCount

(* What a page holds, and that nothing of the shard is skipped below its   *)
(* last message.                                                           *)
LEMMA PageIsNext ==
  ASSUME IInv, NEW s \in Shards, NEW max \in Nat
  PROVE  LET after == sync[s].after
             messages == Fetched(s, after, max)
             page == FirstOf(messages, max)
         IN /\ page \subseteq {n \in 1..Len(log) : log[n] = s /\ n > after}
            /\ \A i \in page : \A n \in 1..Len(log) :
                 log[n] = s /\ n > after /\ n < i => n \in page
<1> DEFINE after == sync[s].after
           C == {n \in 1..Len(log) : log[n] = s /\ n > after}
           messages == FirstOf(C, max + 1)
           page == FirstOf(messages, max)
<1>1. log \in Seq(Shards) /\ Len(log) \in Nat /\ DOMAIN log = 1..Len(log)
  BY DEF IInv, TypeOK
<1>2. Fetched(s, after, max) = messages
  BY <1>1 DEF Fetched, NextBatch
<1>3. IsFiniteSet(1..Len(log))
  BY <1>1, FS_Interval
<1>4. C \in SUBSET Nat /\ IsFiniteSet(C)
  BY <1>1, <1>3, FS_Subset
<1>5. messages \subseteq C /\ page \subseteq messages
  BY DEF FirstOf
<1>6. messages \in SUBSET Nat /\ IsFiniteSet(messages)
  BY <1>4, <1>5, FS_Subset
<1>7. ASSUME NEW i \in page, NEW n \in C, n < i
      PROVE  n \in page
  <2>1. max + 1 \in Nat /\ i \in messages
    BY <1>5
  <2>2. n \in messages
    BY <1>4, <1>7, <2>1, FirstOfIsClosed
  <2> QED
    BY <1>6, <1>7, <2>2, FirstOfIsClosed
<1> QED
  BY <1>2, <1>5, <1>7

-----------------------------------------------------------------------------
LEMMA StatesAreRequests ==
  /\ [at |-> "idle"] \in Request
  /\ [at |-> "reset"] \in Request
  /\ \A want \in BOOLEAN : [at |-> "switch", want |-> want] \in Request
BY DEF Request

LEMMA Initially == Init => IInv
<1> SUFFICES ASSUME Init PROVE IInv
  OBVIOUS
<1>1. /\ log = <<>> /\ Len(log) = 0
      /\ Known = {} /\ tracker \in [{} -> [lastGenerated : Nat, lastApplied : Nat]]
  BY DEF Init, Known
<1>2. \A s \in Shards :
        /\ sync[s] \in Client
        /\ sync[s].after = 0
        /\ \A n \in Numbers : sync[s].got[n] = 0
  BY DEF Init, Client
<1>3. sync \in [Shards -> Client]
  <2>1. \A s \in Shards : sync[s] \in Client
    BY <1>2
  <2> QED
    BY <2>1 DEF Init
<1>4. request \in [Requests -> Request]
  BY StatesAreRequests DEF Init
<1>5. TypeOK
  <2>1. log \in Seq(Shards)
    BY <1>1
  <2>3. running \in BOOLEAN
    BY DEF Init
  <2>2. Known \subseteq Shards /\ tracker \in [Known -> [lastGenerated : Nat, lastApplied : Nat]]
    BY <1>1
  <2> QED
    BY <1>3, <1>4, <2>1, <2>2, <2>3 DEF TypeOK
<1>6. PositionInLog
  BY <1>1, <1>2, FeedAssumption DEF PositionInLog
<1>7. DeliveredOnceInOrder
  BY <1>1, <1>2 DEF DeliveredOnceInOrder, Numbers
<1>8. ProgressWasDelivered
  BY <1>1 DEF Init, ProgressWasDelivered
<1> QED
  BY <1>5, <1>6, <1>7, <1>8 DEF IInv

LEMMA GenerateKeeps ==
  ASSUME IInv, NEW s \in Shards, Generate(s)
  PROVE  IInv'
<1> USE DEF Generate
<1>1. /\ log \in Seq(Shards) /\ Len(log) \in Nat /\ Len(log') = Len(log) + 1
      /\ log' \in Seq(Shards) /\ DOMAIN log = 1..Len(log) /\ DOMAIN log' = 1..Len(log')
      /\ \A n \in 1..Len(log) : log'[n] = log[n]
  BY DEF IInv, TypeOK
<1>2. Known' = Known \cup {s}
  BY DEF Known
<1>3. GetState(s) \in [lastGenerated : Nat, lastApplied : Nat]
  BY DEF IInv, TypeOK, GetState, Unknown, Client
<1>4. \A t \in Known' : /\ tracker'[t] \in [lastGenerated : Nat, lastApplied : Nat]
                        /\ tracker'[t].lastApplied = GetState(t).lastApplied
  <2>1. \A t \in Known' : tracker'[t] =
          IF t = s THEN [GetState(s) EXCEPT !.lastGenerated = Len(log')] ELSE tracker[t]
    BY <1>2
  <2>2. \A t \in Known : /\ tracker[t] \in [lastGenerated : Nat, lastApplied : Nat]
                         /\ GetState(t) = tracker[t]
    BY DEF IInv, TypeOK, GetState
  <2>3. /\ tracker'[s] \in [lastGenerated : Nat, lastApplied : Nat]
        /\ tracker'[s].lastApplied = GetState(s).lastApplied
    BY <1>1, <1>2, <1>3, <2>1
  <2> QED
    BY <1>2, <2>1, <2>2, <2>3
<1>5. TypeOK'
  BY <1>1, <1>2, <1>4 DEF IInv, TypeOK, Known, Client
<1>6. PositionInLog'
  BY <1>1, FeedAssumption DEF IInv, TypeOK, PositionInLog, Client
<1>7. DeliveredOnceInOrder'
  BY <1>1 DEF IInv, TypeOK, PositionInLog, DeliveredOnceInOrder, Numbers, Client
<1>8. \A t \in Known' : tracker'[t].lastApplied <= sync'[t].after
  <2>1. \A t \in Shards : sync[t].after \in Nat /\ sync' = sync
    BY DEF IInv, TypeOK, Client
  <2>2. \A t \in Known' : t \in Shards /\ GetState(t).lastApplied <= sync[t].after
    BY <1>2, <2>1 DEF IInv, TypeOK, ProgressWasDelivered, GetState, Unknown
  <2> QED
    BY <1>4, <2>1, <2>2
<1>9. ProgressWasDelivered'
  BY <1>8 DEF IInv, ProgressWasDelivered
<1> QED
  BY <1>5, <1>6, <1>7, <1>9 DEF IInv

LEMMA FeedKeeps ==
  ASSUME IInv, NEW s \in Shards, Feed(s)
  PROVE  IInv'
<1> DEFINE after == sync[s].after
           max == MaxCount(sync[s].maxCount)
           messages == Fetched(s, after, max)
           page == FirstOf(messages, max)
<1>1. max \in Nat /\ after \in Nat
  BY MaxCountType DEF IInv, TypeOK, Client
<1>2. /\ page \subseteq {n \in 1..Len(log) : log[n] = s /\ n > after}
      /\ \A i \in page : \A n \in 1..Len(log) :
           log[n] = s /\ n > after /\ n < i => n \in page
  BY <1>1, PageIsNext
<1>3. PICK last \in page \cup {after} :
        /\ \A j \in page : j <= last
        /\ sync' = [sync EXCEPT
             ![s].after = last,
             ![s].hasMore = Cardinality(messages) > max,
             ![s].got = [n \in Numbers |-> IF n \in page THEN @[n] + 1 ELSE @[n]]]
  BY DEF Feed, LastSequence
<1>4. UNCHANGED <<log, running, tracker, request>>
  BY DEF Feed
<1>5. /\ log \in Seq(Shards) /\ Len(log) \in Nat /\ DOMAIN log = 1..Len(log)
      /\ after <= Len(log) /\ Len(log) <= MaxMessages /\ MaxMessages \in Nat
  BY FeedAssumption DEF IInv, TypeOK, PositionInLog
<1>6. last \in Nat /\ after <= last /\ last <= Len(log)
  BY <1>1, <1>2, <1>3, <1>5
<1>7. sync'[s].after = last
  BY <1>3 DEF IInv, TypeOK
<1>8. \A n \in Numbers : sync'[s].got[n] =
        IF n \in page THEN sync[s].got[n] + 1 ELSE sync[s].got[n]
  BY <1>3 DEF IInv, TypeOK
<1>9. \A t \in Shards \ {s} : sync'[t] = sync[t]
  BY <1>3 DEF IInv, TypeOK
<1>10. TypeOK'
  <2>1. [n \in Numbers |-> IF n \in page THEN sync[s].got[n] + 1 ELSE sync[s].got[n]]
          \in [Numbers -> Nat]
    BY DEF IInv, TypeOK, Client
  <2>2. (Cardinality(messages) > max) \in BOOLEAN
    OBVIOUS
  <2> HIDE DEF messages, page, max
  <2> QED
    BY <1>3, <1>4, <1>6, <2>1, <2>2 DEF IInv, TypeOK, Known, Client
<1>11. PositionInLog'
  BY <1>4, <1>5, <1>6, <1>7, <1>9 DEF IInv, PositionInLog
<1>12. \A n \in Numbers :
         sync'[s].got[n] = IF n <= last /\ n \in DOMAIN log /\ log[n] = s THEN 1 ELSE 0
  <2> HIDE DEF page
  <2> SUFFICES ASSUME NEW n \in Numbers
               PROVE  sync'[s].got[n] =
                        IF n <= last /\ n \in DOMAIN log /\ log[n] = s THEN 1 ELSE 0
    OBVIOUS
  <2>1. n \in Nat /\ sync[s].got[n] =
          IF n <= after /\ n \in DOMAIN log /\ log[n] = s THEN 1 ELSE 0
    BY DEF IInv, DeliveredOnceInOrder, Numbers
  <2>2. CASE n <= after
    <3>1. n \notin page /\ n <= last
      BY <1>1, <1>2, <1>6, <2>1, <2>2
    <3> QED
      BY <1>8, <2>1, <2>2, <3>1
  <2>3. CASE n > after /\ n \in page
    <3>1. n \in DOMAIN log /\ log[n] = s /\ n <= last
      BY <1>2, <1>3, <1>5, <2>3
    <3>2. sync[s].got[n] = 0
      BY <1>1, <2>1, <2>3
    <3> QED
      BY <1>8, <2>3, <3>1, <3>2
  <2>4. CASE n > after /\ n \notin page
    <3>1. ~(n <= last /\ n \in DOMAIN log /\ log[n] = s)
      BY <1>1, <1>2, <1>3, <1>5, <1>6, <2>1, <2>4
    <3> QED
      BY <1>1, <1>8, <2>1, <2>4, <3>1
  <2> QED
    BY <1>1, <2>1, <2>2, <2>3, <2>4
<1>13. DeliveredOnceInOrder'
  <2>1. \A t \in Shards \ {s} : \A n \in Numbers : sync'[t].got[n] =
          IF n <= sync'[t].after /\ n \in DOMAIN log' /\ log'[n] = t THEN 1 ELSE 0
    BY <1>4, <1>9 DEF IInv, DeliveredOnceInOrder
  <2>2. \A n \in Numbers : sync'[s].got[n] =
          IF n <= sync'[s].after /\ n \in DOMAIN log' /\ log'[n] = s THEN 1 ELSE 0
    BY <1>4, <1>7, <1>12
  <2> QED
    BY <2>1, <2>2 DEF DeliveredOnceInOrder, Numbers
<1>14. \A t \in Shards : /\ sync[t].after \in Nat /\ sync'[t].after \in Nat
                         /\ sync[t].after <= sync'[t].after
  <2>1. \A t \in Shards : sync[t].after \in Nat
    BY DEF IInv, TypeOK, Client
  <2> HIDE DEF page
  <2> QED
    BY <1>1, <1>6, <1>7, <1>9, <2>1
<1>15. ProgressWasDelivered'
  <2>1. \A t \in Known : tracker[t].lastApplied \in Nat /\ t \in Shards
    BY DEF IInv, TypeOK, Client
  <2>2. \A r \in Requests : request[r].at = "checkpoint" =>
          request[r].appliedSequence \in Nat /\ request[r].shard \in Shards
    BY DEF IInv, TypeOK, Request
  <2> QED
    BY <1>4, <1>14, <2>1, <2>2 DEF IInv, ProgressWasDelivered, Known
<1> QED
  BY <1>10, <1>11, <1>13, <1>15 DEF IInv
LEMMA HandlerKeeps ==
  ASSUME IInv, NEW r \in Requests, NEW state \in Request, NEW from,
         Goes(r, from, state), UNCHANGED <<log, tracker, sync>>, running' \in BOOLEAN,
         state.at = "checkpoint" => state.appliedSequence <= sync[state.shard].after
  PROVE  IInv'
<1>1. request' = [request EXCEPT ![r] = state] /\ request' \in [Requests -> Request]
  BY DEF Goes, IInv, TypeOK
<1>2. TypeOK'
  BY <1>1 DEF IInv, TypeOK, Known
<1>3. PositionInLog' /\ DeliveredOnceInOrder'
  BY DEF IInv, PositionInLog, DeliveredOnceInOrder
<1>4. ProgressWasDelivered'
  BY <1>1 DEF IInv, TypeOK, ProgressWasDelivered, Known
<1> QED
  BY <1>2, <1>3, <1>4 DEF IInv

LEMMA BeginCheckpointKeeps ==
  ASSUME IInv, NEW r \in Requests, NEW s \in Shards, NEW n \in Numbers \cup {0},
         ExecuteCheckpoint(r, s, n)
  PROVE  IInv'
<1> DEFINE state == [at |-> "checkpoint", shard |-> s,
                     appliedSequence |-> n, state |-> GetState(s)]
<1>1. n \in Nat /\ GetState(s) \in [lastGenerated : Nat, lastApplied : Nat]
  BY DEF IInv, TypeOK, GetState, Unknown, Numbers
<1>2. state \in Request
  BY <1>1 DEF Request
<1>3. UNCHANGED <<log, tracker, sync>> /\ running' \in BOOLEAN /\ n <= sync[s].after
  BY DEF ExecuteCheckpoint, IInv, TypeOK
<1>4. CASE Answer(r, "idle")
  BY <1>3, <1>4, StatesAreRequests, HandlerKeeps DEF Answer
<1>5. CASE Goes(r, "idle", state)
  <2>1. state.at = "checkpoint" => state.appliedSequence <= sync[state.shard].after
    BY <1>3
  <2> QED
    BY <1>2, <1>3, <1>5, <2>1, HandlerKeeps
<1> QED
  BY <1>4, <1>5 DEF ExecuteCheckpoint

LEMMA AcceptKeeps ==
  ASSUME IInv, NEW r \in Requests, AcceptCheckpoint(r)
  PROVE  IInv'
<1> DEFINE s == request[r].shard
           applied == request[r].appliedSequence
<1>1. /\ request[r].at = "checkpoint"
      /\ request' = [request EXCEPT ![r] = [at |-> "idle"]]
      /\ tracker' = IF s \in Known THEN [tracker EXCEPT ![s].lastApplied = applied] ELSE tracker
      /\ UNCHANGED <<log, running, sync>>
  BY DEF AcceptCheckpoint, Answer, Goes, UpdateApplied
<1>2. s \in Shards /\ applied \in Nat /\ applied <= sync[s].after
  BY <1>1 DEF IInv, TypeOK, Request, ProgressWasDelivered
<1>3. Known' = Known
  BY <1>1 DEF Known
<1>4. request' \in [Requests -> Request]
  BY <1>1, StatesAreRequests DEF IInv, TypeOK
<1>5. tracker' \in [Known -> [lastGenerated : Nat, lastApplied : Nat]]
  BY <1>1, <1>2 DEF IInv, TypeOK
<1>6. TypeOK'
  BY <1>1, <1>3, <1>4, <1>5 DEF IInv, TypeOK
<1>7. PositionInLog' /\ DeliveredOnceInOrder'
  BY <1>1 DEF IInv, PositionInLog, DeliveredOnceInOrder
<1>8. \A t \in Known : tracker'[t].lastApplied <= sync[t].after
  BY <1>1, <1>2 DEF IInv, TypeOK, ProgressWasDelivered
<1>9. ProgressWasDelivered'
  <2>1. \A q \in Requests : request'[q].at = "checkpoint" => request'[q] = request[q]
    BY <1>1 DEF IInv, TypeOK
  <2> QED
    BY <1>1, <1>3, <1>8, <2>1 DEF IInv, ProgressWasDelivered
<1> QED
  BY <1>6, <1>7, <1>9 DEF IInv

LEMMA ResetKeeps ==
  ASSUME IInv, NEW r \in Requests, ResetAll(r)
  PROVE  IInv'
<1>1. /\ request' = [request EXCEPT ![r] = [at |-> "idle"]]
      /\ Known' = {} /\ tracker' \in [{} -> [lastGenerated : Nat, lastApplied : Nat]]
      /\ UNCHANGED <<log, running, sync>>
  BY DEF ResetAll, Answer, Goes, Known
<1>2. request' \in [Requests -> Request]
  BY <1>1, StatesAreRequests DEF IInv, TypeOK
<1>3. TypeOK'
  BY <1>1, <1>2 DEF IInv, TypeOK
<1>4. PositionInLog' /\ DeliveredOnceInOrder'
  BY <1>1 DEF IInv, PositionInLog, DeliveredOnceInOrder
<1>5. ProgressWasDelivered'
  BY <1>1 DEF IInv, TypeOK, ProgressWasDelivered, Client
<1> QED
  BY <1>3, <1>4, <1>5 DEF IInv

LEMMA StepKeeps == IInv /\ [Next]_vars => IInv'
<1> SUFFICES ASSUME IInv, [Next]_vars
             PROVE  IInv'
  OBVIOUS
<1>1. ASSUME NEW s \in Shards, Generate(s)
      PROVE  IInv'
  BY <1>1, GenerateKeeps
<1>2. ASSUME NEW s \in Shards, Feed(s)
      PROVE  IInv'
  BY <1>2, FeedKeeps
<1>3. ASSUME NEW r \in Requests, NEW want \in BOOLEAN, ExecuteSwitch(r, want)
      PROVE  IInv'
  <2>1. UNCHANGED <<log, tracker, sync>> /\ running' \in BOOLEAN
    BY <1>3 DEF ExecuteSwitch, IInv, TypeOK
  <2>2. Answer(r, "idle") \/ Goes(r, "idle", [at |-> "switch", want |-> want])
    BY <1>3 DEF ExecuteSwitch
  <2> QED
    BY <2>1, <2>2, StatesAreRequests, HandlerKeeps DEF Answer
<1>4. ASSUME NEW r \in Requests, ExecuteReset(r)
      PROVE  IInv'
  <2>1. /\ UNCHANGED <<log, tracker, sync>> /\ running' \in BOOLEAN
        /\ Goes(r, "idle", [at |-> "reset"])
    BY <1>4 DEF ExecuteReset, IInv, TypeOK
  <2> QED
    BY <2>1, StatesAreRequests, HandlerKeeps
<1>5. ASSUME NEW r \in Requests, NEW s \in Shards, NEW n \in Numbers \cup {0},
             ExecuteCheckpoint(r, s, n)
      PROVE  IInv'
  BY <1>5, BeginCheckpointKeeps
<1>6. ASSUME NEW r \in Requests, Switch(r)
      PROVE  IInv'
  <2>1. /\ UNCHANGED <<log, tracker, sync>> /\ running' \in BOOLEAN
        /\ Goes(r, "switch", [at |-> "idle"])
    BY <1>6 DEF Switch, Answer, Goes, IInv, TypeOK, Request
  <2> QED
    BY <2>1, StatesAreRequests, HandlerKeeps
<1>7. ASSUME NEW r \in Requests, ResetAll(r)
      PROVE  IInv'
  BY <1>7, ResetKeeps
<1>8. ASSUME NEW r \in Requests, RejectCheckpoint(r)
      PROVE  IInv'
  <2>1. /\ UNCHANGED <<log, tracker, sync>> /\ running' \in BOOLEAN
        /\ Goes(r, "checkpoint", [at |-> "idle"])
    BY <1>8 DEF RejectCheckpoint, Answer, IInv, TypeOK
  <2> QED
    BY <2>1, StatesAreRequests, HandlerKeeps
<1>9. ASSUME NEW r \in Requests, AcceptCheckpoint(r)
      PROVE  IInv'
  BY <1>9, AcceptKeeps
<1>10. CASE UNCHANGED vars
  BY <1>10 DEF vars, IInv, TypeOK, PositionInLog, DeliveredOnceInOrder,
               ProgressWasDelivered, Known
<1> QED
  BY <1>1, <1>2, <1>3, <1>4, <1>5, <1>6, <1>7, <1>8, <1>9, <1>10 DEF Next, Continue

(* The inductive invariant holds in every reachable state. *)
THEOREM Inductive == Spec => []IInv
<1>1. Init => IInv
  BY Initially
<1>2. IInv /\ [Next]_vars => IInv'
  BY StepKeeps
<1> QED
  BY <1>1, <1>2, PTL DEF Spec

-----------------------------------------------------------------------------
(* Every state of the handlers, of the tracker and of the client is well   *)
(* typed.                                                                  *)
THEOREM TypeCorrect == Spec => []TypeOK
<1>1. IInv => TypeOK
  BY DEF IInv
<1> QED
  BY <1>1, Inductive, PTL

(* A client that pages through the feed gets each message once and skips   *)
(* none, for any page size and any messages generated between its pages.   *)
THEOREM PagesAreComplete == Spec => []DeliveredOnceInOrder
<1>1. IInv => DeliveredOnceInOrder
  BY DEF IInv
<1> QED
  BY <1>1, Inductive, PTL

(* The tracker's progress covers only delivered messages, for any handlers *)
(* that overlap.                                                           *)
THEOREM ProgressIsDelivered == Spec => []AppliedWasDelivered
<1>1. ASSUME IInv
      PROVE  AppliedWasDelivered
  <2> SUFFICES ASSUME NEW s \in Known, NEW n \in DOMAIN log, log[n] = s,
                      n <= tracker[s].lastApplied
               PROVE  sync[s].got[n] = 1
    BY DEF AppliedWasDelivered
  <2>1. /\ s \in Shards /\ tracker[s].lastApplied \in Nat /\ sync[s].after \in Nat
        /\ tracker[s].lastApplied <= sync[s].after
    BY <1>1 DEF IInv, TypeOK, ProgressWasDelivered, Client
  <2>2. n \in Numbers
    BY <1>1, FeedAssumption DEF IInv, TypeOK, PositionInLog, Numbers
  <2>3. n <= sync[s].after
    BY <2>1, <2>2 DEF Numbers
  <2> QED
    BY <1>1, <2>1, <2>2, <2>3 DEF IInv, DeliveredOnceInOrder
<1> QED
  BY <1>1, Inductive, PTL

(* lastApplied goes back only by a checkpoint whose view of the shard was  *)
(* out of date.                                                            *)
THEOREM RewindIsStale == Spec => RewindNeedsStaleRead
<1> DEFINE Step ==
      \A s \in Known \cap DOMAIN tracker' :
        tracker'[s].lastApplied < tracker[s].lastApplied =>
          \E r \in Requests :
            /\ request[r].at = "checkpoint"
            /\ request[r].shard = s
            /\ request[r].state.lastApplied # tracker[s].lastApplied
<1>1. ASSUME TypeOK, [Next]_vars
      PROVE  Step
  <2> SUFFICES ASSUME NEW s \in Known, s \in DOMAIN tracker',
                      tracker'[s].lastApplied < tracker[s].lastApplied
               PROVE  \E r \in Requests :
                        /\ request[r].at = "checkpoint"
                        /\ request[r].shard = s
                        /\ request[r].state.lastApplied # tracker[s].lastApplied
    OBVIOUS
  <2>1. tracker[s] \in [lastGenerated : Nat, lastApplied : Nat]
    BY <1>1 DEF TypeOK
  <2>2. ~ UNCHANGED tracker
    BY <2>1
  <2>3. ASSUME NEW t \in Shards, Generate(t)
        PROVE  FALSE
    <3>1. tracker'[s] = IF s = t THEN [GetState(t) EXCEPT !.lastGenerated = Len(log')]
                                 ELSE tracker[s]
      BY <2>3 DEF Generate
    <3>2. tracker'[s].lastApplied = tracker[s].lastApplied
      BY <2>1, <3>1 DEF GetState
    <3> QED
      BY <2>1, <3>2
  <2>4. ASSUME NEW r \in Requests, ResetAll(r)
        PROVE  FALSE
    BY <2>4 DEF ResetAll
  <2>5. PICK r \in Requests : AcceptCheckpoint(r)
    BY <1>1, <2>2, <2>3, <2>4 DEF Next, Continue, Feed, ExecuteSwitch, ExecuteReset,
       ExecuteCheckpoint, Switch, RejectCheckpoint, vars
  <2>6. /\ request[r].at = "checkpoint"
        /\ request[r].state.lastApplied < request[r].appliedSequence
        /\ tracker' = IF request[r].shard \in Known
                      THEN [tracker EXCEPT ![request[r].shard].lastApplied =
                                             request[r].appliedSequence]
                      ELSE tracker
    BY <2>5 DEF AcceptCheckpoint, Valid, UpdateApplied
  <2>7. /\ request[r].state.lastApplied \in Nat /\ request[r].appliedSequence \in Nat
        /\ request[r].shard \in Shards
    BY <1>1, <2>6 DEF TypeOK, Request
  <2>8. request[r].shard = s
    BY <1>1, <2>1, <2>2, <2>6 DEF TypeOK, Known
  <2>9. tracker'[s].lastApplied = request[r].appliedSequence
    BY <1>1, <2>6, <2>8 DEF TypeOK, Known
  <2> QED
    BY <2>1, <2>6, <2>7, <2>8, <2>9
<1>2. TypeOK /\ [Next]_vars => [Step]_vars
  BY <1>1
<1> QED
  BY <1>2, TypeCorrect, PTL DEF Spec, RewindNeedsStaleRead

(* A page's hasMore is true exactly if messages of the shard remain.       *)
LEMMA FeedTellsMore ==
  ASSUME IInv, NEW s \in Shards, Feed(s)
  PROVE  sync'[s].hasMore <=> \E n \in DOMAIN log : log[n] = s /\ sync'[s].got[n] = 0
<1> DEFINE after == sync[s].after
           max == MaxCount(sync[s].maxCount)
           C == {n \in DOMAIN log : log[n] = s /\ n > after}
           messages == FirstOf(C, max + 1)
           page == FirstOf(messages, max)
<1>1. max \in Nat /\ after \in Nat
  BY MaxCountType DEF IInv, TypeOK, Client
<1>2. Fetched(s, after, max) = messages
  BY DEF Fetched, NextBatch
<1>3. PICK last : sync' = [sync EXCEPT
             ![s].after = last,
             ![s].hasMore = Cardinality(messages) > max,
             ![s].got = [n \in Numbers |-> IF n \in page THEN @[n] + 1 ELSE @[n]]]
  BY <1>2 DEF Feed
<1>4. DOMAIN log = 1..Len(log) /\ Len(log) \in Nat /\ DOMAIN log \subseteq Numbers
  BY FeedAssumption DEF IInv, TypeOK, PositionInLog, Numbers
<1>5. Cardinality(messages) > max <=> page # C
  <2>1. C \in SUBSET Nat /\ \A n \in C : n <= Len(log)
    BY <1>4
  <2> HIDE DEF C, max
  <2> QED
    BY <1>1, <1>4, <2>1, MoreThanAPage
<1>6. page \subseteq C
  BY DEF FirstOf
<1> HIDE DEF messages, page, max
<1>7. sync'[s].hasMore <=> page # C
  <2>1. sync'[s].hasMore = (Cardinality(messages) > max)
    BY <1>3 DEF IInv, TypeOK, Client
  <2> QED
    BY <1>5, <2>1
<1>8. \A n \in Numbers : sync'[s].got[n] =
        IF n \in page THEN sync[s].got[n] + 1 ELSE sync[s].got[n]
  BY <1>3 DEF IInv, TypeOK
<1>9. ASSUME NEW n \in DOMAIN log, log[n] = s
      PROVE  sync'[s].got[n] = 0 <=> n \in C \ page
  <2>1. n \in Numbers /\ n \in Nat
    BY <1>4
  <2>2. sync[s].got[n] = IF n <= after THEN 1 ELSE 0
    BY <1>9, <2>1 DEF IInv, DeliveredOnceInOrder
  <2>3. n \in C <=> n > after
    BY <1>9
  <2>4. sync'[s].got[n] = IF n \in page THEN sync[s].got[n] + 1 ELSE sync[s].got[n]
    BY <1>8, <2>1
  <2> HIDE DEF C
  <2> QED
    BY <1>1, <1>6, <2>1, <2>2, <2>3, <2>4
<1>10. (\E n \in DOMAIN log : log[n] = s /\ sync'[s].got[n] = 0) <=> C \ page # {}
  BY <1>9
<1> HIDE DEF C
<1> QED
  BY <1>6, <1>7, <1>10

(* hasMore is never wrong about what a page left out, for any page size,   *)
(* the size of a page that takes exactly the rest included.                *)
THEOREM MoreIsAnnounced == Spec => HasMoreIsRight
<1> DEFINE Step ==
      \A s \in Shards : sync'[s] # sync[s] =>
        (sync'[s].hasMore
           <=> \E n \in DOMAIN log : log[n] = s /\ sync'[s].got[n] = 0)
<1>1. ASSUME IInv, [Next]_vars
      PROVE  Step
  <2> SUFFICES ASSUME NEW s \in Shards, sync'[s] # sync[s]
               PROVE  sync'[s].hasMore
                        <=> \E n \in DOMAIN log : log[n] = s /\ sync'[s].got[n] = 0
    OBVIOUS
  <2>1. PICK t \in Shards : Feed(t)
    BY <1>1 DEF Next, Continue, Generate, ExecuteSwitch, ExecuteReset,
       ExecuteCheckpoint, Switch, ResetAll, RejectCheckpoint, AcceptCheckpoint, vars
  <2>2. t = s
    BY <1>1, <2>1 DEF Feed, IInv, TypeOK
  <2> QED
    BY <1>1, <2>1, <2>2, FeedTellsMore
<1>2. IInv /\ [Next]_vars => [Step]_vars
  BY <1>1
<1> QED
  BY <1>2, Inductive, PTL DEF Spec, HasMoreIsRight
=============================================================================
