---------------------- MODULE ReplicationSource_proofs ----------------------
(***************************************************************************)
(* Proofs about the source of replication, for any number of tail threads, *)
(* any WAL and any batch size: the numbers that the shared generator hands *)
(* out, and the way of the entries from the WAL to the callback.           *)
(***************************************************************************)
EXTENDS ReplicationSource, SequenceTheorems, TLAPS

(***************************************************************************)
(* The inductive invariant.                                                *)
(***************************************************************************)

(* A thread is inside nextSequence exactly while it seals a batch, and the *)
(* batch has entries.                                                      *)
SealsWhileCalling ==
  \A i \in Shards :
    /\ pc[i] = "seal" <=> call[i] # "none"
    /\ pc[i] = "seal" <=> sealing[i] # "none"
    /\ pc[i] = "seal" => pending[i] # <<>>
    /\ pc[i] # "seal" => Len(pending[i]) < BatchSize

(* Where a thread can still have entries that poll returned, and where it  *)
(* has none left at all.                                                   *)
HoldsNothing ==
  \A i \in Shards :
    /\ tailing = "no" => pc[i] = "none"
    /\ \/ pc[i] \in {"none", "loop", "flush", "flushLast", "done"}
       \/ pc[i] = "seal" /\ sealing[i] # "add"
       => polled[i] = <<>>
    /\ pc[i] = "done" => pending[i] = <<>>

(* There is one counter, and it is the one that every thread increments.   *)
OneCounter ==
  /\ \A c, d \in counter : c = d
  /\ \A i \in Shards : call[i] = "add" => handle[i] = counter /\ counter # {}

(* A number that nextSequence has returned to thread i, and that its batch *)
(* does not carry yet.                                                     *)
Holds(i) == call[i] = "returned"

(* The counter is ahead of all numbers, and a number in hand is new.       *)
NumbersAreCounted ==
  /\ \A n \in DOMAIN sent : \E c \in counter : sent[n].number <= heap[c]
  /\ \A i \in Shards : Holds(i) =>
       /\ number[i] > 0
       /\ \E c \in counter : number[i] <= heap[c]
       /\ \A j \in Shards : Holds(j) /\ j # i => number[j] # number[i]
       /\ \A n \in DOMAIN sent :
            /\ sent[n].number # number[i]
            /\ sent[n].shard = i => sent[n].number < number[i]

NumbersInv == OneCounter /\ NumbersAreCounted /\ NumbersGrow

(* A batch as it is given to _onBatchReady.                                *)
Batch == [shard : Shards, number : Nat, entries : Seq(Positions)]

EntriesInv == \A i \in Shards : InWalOrder(i) /\ TakesItsOwn(i)

Inv == TypeOK /\ SealsWhileCalling /\ HoldsNothing /\ NumbersInv /\ EntriesInv

-----------------------------------------------------------------------------
LEMMA InitInv == Init => Inv
<1>. SUFFICES ASSUME Init PROVE Inv
  OBVIOUS
<1>. USE SourceAssumption DEF Init, GeneratorInit
<1>0. Len(Wal) \in Nat
  OBVIOUS
<1>1. TypeOK
  <2>1. GeneratorTypeOK
    BY DEF GeneratorTypeOK
  <2>2. <<>> \in Seq(Positions) /\ Len(<<>>) = 0 /\ <<>> \in Seq(Batch) /\ DOMAIN <<>> = {}
    BY EmptySeq
  <2>3. /\ polled \in [Shards -> Seq(Positions)] /\ pending \in [Shards -> Seq(Positions)]
        /\ \A i \in Shards : Len(polled[i]) <= BatchSize /\ Len(pending[i]) <= BatchSize
    BY <2>2
  <2>4. sent \in Seq(Batch) /\ DOMAIN sent = {}
    BY <2>2
  <2>. QED BY <1>0, <2>1, <2>3, <2>4 DEF TypeOK, Batch
<1>2. SealsWhileCalling /\ HoldsNothing
  <2>1. Len(<<>>) = 0 /\ BatchSize > 0
    BY EmptySeq
  <2>2. \A i \in Shards : /\ pc[i] = "none" /\ call[i] = "none" /\ sealing[i] = "none"
                          /\ polled[i] = <<>> /\ pending[i] = <<>>
    BY DEF Shards
  <2>3. SealsWhileCalling
    BY <2>1, <2>2 DEF SealsWhileCalling
  <2>4. HoldsNothing
    BY <2>2 DEF HoldsNothing
  <2>. QED BY <2>3, <2>4
<1>3. NumbersInv
  <2>1. DOMAIN sent = {} /\ \A i \in Shards : call[i] = "none"
    BY DEF Shards
  <2>. QED BY <2>1 DEF NumbersInv, OneCounter, NumbersAreCounted, NumbersGrow, Holds
<1>4. EntriesInv
  BY DEF EntriesInv, InWalOrder, TakesItsOwn, Taken, Shipped, BatchesOf, InHand, Ascending,
         Precedes, Range
<1>. QED BY <1>1, <1>2, <1>3, <1>4 DEF Inv

-----------------------------------------------------------------------------
(* Types.                                                                  *)

(* What add moves from one sequence to the other.                          *)
LEMMA MoveHead ==
  ASSUME NEW S, NEW s \in Seq(S), NEW t \in Seq(S), t # <<>>
  PROVE  /\ Append(s, Head(t)) \in Seq(S) /\ Len(Append(s, Head(t))) = Len(s) + 1
         /\ Tail(t) \in Seq(S) /\ Len(Tail(t)) = Len(t) - 1
         /\ Append(s, Head(t)) # <<>>
         /\ Append(s, Head(t)) \o Tail(t) = s \o t
<1>1. Head(t) \in S /\ Tail(t) \in Seq(S) /\ Len(Tail(t)) = Len(t) - 1
      /\ Append(s, Head(t)) \in Seq(S) /\ Len(Append(s, Head(t))) = Len(s) + 1
      /\ Append(s, Head(t)) # <<>>
  BY HeadTailProperties, AppendProperties
<1>2. Len(Append(s, Head(t)) \o Tail(t)) = Len(s \o t)
  BY <1>1
<1>3. \A i \in 1..Len(s \o t) : (Append(s, Head(t)) \o Tail(t))[i] = (s \o t)[i]
  BY <1>1
<1>4. Append(s, Head(t)) \o Tail(t) \in Seq(S) /\ s \o t \in Seq(S)
  BY <1>1
<1>5. Append(s, Head(t)) \o Tail(t) = s \o t
  BY <1>2, <1>3, <1>4, SeqEqual
<1>. QED BY <1>1, <1>5

LEMMA TypeOKStep == Inv /\ [Next]_vars => TypeOK'
<1>. SUFFICES ASSUME Inv, [Next]_vars PROVE TypeOK'
  OBVIOUS
<1>. USE SourceAssumption DEF generatorVars, tailVars
<1>0. TypeOK /\ Len(Wal) \in Nat
  BY DEF Inv
<1>1. CASE UNCHANGED vars
  BY <1>0, <1>1 DEF TypeOK, GeneratorTypeOK, vars, Positions
<1>2. CASE WriteWal
  BY <1>0, <1>2 DEF TypeOK, GeneratorTypeOK, WriteWal, Positions
<1>3. CASE Start \/ Stop
  BY <1>0, <1>3 DEF TypeOK, GeneratorTypeOK, Start, Stop, Positions
<1>4. ASSUME NEW i \in Shards, Tail1(i)
      PROVE  TypeOK'
  <2>1. CASE TestTailing(i) \/ EndPoll(i) \/ EndAdd(i)
    BY <1>0, <2>1 DEF TypeOK, GeneratorTypeOK, TestTailing, EndPoll, EndAdd, Goes, Positions
  <2>2. CASE Examine(i)
    <3>1. next[i] \in Positions /\ polled[i] \in Seq(Positions) /\ Len(polled[i]) < BatchSize
      BY <1>0, <2>2 DEF TypeOK, Examine, More, Positions
    <3>2. Append(polled[i], next[i]) \in Seq(Positions)
          /\ Len(Append(polled[i], next[i])) <= BatchSize
      BY <3>1
    <3>3. polled'[i] \in Seq(Positions) /\ Len(polled'[i]) <= BatchSize
          /\ polled' = [polled EXCEPT ![i] = polled'[i]]
      <4>1. PICK r \in BOOLEAN : polled' = [polled EXCEPT ![i] =
                IF ~(Wal[next[i]].satellite /\ r) /\ Wal[next[i]].shard = i
                  THEN Append(@, next[i]) ELSE @]
        BY <2>2 DEF Examine
      <4>. QED BY <1>0, <3>1, <3>2, <4>1 DEF TypeOK
    <3>5. known' \in [Shards -> BOOLEAN]
      <4>1. PICK r : known' = [known EXCEPT ![i] = @ \/ (Wal[next[i]].satellite /\ r)]
        BY <2>2, Zenon DEF Examine
      <4>2. (known[i] \/ (Wal[next[i]].satellite /\ r)) \in BOOLEAN
        OBVIOUS
      <4>. QED BY <1>0, <4>1, <4>2, Zenon DEF TypeOK
    <3>4. next' \in [Shards -> 1..(Len(Wal) + 1)]
      <4>1. next[i] \in 1..Len(Wal) /\ next' = [next EXCEPT ![i] = @ + 1]
        BY <2>2, <3>1 DEF Examine, Positions
      <4>2. next[i] + 1 \in 1..(Len(Wal) + 1)
        BY <1>0, <4>1
      <4>. QED BY <1>0, <4>1, <4>2 DEF TypeOK
    <3>. QED BY <1>0, <2>2, <3>3, <3>4, <3>5 DEF TypeOK, GeneratorTypeOK, Examine, Positions
  <2>3. CASE Add(i)
    <3>1. /\ pending[i] \in Seq(Positions) /\ polled[i] \in Seq(Positions) /\ polled[i] # <<>>
          /\ Len(pending[i]) < BatchSize /\ Len(polled[i]) <= BatchSize
      BY <1>0, <2>3 DEF TypeOK, Inv, SealsWhileCalling, Add
    <3>2. /\ pending'[i] \in Seq(Positions) /\ Len(pending'[i]) <= BatchSize
          /\ polled'[i] \in Seq(Positions) /\ Len(polled'[i]) <= BatchSize
      BY <1>0, <2>3, <3>1, MoveHead DEF Add, TypeOK
    <3>3. /\ pending' \in [Shards -> Seq(Positions)] /\ polled' \in [Shards -> Seq(Positions)]
          /\ \A j \in Shards : Len(polled'[j]) <= BatchSize /\ Len(pending'[j]) <= BatchSize
      BY <1>0, <2>3, <3>2 DEF Add, TypeOK
    <3>4. GeneratorTypeOK' /\ pc' \in [Shards -> {"none", "loop", "poll", "add", "flush",
                                                  "flushLast", "seal", "done"}]
          /\ sealing' \in [Shards -> {"none", "loop", "add", "done"}]
      BY <1>0, <2>3 DEF Add, TypeOK, GeneratorTypeOK, Seal, BeginNext, CallGoes
    <3>. QED BY <1>0, <2>3, <3>3, <3>4 DEF TypeOK, Add, Positions
  <2>4. CASE Flush(i) \/ FlushLast(i)
    BY <1>0, <2>4 DEF TypeOK, GeneratorTypeOK, Flush, FlushLast, FlushFrom, Seal, BeginNext,
       CallGoes, Goes, Positions
  <2>5. CASE AskNumber(i)
    <3>1. GeneratorTypeOK'
      <4>1. CASE FindCounter(i)
        BY <1>0, <4>1 DEF TypeOK, GeneratorTypeOK, FindCounter, CallGoes, Shards
      <4>2. CASE InsertCounter(i)
        BY <1>0, <4>2 DEF TypeOK, GeneratorTypeOK, InsertCounter, CallGoes, Shards
      <4>3. CASE Increment(i)
        <5>1. PICK c \in handle[i] : /\ heap' = [heap EXCEPT ![c] = @ + 1]
                                     /\ number' = [number EXCEPT ![i] = heap[c] + 1]
          BY <4>3 DEF Increment
        <5>2. c \in Callers /\ heap[c] + 1 \in Nat
          BY <1>0 DEF TypeOK, GeneratorTypeOK, Shards
        <5>. QED BY <1>0, <4>3, <5>1, <5>2 DEF TypeOK, GeneratorTypeOK, Increment, CallGoes, Shards
      <4>. QED BY <2>5, <4>1, <4>2, <4>3 DEF AskNumber, NextSequence
    <3>. QED BY <1>0, <2>5, <3>1 DEF TypeOK, AskNumber, Positions
  <2>6. CASE Send(i)
    <3>1. /\ number[i] \in Nat /\ number[i] > 0
          /\ pending[i] \in Seq(Positions) /\ Len(pending[i]) \in 1..BatchSize
      BY <1>0, <2>6 DEF TypeOK, GeneratorTypeOK, Inv, NumbersInv, NumbersAreCounted, Holds, Send,
         Returned, CallGoes, Goes, SealsWhileCalling, Shards
    <3> DEFINE b == [shard |-> i, number |-> number[i], entries |-> pending[i]]
    <3>2. b \in Batch
      BY <3>1 DEF Batch
    <3>3. sent \in Seq(Batch) /\ sent' = Append(sent, b)
      BY <1>0, <2>6 DEF TypeOK, Batch, Send
    <3>4. /\ sent' \in Seq(Batch) /\ Len(sent') = Len(sent) + 1
          /\ \A n \in 1..Len(sent) : sent'[n] = sent[n]
          /\ sent'[Len(sent) + 1] = b
      <4> HIDE DEF b
      <4>. QED BY <3>2, <3>3, AppendProperties
    <3>5. \A n \in DOMAIN sent' : sent'[n].number > 0 /\ Len(sent'[n].entries) \in 1..BatchSize
      <4>1. DOMAIN sent' = 1..(Len(sent) + 1) /\ DOMAIN sent = 1..Len(sent) /\ Len(sent) \in Nat
        BY <3>3, <3>4
      <4>2. b.number = number[i] /\ b.entries = pending[i]
        OBVIOUS
      <4> HIDE DEF b
      <4>3. \A n \in DOMAIN sent : sent[n].number > 0 /\ Len(sent[n].entries) \in 1..BatchSize
        BY <1>0 DEF TypeOK
      <4>. QED BY <3>1, <3>4, <4>1, <4>2, <4>3
    <3>6. GeneratorTypeOK' /\ pc' \in [Shards -> {"none", "loop", "poll", "add", "flush",
                                                  "flushLast", "seal", "done"}]
          /\ sealing' \in [Shards -> {"none", "loop", "add", "done"}]
      BY <1>0, <2>6 DEF TypeOK, GeneratorTypeOK, Send, Returned, CallGoes, Goes, Inv,
         SealsWhileCalling, Shards
    <3>7. pending' \in [Shards -> Seq(Positions)]
          /\ \A j \in Shards : Len(pending'[j]) <= BatchSize
      BY <1>0, <2>6 DEF TypeOK, Send
    <3>. QED BY <1>0, <2>6, <3>4, <3>5, <3>6, <3>7 DEF TypeOK, Send, Batch, Positions
  <2>. QED BY <1>4, <2>1, <2>2, <2>3, <2>4, <2>5, <2>6 DEF Tail1
<1>. QED BY <1>1, <1>2, <1>3, <1>4 DEF Next

-----------------------------------------------------------------------------
(* Where a thread is, and what it has in its hands there.                  *)

LEMMA ControlStep == Inv /\ [Next]_vars => (SealsWhileCalling /\ HoldsNothing)'
<1>. SUFFICES ASSUME Inv, [Next]_vars PROVE SealsWhileCalling' /\ HoldsNothing'
  OBVIOUS
<1>. USE SourceAssumption DEF generatorVars, tailVars
<1>0. TypeOK /\ SealsWhileCalling /\ HoldsNothing
  BY DEF Inv
<1>1. CASE UNCHANGED vars
  BY <1>0, <1>1 DEF SealsWhileCalling, HoldsNothing, vars
<1>2. CASE WriteWal
  BY <1>0, <1>2 DEF SealsWhileCalling, HoldsNothing, WriteWal
<1>3. CASE Start
  BY <1>0, <1>3 DEF SealsWhileCalling, HoldsNothing, Start, TypeOK
<1>4. CASE Stop
  BY <1>0, <1>4 DEF SealsWhileCalling, HoldsNothing, Stop
<1>5. ASSUME NEW i \in Shards, Tail1(i)
      PROVE  SealsWhileCalling' /\ HoldsNothing'
  <2>0. /\ pc \in [Shards -> {"none", "loop", "poll", "add", "flush", "flushLast", "seal", "done"}]
        /\ sealing \in [Shards -> {"none", "loop", "add", "done"}]
        /\ DOMAIN polled = Shards /\ DOMAIN pending = Shards
        /\ call \in [Shards -> {"none", "find", "insert", "add", "returned"}]
    BY <1>0 DEF TypeOK, GeneratorTypeOK, Shards
  <2>1. CASE TestTailing(i) \/ EndPoll(i) \/ EndAdd(i)
    BY <1>0, <2>0, <2>1 DEF SealsWhileCalling, HoldsNothing, TestTailing, EndPoll, EndAdd, Goes
  <2>2. CASE Examine(i)
    <3>1. \A j \in Shards \ {i} : polled'[j] = polled[j]
      BY <2>0, <2>2 DEF Examine
    <3>. QED BY <1>0, <2>2, <3>1 DEF SealsWhileCalling, HoldsNothing, Examine
  <2>3. CASE Add(i)
    <3>1. /\ pending[i] \in Seq(Positions) /\ polled[i] \in Seq(Positions) /\ polled[i] # <<>>
          /\ pending'[i] = Append(pending[i], Head(polled[i]))
      BY <1>0, <2>0, <2>3 DEF TypeOK, Add
    <3>2. pending'[i] # <<>>
      BY <3>1, MoveHead
    <3>3. \A j \in Shards \ {i} : polled'[j] = polled[j] /\ pending'[j] = pending[j]
      BY <2>0, <2>3 DEF Add
    <3>4. CASE Len(pending'[i]) >= BatchSize
      <4>1. /\ pc[i] = "add" /\ pc' = [pc EXCEPT ![i] = "seal"]
            /\ sealing' = [sealing EXCEPT ![i] = "add"]
            /\ call[i] = "none" /\ call' = [call EXCEPT ![i] = "find"] /\ tailing' = tailing
        BY <2>3, <3>4 DEF Add, Seal, BeginNext, CallGoes
      <4>. QED BY <1>0, <2>0, <3>2, <3>3, <4>1 DEF SealsWhileCalling, HoldsNothing
    <3>5. CASE ~(Len(pending'[i]) >= BatchSize)
      <4>1. pc[i] = "add" /\ UNCHANGED <<pc, sealing, call, tailing>>
        BY <2>3, <3>5 DEF Add
      <4>2. Len(pending'[i]) \in Nat /\ BatchSize \in Nat
        BY <3>1, MoveHead
      <4>. QED BY <1>0, <2>0, <3>3, <3>5, <4>1, <4>2 DEF SealsWhileCalling, HoldsNothing
    <3>. QED BY <3>4, <3>5
  <2>4. CASE Flush(i) \/ FlushLast(i)
    <3>1. CASE pending[i] = <<>>
      BY <1>0, <2>0, <2>4, <3>1 DEF SealsWhileCalling, HoldsNothing, Flush, FlushLast, FlushFrom,
         Goes
    <3>2. CASE pending[i] # <<>>
      BY <1>0, <2>0, <2>4, <3>2 DEF SealsWhileCalling, HoldsNothing, Flush, FlushLast, FlushFrom,
         Seal, BeginNext, CallGoes
    <3>. QED BY <3>1, <3>2
  <2>5. CASE AskNumber(i)
    <3>1. /\ call[i] # "none" /\ call'[i] # "none" /\ \A j \in Shards \ {i} : call'[j] = call[j]
          /\ UNCHANGED tailVars
      BY <2>0, <2>5 DEF AskNumber, NextSequence, FindCounter, InsertCounter, Increment, CallGoes
    <3>. QED BY <1>0, <3>1 DEF SealsWhileCalling, HoldsNothing
  <2>6. CASE Send(i)
    <3>1. /\ pc[i] = "seal" /\ pc' = [pc EXCEPT ![i] = sealing[i]]
          /\ sealing' = [sealing EXCEPT ![i] = "none"]
          /\ call' = [call EXCEPT ![i] = "none"]
          /\ pending' = [pending EXCEPT ![i] = <<>>]
          /\ UNCHANGED <<tailing, polled>>
      BY <2>6 DEF Send, Returned, CallGoes, Goes
    <3>2. Len(<<>>) < BatchSize /\ sealing[i] \in {"loop", "add", "done"}
      BY <1>0, <2>0, <3>1, EmptySeq DEF SealsWhileCalling
    <3>. QED BY <1>0, <2>0, <3>1, <3>2 DEF SealsWhileCalling, HoldsNothing
  <2>. QED BY <1>5, <2>1, <2>2, <2>3, <2>4, <2>5, <2>6 DEF Tail1
<1>. QED BY <1>1, <1>2, <1>3, <1>4, <1>5 DEF Next

-----------------------------------------------------------------------------
(* The numbers of the batches.                                             *)

LEMMA NumbersUnchanged ==
  ASSUME NumbersInv, UNCHANGED <<heap, counter, number, sent, handle>>,
         \A i \in Shards : /\ call'[i] = "add" => call[i] = "add"
                           /\ call'[i] = "returned" => call[i] = "returned"
  PROVE  NumbersInv'
BY DEF NumbersInv, OneCounter, NumbersAreCounted, NumbersGrow, Holds

LEMMA AskNumberNumbers ==
  ASSUME Inv, NEW i \in Shards, AskNumber(i)
  PROVE  NumbersInv'
<1>0. /\ TypeOK /\ NumbersInv /\ heap \in [Shards -> Nat] /\ counter \in SUBSET Shards
      /\ call \in [Shards -> {"none", "find", "insert", "add", "returned"}]
      /\ handle \in [Shards -> SUBSET Shards] /\ number \in [Shards -> Nat]
      /\ sent \in Seq(Batch) /\ sent' = sent
  BY DEF Inv, TypeOK, GeneratorTypeOK, Shards, Batch, AskNumber, tailVars
<1>1. CASE FindCounter(i) \/ InsertCounter(i)
  <2>1. /\ call' = [call EXCEPT ![i] = call'[i]] /\ call'[i] \in {"insert", "add"}
        /\ handle' = [handle EXCEPT ![i] = counter']
        /\ counter' = counter \/ (counter = {} /\ counter' = {i})
        /\ call'[i] = "add" => counter' # {}
        /\ UNCHANGED <<heap, number>>
    <3>1. CASE FindCounter(i)
      BY <1>0, <3>1 DEF FindCounter, CallGoes
    <3>2. CASE InsertCounter(i)
      BY <1>0, <3>2 DEF InsertCounter, CallGoes
    <3>. QED BY <1>1, <3>1, <3>2
  <2>2. OneCounter'
    BY <1>0, <2>1 DEF NumbersInv, OneCounter
  <2>3. \A c \in counter : c \in counter'
    BY <2>1
  <2>4. NumbersAreCounted' /\ NumbersGrow'
    BY <1>0, <2>1, <2>3 DEF NumbersInv, NumbersAreCounted, NumbersGrow, Holds
  <2>. QED BY <2>2, <2>4 DEF NumbersInv
<1>2. CASE Increment(i)
  <2>1. PICK c \in handle[i] : /\ heap' = [heap EXCEPT ![c] = @ + 1]
                               /\ number' = [number EXCEPT ![i] = heap[c] + 1]
    BY <1>2 DEF Increment
  <2>2. /\ call[i] = "add" /\ call' = [call EXCEPT ![i] = "returned"]
        /\ handle' = [handle EXCEPT ![i] = {}] /\ counter' = counter
    BY <1>2 DEF Increment, CallGoes
  <2>3. /\ c \in counter /\ c \in Shards /\ heap[c] \in Nat /\ heap'[c] = heap[c] + 1
        /\ number'[i] = heap[c] + 1 /\ \A d \in counter : d = c
        /\ \A j \in Shards \ {i} : number'[j] = number[j]
    BY <1>0, <2>1, <2>2 DEF NumbersInv, OneCounter
  <2>4. OneCounter'
    BY <1>0, <2>2 DEF NumbersInv, OneCounter
  <2>5. \A n \in DOMAIN sent : sent[n].number \in Nat /\ sent[n].number <= heap[c]
    <3>1. \A n \in DOMAIN sent : sent[n].number \in Nat
      <4>1. \A n \in DOMAIN sent : sent[n] \in Batch
        BY <1>0
      <4>. QED BY <4>1 DEF Batch
    <3>. QED BY <1>0, <2>3, <3>1 DEF NumbersInv, NumbersAreCounted
  <2>6. \A j \in Shards \ {i} : Holds(j)' <=> Holds(j)
    BY <1>0, <2>2 DEF Holds
  <2>7. \A j \in Shards \ {i} : Holds(j) => number[j] \in Nat /\ number[j] <= heap[c]
    BY <1>0, <2>3 DEF NumbersInv, NumbersAreCounted
  <2>8. \A n \in DOMAIN sent : \E d \in counter : sent[n].number <= heap'[d]
    BY <2>3, <2>5
  <2>9. ASSUME NEW j \in Shards, Holds(j)'
        PROVE  /\ number'[j] > 0
               /\ \E d \in counter : number'[j] <= heap'[d]
               /\ \A k \in Shards : Holds(k)' /\ k # j => number'[k] # number'[j]
               /\ \A n \in DOMAIN sent :
                    /\ sent[n].number # number'[j]
                    /\ sent[n].shard = j => sent[n].number < number'[j]
    <3>1. CASE j = i
      BY <2>3, <2>5, <2>6, <2>7, <3>1
    <3>2. CASE j # i
      <4>1. Holds(j) /\ number'[j] = number[j]
        BY <2>3, <2>6, <2>9, <3>2
      <4>2. /\ number[j] > 0
            /\ \A k \in Shards : Holds(k) /\ k # j => number[k] # number[j]
            /\ \A n \in DOMAIN sent : /\ sent[n].number # number[j]
                                      /\ sent[n].shard = j => sent[n].number < number[j]
        BY <1>0, <4>1 DEF NumbersInv, NumbersAreCounted
      <4>3. number[j] \in Nat /\ number[j] <= heap[c]
        BY <2>7, <3>2, <4>1
      <4>4. \E d \in counter : number'[j] <= heap'[d]
        BY <2>3, <4>1, <4>3
      <4>5. \A k \in Shards : Holds(k)' /\ k # j => number'[k] # number'[j]
        BY <2>3, <2>6, <4>1, <4>2, <4>3
      <4>. QED BY <4>1, <4>2, <4>4, <4>5, Zenon
    <3>. QED BY <3>1, <3>2
  <2>10. NumbersAreCounted'
    BY <1>0, <2>2, <2>8, <2>9 DEF NumbersAreCounted
  <2>11. NumbersGrow'
    BY <1>0 DEF NumbersInv, NumbersGrow
  <2>. QED BY <2>4, <2>10, <2>11 DEF NumbersInv
<1>. QED BY <1>1, <1>2 DEF AskNumber, NextSequence

LEMMA SendNumbers ==
  ASSUME Inv, NEW i \in Shards, Send(i)
  PROVE  NumbersInv'
<1>0. /\ TypeOK /\ NumbersInv /\ heap \in [Shards -> Nat] /\ counter \in SUBSET Shards
      /\ call \in [Shards -> {"none", "find", "insert", "add", "returned"}]
      /\ number \in [Shards -> Nat] /\ sent \in Seq(Batch)
  BY DEF Inv, TypeOK, GeneratorTypeOK, Shards, Batch
<1> DEFINE b == [shard |-> i, number |-> number[i], entries |-> pending[i]]
<1>1. /\ call[i] = "returned" /\ call' = [call EXCEPT ![i] = "none"]
      /\ number' = [number EXCEPT ![i] = 0] /\ sent' = Append(sent, b)
      /\ UNCHANGED <<heap, counter, handle>>
  BY DEF Send, Returned, CallGoes
<1>2. b.shard = i /\ b.number = number[i]
  OBVIOUS
<1> HIDE DEF b
<1>3. /\ Len(sent) \in Nat /\ DOMAIN sent = 1..Len(sent) /\ DOMAIN sent' = 1..(Len(sent) + 1)
      /\ \A n \in DOMAIN sent : sent'[n] = sent[n]
      /\ sent'[Len(sent) + 1] = b
  BY <1>0, <1>1
<1>4. OneCounter'
  BY <1>0, <1>1 DEF NumbersInv, OneCounter
<1>5. /\ Holds(i) /\ ~Holds(i)'
      /\ \A j \in Shards \ {i} : (Holds(j)' <=> Holds(j)) /\ number'[j] = number[j]
  BY <1>0, <1>1 DEF Holds
<1>6. \A n \in DOMAIN sent : /\ sent[n].number # number[i]
                             /\ sent[n].shard = i => sent[n].number < number[i]
  BY <1>0, <1>5 DEF NumbersInv, NumbersAreCounted
<1>7. NumbersGrow'
  <2> SUFFICES ASSUME NEW m \in DOMAIN sent', NEW n \in DOMAIN sent', m < n
               PROVE  /\ sent'[m].number # sent'[n].number
                      /\ sent'[m].shard = sent'[n].shard => sent'[m].number < sent'[n].number
    BY DEF NumbersGrow
  <2>1. CASE n \in DOMAIN sent
    BY <1>0, <1>3, <2>1 DEF NumbersInv, NumbersGrow
  <2>2. CASE n = Len(sent) + 1
    BY <1>2, <1>3, <1>6, <2>2
  <2>. QED BY <1>3, <2>1, <2>2
<1>8. \A n \in DOMAIN sent' : \E c \in counter : sent'[n].number <= heap[c]
  <2>1. \E c \in counter : number[i] <= heap[c]
    BY <1>0, <1>5 DEF NumbersInv, NumbersAreCounted
  <2>. QED BY <1>0, <1>2, <1>3, <2>1 DEF NumbersInv, NumbersAreCounted
<1>9. ASSUME NEW j \in Shards, Holds(j)'
      PROVE  /\ number'[j] > 0
             /\ \E c \in counter : number'[j] <= heap[c]
             /\ \A k \in Shards : Holds(k)' /\ k # j => number'[k] # number'[j]
             /\ \A n \in DOMAIN sent' :
                  /\ sent'[n].number # number'[j]
                  /\ sent'[n].shard = j => sent'[n].number < number'[j]
  <2>1. j # i /\ Holds(j) /\ number'[j] = number[j] /\ number[i] # number[j]
    BY <1>0, <1>5, <1>9 DEF NumbersInv, NumbersAreCounted
  <2>2. /\ number[j] > 0
        /\ \E c \in counter : number[j] <= heap[c]
        /\ \A k \in Shards : Holds(k) /\ k # j => number[k] # number[j]
        /\ \A n \in DOMAIN sent : /\ sent[n].number # number[j]
                                  /\ sent[n].shard = j => sent[n].number < number[j]
    BY <1>0, <2>1 DEF NumbersInv, NumbersAreCounted
  <2>3. \A k \in Shards : Holds(k)' /\ k # j => number'[k] # number'[j]
    BY <1>5, <2>1, <2>2
  <2>4. ASSUME NEW n \in DOMAIN sent'
        PROVE  /\ sent'[n].number # number'[j]
               /\ sent'[n].shard = j => sent'[n].number < number'[j]
    <3>1. CASE n \in DOMAIN sent
      <4>1. sent'[n] = sent[n]
        BY <1>3, <3>1
      <4>. QED BY <2>1, <2>2, <3>1, <4>1, Zenon
    <3>2. CASE n = Len(sent) + 1
      <4>1. sent'[n] = b
        BY <1>3, <3>2
      <4>. QED BY <1>2, <2>1, <4>1
    <3>. QED BY <1>3, <2>4, <3>1, <3>2
  <2>. QED BY <2>1, <2>2, <2>3, <2>4
<1>10. NumbersAreCounted'
  BY <1>1, <1>8, <1>9 DEF NumbersAreCounted
<1>. QED BY <1>4, <1>7, <1>10 DEF NumbersInv

-----------------------------------------------------------------------------
(* The entries.  First what an append and a concatenation do to the set    *)
(* and to the order of the entries.                                        *)

LEMMA RangeOfAppend ==
  ASSUME NEW S, NEW s \in Seq(S), NEW e \in S
  PROVE  Range(Append(s, e)) = Range(s) \cup {e}
<1>1. /\ DOMAIN s = 1..Len(s) /\ Len(s) \in Nat
      /\ DOMAIN Append(s, e) = 1..(Len(s) + 1)
      /\ \A k \in 1..Len(s) : Append(s, e)[k] = s[k]
      /\ Append(s, e)[Len(s) + 1] = e
  OBVIOUS
<1>2. \A k : k \in 1..(Len(s) + 1) <=> k \in 1..Len(s) \/ k = Len(s) + 1
  BY <1>1
<1>. QED BY <1>1, <1>2 DEF Range

LEMMA ConcatParts ==
  ASSUME NEW S, NEW s \in Seq(S), NEW t \in Seq(S)
  PROVE  /\ s \o t \in Seq(S) /\ Len(s) \in Nat /\ Len(t) \in Nat
         /\ DOMAIN s = 1..Len(s) /\ DOMAIN t = 1..Len(t)
         /\ DOMAIN (s \o t) = 1..(Len(s) + Len(t))
         /\ \A k \in DOMAIN s : k \in DOMAIN (s \o t) /\ (s \o t)[k] = s[k]
         /\ \A k \in DOMAIN t : /\ Len(s) + k \in DOMAIN (s \o t)
                                /\ (s \o t)[Len(s) + k] = t[k]
OBVIOUS

LEMMA RangeOfConcat ==
  ASSUME NEW S, NEW s \in Seq(S), NEW t \in Seq(S)
  PROVE  Range(s \o t) = Range(s) \cup Range(t)
<1>1. ASSUME NEW k \in DOMAIN (s \o t)
      PROVE  (s \o t)[k] \in Range(s) \cup Range(t)
  <2>1. CASE k \in DOMAIN s
    BY <2>1, ConcatParts DEF Range
  <2>2. CASE k \notin DOMAIN s
    <3>1. k - Len(s) \in DOMAIN t /\ k = Len(s) + (k - Len(s))
      BY <1>1, <2>2, ConcatParts
    <3>2. (s \o t)[k] = t[k - Len(s)]
      BY <3>1, ConcatParts
    <3>. QED BY <3>1, <3>2 DEF Range
  <2>. QED BY <2>1, <2>2
<1>2. Range(s) \subseteq Range(s \o t)
  BY ConcatParts DEF Range
<1>3. Range(t) \subseteq Range(s \o t)
  <2>1. \A k \in DOMAIN t : \E m \in DOMAIN (s \o t) : (s \o t)[m] = t[k]
    <3> TAKE k \in DOMAIN t
    <3>1. Len(s) + k \in DOMAIN (s \o t) /\ (s \o t)[Len(s) + k] = t[k]
      BY ConcatParts
    <3>. QED BY <3>1
  <2>. QED BY <2>1, Zenon DEF Range
<1>. QED BY <1>1, <1>2, <1>3 DEF Range

LEMMA AppendAscends ==
  ASSUME NEW s \in Seq(Nat), NEW e \in Nat, Ascending(s), \A k \in Range(s) : k < e
  PROVE  Ascending(Append(s, e))
<1>1. /\ DOMAIN s = 1..Len(s) /\ Len(s) \in Nat
      /\ DOMAIN Append(s, e) = 1..(Len(s) + 1)
      /\ \A k \in 1..Len(s) : Append(s, e)[k] = s[k]
      /\ Append(s, e)[Len(s) + 1] = e
  OBVIOUS
<1>2. \A k \in 1..Len(s) : s[k] < e
  BY <1>1 DEF Range
<1>. QED BY <1>1, <1>2 DEF Ascending

LEMMA ConcatAscends ==
  ASSUME NEW s \in Seq(Nat), NEW t \in Seq(Nat), Ascending(s \o t)
  PROVE  Ascending(s) /\ Ascending(t) /\ Precedes(s, t)
<1>1. Ascending(s)
  BY ConcatParts DEF Ascending
<1>2. Ascending(t)
  <2> SUFFICES ASSUME NEW m \in DOMAIN t, NEW n \in DOMAIN t, m < n PROVE t[m] < t[n]
    BY DEF Ascending
  <2>1. Len(s) + m < Len(s) + n
    BY ConcatParts
  <2>2. /\ Len(s) + m \in DOMAIN (s \o t) /\ (s \o t)[Len(s) + m] = t[m]
        /\ Len(s) + n \in DOMAIN (s \o t) /\ (s \o t)[Len(s) + n] = t[n]
    BY ConcatParts
  <2>3. (s \o t)[Len(s) + m] < (s \o t)[Len(s) + n]
    BY <2>1, <2>2, Zenon DEF Ascending
  <2>. QED BY <2>2, <2>3
<1>3. Precedes(s, t)
  <2> SUFFICES ASSUME NEW m \in DOMAIN s, NEW n \in DOMAIN t PROVE s[m] < t[n]
    BY DEF Precedes
  <2>1. m < Len(s) + n
    BY ConcatParts
  <2>. QED BY <2>1, ConcatParts DEF Ascending
<1>. QED BY <1>1, <1>2, <1>3

LEMMA PrecedesConcat ==
  ASSUME NEW s \in Seq(Nat), NEW t \in Seq(Nat), NEW e, Precedes(e, s \o t)
  PROVE  Precedes(e, s) /\ Precedes(e, t)
<1>1. Precedes(e, s)
  BY ConcatParts DEF Precedes
<1>2. ASSUME NEW m \in DOMAIN e, NEW n \in DOMAIN t PROVE e[m] < t[n]
  <2>1. Len(s) + n \in DOMAIN (s \o t) /\ (s \o t)[Len(s) + n] = t[n]
    BY ConcatParts
  <2>2. e[m] < (s \o t)[Len(s) + n]
    BY <2>1, Zenon DEF Precedes
  <2>. QED BY <2>1, <2>2
<1>. QED BY <1>1, <1>2 DEF Precedes

LEMMA AppendOfConcat ==
  ASSUME NEW S, NEW s \in Seq(S), NEW t \in Seq(S), NEW e \in S
  PROVE  s \o Append(t, e) = Append(s \o t, e)
<1>1. s \o Append(t, e) \in Seq(S) /\ Append(s \o t, e) \in Seq(S)
  OBVIOUS
<1>2. Len(s \o Append(t, e)) = Len(Append(s \o t, e))
  OBVIOUS
<1>3. \A k \in 1..Len(s \o Append(t, e)) : (s \o Append(t, e))[k] = Append(s \o t, e)[k]
  OBVIOUS
<1>. QED BY <1>1, <1>2, <1>3, SeqEqual

LEMMA AppendPreceded ==
  ASSUME NEW s \in Seq(Nat), NEW e \in Nat, NEW b, Precedes(b, s),
         \A m \in DOMAIN b : b[m] < e
  PROVE  Precedes(b, Append(s, e))
<1>1. \A n \in DOMAIN Append(s, e) : (n \in DOMAIN s /\ Append(s, e)[n] = s[n])
                                     \/ Append(s, e)[n] = e
  OBVIOUS
<1>. QED BY <1>1 DEF Precedes

(* A thread whose batches, entries in hand and iterator are left alone.    *)
LEMMA EntriesUnchanged ==
  ASSUME NEW j \in Shards, InWalOrder(j) /\ TakesItsOwn(j),
         BatchesOf(j)' = BatchesOf(j), \A n \in BatchesOf(j) : sent'[n] = sent[n],
         InHand(j)' = InHand(j), next'[j] = next[j]
  PROVE  (InWalOrder(j) /\ TakesItsOwn(j))'
<1>1. Shipped(j)' = Shipped(j)
  BY DEF Shipped
<1>2. Taken(j)' = Taken(j)
  BY <1>1 DEF Taken
<1>3. InWalOrder(j)'
  BY DEF InWalOrder
<1>4. TakesItsOwn(j)'
  BY <1>2 DEF TakesItsOwn
<1>. QED BY <1>3, <1>4

LEMMA TakenArePositions ==
  ASSUME TypeOK, NEW i \in Shards
  PROVE  /\ InHand(i) \in Seq(Positions) /\ InHand(i) \in Seq(Nat)
         /\ pending[i] \in Seq(Positions) /\ polled[i] \in Seq(Positions)
         /\ pending[i] \in Seq(Nat) /\ polled[i] \in Seq(Nat)
         /\ sent \in Seq(Batch) /\ Len(sent) \in Nat /\ DOMAIN sent = 1..Len(sent)
         /\ \A n \in DOMAIN sent : sent[n].entries \in Seq(Positions)
         /\ Taken(i) \subseteq Positions
<1>1. pending[i] \in Seq(Positions) /\ polled[i] \in Seq(Positions)
  BY DEF TypeOK
<1>2. InHand(i) \in Seq(Positions)
  BY <1>1 DEF InHand
<1>3. \A s \in Seq(Positions) : s \in Seq(Nat) /\ Range(s) \subseteq Positions
  BY SourceAssumption DEF Positions, Range
<1>4. sent \in Seq(Batch)
  BY DEF TypeOK, Batch
<1>5. \A n \in DOMAIN sent : sent[n] \in Batch
  BY <1>4
<1>6. \A n \in DOMAIN sent : sent[n].entries \in Seq(Positions)
  BY <1>5 DEF Batch
<1>7. Len(sent) \in Nat /\ DOMAIN sent = 1..Len(sent)
  BY <1>4
<1>8. Taken(i) \subseteq Positions
  BY <1>2, <1>3, <1>6 DEF Taken, Shipped, BatchesOf
<1>. QED BY <1>1, <1>2, <1>3, <1>4, <1>6, <1>7, <1>8

(* poll hands the entry at the iterator out, or passes over it.            *)
LEMMA ExamineEntries ==
  ASSUME Inv, NEW i \in Shards, Examine(i)
  PROVE  (InWalOrder(i) /\ TakesItsOwn(i))'
<1>0. /\ TypeOK /\ InWalOrder(i) /\ TakesItsOwn(i) /\ Len(Wal) \in Nat
      /\ next \in [Shards -> 1..(Len(Wal) + 1)] /\ DOMAIN polled = Shards
  BY SourceAssumption DEF Inv, TypeOK, EntriesInv
<1> DEFINE k == next[i]
<1>1. /\ sent' = sent /\ pending' = pending /\ next'[i] = k + 1
      /\ k \in Positions /\ k \in Nat
  BY <1>0 DEF Examine, More, TypeOK, Positions
<1>2. PICK r \in BOOLEAN : polled' = [polled EXCEPT ![i] =
        IF ~(Wal[k].satellite /\ r) /\ Wal[k].shard = i THEN Append(@, k) ELSE @]
  BY DEF Examine
<1>3. Shipped(i)' = Shipped(i) /\ BatchesOf(i)' = BatchesOf(i)
  BY <1>1 DEF Shipped, BatchesOf
<1>4. \A e \in Taken(i) : e \in Nat /\ e < k /\ Wal[e].shard = i
  BY <1>0, TakenArePositions DEF TakesItsOwn, Positions
<1>5. \A e \in 1..(k - 1) : Wal[e].shard = i /\ ~Wal[e].satellite => e \in Taken(i)
  BY <1>0 DEF TakesItsOwn
<1>6. \A e : e \in 1..((k + 1) - 1) <=> e \in 1..(k - 1) \/ e = k
  BY <1>1 DEF Positions
<1>7. CASE ~(Wal[k].satellite /\ r) /\ Wal[k].shard = i
  <2>1. polled'[i] = Append(polled[i], k)
    BY <1>0, <1>2, <1>7
  <2> HIDE DEF k
  <2>2. InHand(i)' = Append(InHand(i), k)
    <3>1. InHand(i)' = pending[i] \o Append(polled[i], k)
      BY <1>1, <2>1 DEF InHand
    <3>2. pending[i] \in Seq(Positions) /\ polled[i] \in Seq(Positions) /\ k \in Positions
      BY <1>0, <1>1, TakenArePositions
    <3>3. \A s, t \in Seq(Positions), e \in Positions : s \o Append(t, e) = Append(s \o t, e)
      BY AppendOfConcat
    <3>4. pending[i] \o Append(polled[i], k) = Append(pending[i] \o polled[i], k)
      BY <3>2, <3>3, Zenon
    <3>. QED BY <3>1, <3>4 DEF InHand
  <2>3. \A e \in Range(InHand(i)) : e < k
    BY <1>4 DEF Taken
  <2>4. Ascending(InHand(i))
    BY <1>0 DEF InWalOrder
  <2>5. Ascending(Append(InHand(i), k))
    BY <1>0, <1>1, <2>3, <2>4, TakenArePositions, AppendAscends
  <2>6. ASSUME NEW n \in BatchesOf(i) PROVE Precedes(sent[n].entries, Append(InHand(i), k))
    <3>1. \A m \in DOMAIN sent[n].entries : sent[n].entries[m] \in Taken(i)
      BY DEF Taken, Shipped, Range
    <3>2. \A m \in DOMAIN sent[n].entries : sent[n].entries[m] < k
      BY <1>4, <3>1
    <3>3. Precedes(sent[n].entries, InHand(i))
      BY <1>0 DEF InWalOrder
    <3>. QED BY <1>0, <1>1, <3>2, <3>3, TakenArePositions, AppendPreceded
  <2>7. InWalOrder(i)'
    BY <1>0, <1>1, <1>3, <2>2, <2>5, <2>6 DEF InWalOrder
  <2>8. Range(Append(InHand(i), k)) = Range(InHand(i)) \cup {k}
    BY <1>0, <1>1, TakenArePositions, RangeOfAppend
  <2>9. Taken(i)' = Taken(i) \cup {k}
    BY <1>3, <2>2, <2>8 DEF Taken
  <2>10. \A e \in Taken(i) \cup {k} : e < k + 1 /\ Wal[e].shard = i
    BY <1>1, <1>4, <1>7
  <2>11. TakesItsOwn(i)'
    BY <1>1, <1>5, <1>6, <2>9, <2>10 DEF TakesItsOwn
  <2>. QED BY <2>7, <2>11
<1>8. CASE ~(~(Wal[k].satellite /\ r) /\ Wal[k].shard = i)
  <2>1. polled'[i] = polled[i]
    BY <1>0, <1>2, <1>8
  <2>2. InHand(i)' = InHand(i)
    BY <1>1, <2>1 DEF InHand
  <2>3. Taken(i)' = Taken(i)
    BY <1>3, <2>2 DEF Taken
  <2>4. InWalOrder(i)'
    BY <1>0, <1>1, <1>3, <2>2 DEF InWalOrder
  <2>5. \A e \in Taken(i) : e < k + 1 /\ Wal[e].shard = i
    BY <1>1, <1>4
  <2>6. ~(Wal[k].shard = i /\ ~Wal[k].satellite)
    BY <1>8
  <2> HIDE DEF k
  <2>7. TakesItsOwn(i)'
    BY <1>1, <1>5, <1>6, <2>3, <2>5, <2>6 DEF TakesItsOwn
  <2>. QED BY <2>4, <2>7
<1>. QED BY <1>7, <1>8

(* add moves an entry within the hands of the thread.                      *)
LEMMA AddEntries ==
  ASSUME Inv, NEW i \in Shards, Add(i)
  PROVE  InHand(i)' = InHand(i)
<1>1. /\ pending[i] \in Seq(Positions) /\ polled[i] \in Seq(Positions) /\ polled[i] # <<>>
      /\ DOMAIN pending = Shards /\ DOMAIN polled = Shards
  BY DEF Inv, TypeOK, Add
<1>2. pending'[i] = Append(pending[i], Head(polled[i])) /\ polled'[i] = Tail(polled[i])
  BY <1>1 DEF Add
<1>. QED BY <1>1, <1>2, MoveHead DEF InHand

(* The batch that the thread sends comes after the earlier ones and before *)
(* the entries that stay in its hands.                                     *)
LEMMA SendEntries ==
  ASSUME Inv, NEW i \in Shards, Send(i)
  PROVE  \A j \in Shards : (InWalOrder(j) /\ TakesItsOwn(j))'
<1>0. TypeOK /\ EntriesInv
  BY DEF Inv
<1> DEFINE b == [shard |-> i, number |-> number[i], entries |-> pending[i]]
           N == Len(sent) + 1
<1>1. b.shard = i /\ b.entries = pending[i]
  OBVIOUS
<1>2. sent' = Append(sent, b) /\ next' = next /\ polled' = polled
      /\ pending' = [pending EXCEPT ![i] = <<>>] /\ DOMAIN pending = Shards
  BY <1>0 DEF Send, TypeOK
<1> HIDE DEF b
<1>3. /\ N \in Nat /\ DOMAIN sent = 1..(N - 1) /\ DOMAIN sent' = 1..N
      /\ \A n \in DOMAIN sent : sent'[n] = sent[n] /\ n < N
      /\ sent'[N] = b
  BY <1>0, <1>2, TakenArePositions
<1>4. ASSUME NEW j \in Shards, j # i
      PROVE  (InWalOrder(j) /\ TakesItsOwn(j))'
  <2>1. BatchesOf(j)' = BatchesOf(j)
    BY <1>1, <1>3, <1>4 DEF BatchesOf
  <2>2. \A n \in BatchesOf(j) : sent'[n] = sent[n]
    BY <1>3 DEF BatchesOf
  <2>3. InHand(j)' = InHand(j) /\ next'[j] = next[j]
    BY <1>2, <1>4 DEF InHand
  <2>. QED BY <1>0, <2>1, <2>2, <2>3, EntriesUnchanged DEF EntriesInv
<1>5. (InWalOrder(i) /\ TakesItsOwn(i))'
  <2> DEFINE p == pending[i]
             q == polled[i]
  <2>1. p \in Seq(Nat) /\ q \in Seq(Nat) /\ InHand(i) = p \o q
    BY <1>0, TakenArePositions DEF InHand
  <2>2. InHand(i)' = q
    BY <1>2, <2>1 DEF InHand
  <2>3. BatchesOf(i)' = BatchesOf(i) \cup {N}
    BY <1>1, <1>3 DEF BatchesOf
  <2>4. \A n \in BatchesOf(i) : sent'[n] = sent[n] /\ n < N
    BY <1>3 DEF BatchesOf
  <2>5. sent'[N].entries = p
    BY <1>1, <1>3
  <2>6. InWalOrder(i) /\ TakesItsOwn(i)
    BY <1>0 DEF EntriesInv
  <2> HIDE DEF p, q, N
  <2>7. Ascending(p) /\ Ascending(q) /\ Precedes(p, q)
    BY <2>1, <2>6, ConcatAscends DEF InWalOrder
  <2>8. \A n \in BatchesOf(i) : Precedes(sent[n].entries, p) /\ Precedes(sent[n].entries, q)
    BY <2>1, <2>6, PrecedesConcat DEF InWalOrder
  <2>9. \A m, n \in BatchesOf(i) \cup {N} :
          m < n => m \in BatchesOf(i) /\ (n \in BatchesOf(i) \/ n = N)
    BY <1>3, <2>4 DEF BatchesOf
  <2>10. ASSUME NEW n \in BatchesOf(i)'
         PROVE  /\ Ascending(sent'[n].entries)
                /\ Precedes(sent'[n].entries, q)
                /\ \A m \in BatchesOf(i)' : m < n => Precedes(sent'[m].entries, sent'[n].entries)
    <3>1. CASE n \in BatchesOf(i)
      <4>1. /\ Ascending(sent[n].entries)
            /\ \A m \in BatchesOf(i) : m < n => Precedes(sent[m].entries, sent[n].entries)
        BY <2>6, <3>1 DEF InWalOrder
      <4>. QED BY <2>3, <2>4, <2>8, <2>9, <3>1, <4>1
    <3>2. CASE n = N
      BY <2>3, <2>4, <2>5, <2>7, <2>8, <2>9, <3>2
    <3>. QED BY <2>3, <2>10, <3>1, <3>2
  <2>11. InWalOrder(i)'
    BY <2>2, <2>7, <2>10 DEF InWalOrder
  <2>12. Taken(i)' = Taken(i)
    <3>1. Shipped(i)' = Shipped(i) \cup Range(p)
      BY <2>3, <2>4, <2>5 DEF Shipped
    <3>2. Range(InHand(i)) = Range(p) \cup Range(q)
      BY <2>1, RangeOfConcat
    <3>. QED BY <2>2, <3>1, <3>2 DEF Taken
  <2>13. TakesItsOwn(i)'
    BY <1>2, <2>6, <2>12 DEF TakesItsOwn
  <2>. QED BY <2>11, <2>13
<1>. QED BY <1>4, <1>5

LEMMA EntriesStep == Inv /\ [Next]_vars => EntriesInv'
<1>. SUFFICES ASSUME Inv, [Next]_vars, NEW j \in Shards
              PROVE  (InWalOrder(j) /\ TakesItsOwn(j))'
  BY DEF EntriesInv
<1>0. InWalOrder(j) /\ TakesItsOwn(j) /\ TypeOK
  BY DEF Inv, EntriesInv
<1>1. ASSUME sent' = sent, next'[j] = next[j], InHand(j)' = InHand(j)
      PROVE  (InWalOrder(j) /\ TakesItsOwn(j))'
  BY <1>0, <1>1, EntriesUnchanged DEF BatchesOf
<1>2. CASE UNCHANGED vars \/ WriteWal \/ Start \/ Stop
  <2>1. UNCHANGED <<sent, next, polled, pending>>
    BY <1>2 DEF vars, tailVars, WriteWal, Start, Stop
  <2>. QED BY <1>1, <2>1 DEF InHand
<1>3. ASSUME NEW i \in Shards, Tail1(i)
      PROVE  (InWalOrder(j) /\ TakesItsOwn(j))'
  <2>1. CASE TestTailing(i) \/ EndPoll(i) \/ EndAdd(i) \/ Flush(i) \/ FlushLast(i) \/ AskNumber(i)
    <3>1. UNCHANGED <<sent, next, polled, pending>>
      BY <2>1 DEF tailVars, TestTailing, EndPoll, EndAdd, Flush, FlushLast, FlushFrom, AskNumber
    <3>. QED BY <1>1, <3>1 DEF InHand
  <2>2. CASE Examine(i)
    <3>1. CASE j = i
      BY <2>2, <3>1, ExamineEntries
    <3>2. CASE j # i
      <4>1. sent' = sent /\ next'[j] = next[j] /\ polled'[j] = polled[j] /\ pending' = pending
        BY <1>0, <2>2, <3>2 DEF Examine, TypeOK
      <4>. QED BY <1>1, <4>1 DEF InHand
    <3>. QED BY <3>1, <3>2
  <2>3. CASE Add(i)
    <3>1. sent' = sent /\ next' = next
      BY <2>3 DEF Add
    <3>2. CASE j = i
      BY <1>1, <2>3, <3>1, <3>2, AddEntries
    <3>3. CASE j # i
      <4>1. polled'[j] = polled[j] /\ pending'[j] = pending[j]
        BY <1>0, <2>3, <3>3 DEF Add, TypeOK
      <4>. QED BY <1>1, <3>1, <4>1 DEF InHand
    <3>. QED BY <3>2, <3>3
  <2>4. CASE Send(i)
    BY <2>4, SendEntries
  <2>. QED BY <1>3, <2>1, <2>2, <2>3, <2>4 DEF Tail1
<1>. QED BY <1>2, <1>3 DEF Next

LEMMA NumbersStep == Inv /\ [Next]_vars => NumbersInv'
<1>. SUFFICES ASSUME Inv, [Next]_vars PROVE NumbersInv'
  OBVIOUS
<1>. USE DEF generatorVars, tailVars
<1>0. NumbersInv /\ call \in [Shards -> {"none", "find", "insert", "add", "returned"}]
  BY DEF Inv, TypeOK, GeneratorTypeOK, Shards
<1>1. CASE UNCHANGED vars \/ WriteWal \/ Start \/ Stop
  <2>1. UNCHANGED <<heap, counter, number, sent, handle, call>>
    BY <1>1 DEF vars, WriteWal, Start, Stop
  <2>. QED BY <1>0, <2>1, NumbersUnchanged
<1>2. ASSUME NEW i \in Shards, Tail1(i)
      PROVE  NumbersInv'
  <2>1. CASE TestTailing(i) \/ Examine(i) \/ EndPoll(i) \/ EndAdd(i)
    <3>1. UNCHANGED <<heap, counter, number, sent, handle, call>>
      BY <2>1 DEF TestTailing, Examine, EndPoll, EndAdd
    <3>. QED BY <1>0, <3>1, NumbersUnchanged
  <2>2. CASE Add(i) \/ Flush(i) \/ FlushLast(i)
    <3>1. UNCHANGED <<heap, counter, number, sent, handle>>
          /\ (call' = call \/ call' = [call EXCEPT ![i] = "find"])
      BY <2>2 DEF Add, Flush, FlushLast, FlushFrom, Seal, BeginNext, CallGoes
    <3>2. \A j \in Shards : /\ call'[j] = "add" => call[j] = "add"
                            /\ call'[j] = "returned" => call[j] = "returned"
      BY <1>0, <3>1
    <3>. QED BY <1>0, <3>1, <3>2, NumbersUnchanged
  <2>3. CASE AskNumber(i)
    BY <2>3, AskNumberNumbers
  <2>4. CASE Send(i)
    BY <2>4, SendNumbers
  <2>. QED BY <1>2, <2>1, <2>2, <2>3, <2>4 DEF Tail1
<1>. QED BY <1>1, <1>2 DEF Next

-----------------------------------------------------------------------------
(* The invariant, and the properties that it implies.                      *)

(* The invariant holds in every reachable state of the source.             *)
THEOREM Invariance == Spec => []Inv
<1>1. Inv /\ [Next]_vars => Inv'
  BY TypeOKStep, ControlStep, NumbersStep, EntriesStep DEF Inv
<1>. QED BY InitInv, <1>1, PTL DEF Spec

(* Each tail thread takes exactly the entries of its shard that its        *)
(* iterator has passed, once and in WAL order, from poll over add and      *)
(* seal to the callback (DC2DCReplicator::shardTailLoop).                  *)
THEOREM EntriesTakenOnceInOrder == Spec => []TakenOnceInOrder
<1>1. Inv => TakenOnceInOrder
  BY DEF Inv, EntriesInv, TakenOnceInOrder
<1>. QED BY Invariance, <1>1, PTL

(* A tail thread that has left its loop has flushed its batcher and holds  *)
(* no entry that it polled.                                                *)
THEOREM NothingLeftBehind == Spec => []ShippedBeforeExit
<1>1. Inv => ShippedBeforeExit
  BY ConcatEmptySeq DEF Inv, HoldsNothing, ShippedBeforeExit, InHand, TypeOK
<1>. QED BY Invariance, <1>1, PTL

(* SequenceNumberGenerator::nextSequence, called by all tail threads at    *)
(* once, never numbers two batches alike, and the numbers of one shard     *)
(* grow in the order in which its batches are shipped.                     *)
THEOREM BatchNumbersGrow == Spec => []NumbersGrow
<1>1. Inv => NumbersGrow
  BY DEF Inv, NumbersInv
<1>. QED BY Invariance, <1>1, PTL
=============================================================================
