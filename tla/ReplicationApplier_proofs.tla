--------------------- MODULE ReplicationApplier_proofs ---------------------
(***************************************************************************)
(* The safety of ReplicationApplier for every set of shards and satellites,*)
(* every number of messages, every batch length and every number of        *)
(* failing writes.                                                         *)
(***************************************************************************)
EXTENDS ReplicationApplier, TLAPS

(* While drainBuffered runs, the message of the call is already written:    *)
(* this is why returning 0 for it afterwards acknowledges nothing that is   *)
(* not kept.                                                                *)
DrainsAfterWrite ==
  draining =>
    /\ todo # <<>>
    /\ Head(todo).shard \in Replicated
    /\ Head(todo).seq <= lastApplied[Head(todo).shard]

(* BufferedWaitsForGap made inductive: inside drainBuffered the next message *)
(* may sit in the buffer of the shard being drained, and only there.         *)
NoFailureNoStale ==
  failures = 0 =>
    \A s \in Shards : \A q \in buffer[s] :
      /\ q > lastApplied[s]
      /\ ~Draining(s) => q > Next1(s)

Inv ==
  /\ TypeOK
  /\ InOrderExactlyOnce
  /\ AckedIsKept
  /\ DrainsAfterWrite
  /\ NoFailureNoStale

----------------------------------------------------------------------------

(* The sequence number of a message that is handled as expected or as out   *)
(* of order is within the bounds of the type invariant.                     *)
LEMMA HeadTodo ==
  ASSUME TypeOK, todo # <<>>
  PROVE  /\ Head(todo) \in Messages
         /\ Head(todo).shard \in Shards
         /\ Head(todo).seq \in 0..MaxSeq
         /\ Tail(todo) \in Seq(Messages)
<1>1. Head(todo) \in Messages /\ Tail(todo) \in Seq(Messages)
  BY DEF TypeOK
<1>. QED
  BY <1>1 DEF Messages

(* Init establishes the invariant. *)
LEMMA InitInv == Init => Inv
<1> SUFFICES ASSUME Init
             PROVE  Inv
  OBVIOUS
<1>0. ASSUME NEW s \in Shards
      PROVE  lastApplied[s] = 0 /\ buffer[s] = {} /\ store[s] = <<>>
  BY DEF Init
<1>1. TypeOK
  <2>1. lastApplied \in [Shards -> Nat] /\ buffer \in [Shards -> SUBSET (2..MaxSeq)]
    BY DEF Init
  <2>2. <<>> \in Seq(Nat) /\ <<>> \in Seq(Messages)
    OBVIOUS
  <2>3. store \in [Shards -> Seq(Nat)] /\ todo \in Seq(Messages)
    BY <2>2 DEF Init
  <2>4. failures \in 0..MaxFailures
    BY ApplierAssumption DEF Init
  <2>5. draining \in BOOLEAN /\ single \in BOOLEAN /\ acked \in SUBSET Messages
    BY DEF Init
  <2>. QED
    BY <2>1, <2>3, <2>4, <2>5 DEF TypeOK
<1>2. InOrderExactlyOnce
  <2>1. Len(<<>>) = 0
    OBVIOUS
  <2>2. 1..0 = {}
    OBVIOUS
  <2>. QED
    BY <1>0, <2>1, <2>2 DEF InOrderExactlyOnce
<1>3. AckedIsKept /\ DrainsAfterWrite /\ NoFailureNoStale
  BY <1>0 DEF Init, AckedIsKept, DrainsAfterWrite, NoFailureNoStale
<1>. QED
  BY <1>1, <1>2, <1>3 DEF Inv

(* Every action preserves the types. *)
LEMMA TypeStep == TypeOK /\ [Next]_vars => TypeOK'
<1> SUFFICES ASSUME TypeOK, [Next]_vars
             PROVE  TypeOK'
  OBVIOUS
<1> USE ApplierAssumption
<1>1. ASSUME NEW m \in Messages, ApplyMessage(m)
      PROVE  TypeOK'
  BY <1>1 DEF ApplyMessage, TypeOK
<1>2. ASSUME NEW batch \in Batches, ApplyBatch(batch)
      PROVE  TypeOK'
  <2>1. batch \in Seq(Messages)
    BY DEF Batches
  <2>. QED
    BY <1>2, <2>1 DEF ApplyBatch, TypeOK
<1>3. ASSUME NEW s \in Shards, SkipSatellite(s)
      PROVE  TypeOK'
  BY <1>3, HeadTodo DEF SkipSatellite, Deciding, ReturnOk, TypeOK
<1>4. ASSUME NEW s \in Shards, RejectDuplicate(s)
      PROVE  TypeOK'
  BY <1>4, HeadTodo DEF RejectDuplicate, Deciding, ReturnOk, TypeOK
<1>5. ASSUME NEW s \in Shards, BufferOutOfOrder(s)
      PROVE  TypeOK'
  <2>1. Head(todo).seq \in 2..MaxSeq
    BY <1>5, HeadTodo DEF BufferOutOfOrder, Deciding, Next1, TypeOK
  <2>. QED
    BY <1>5, <2>1, HeadTodo DEF BufferOutOfOrder, Deciding, ReturnOk, TypeOK
<1>6. ASSUME NEW s \in Shards, WriteExpected(s)
      PROVE  TypeOK'
  BY <1>6 DEF WriteExpected, WriteNext, Next1, TypeOK
<1>7. ASSUME NEW s \in Shards, FailExpected(s)
      PROVE  TypeOK'
  BY <1>7 DEF FailExpected, WriteFails, TypeOK
<1>8. ASSUME NEW s \in Shards, DrainWrite(s)
      PROVE  TypeOK'
  BY <1>8 DEF DrainWrite, WriteNext, Next1, TypeOK
<1>9. ASSUME NEW s \in Shards, DrainFail(s)
      PROVE  TypeOK'
  <2>1. failures' \in 0..MaxFailures
    BY <1>9 DEF DrainFail, WriteFails, TypeOK
  <2>2. acked' \in SUBSET Messages /\ todo' \in Seq(Messages)
    BY <1>9, HeadTodo DEF DrainFail, Draining, ReturnOk, TypeOK
  <2>. QED
    BY <1>9, <2>1, <2>2 DEF DrainFail, ReturnOk, TypeOK
<1>10. ASSUME NEW s \in Shards, DrainEnd(s)
       PROVE  TypeOK'
  BY <1>10, HeadTodo DEF DrainEnd, Draining, ReturnOk, TypeOK
<1>11. CASE UNCHANGED vars
  BY <1>11 DEF vars, TypeOK
<1>. QED
  BY <1>1, <1>2, <1>3, <1>4, <1>5, <1>6, <1>7, <1>8, <1>9, <1>10, <1>11
     DEF Next, Handle

(* A write appends the next number to the log and moves lastApplied with it. *)
LEMMA WriteKeepsOrder ==
  ASSUME TypeOK, InOrderExactlyOnce,
         NEW s \in Shards, s \notin Satellites, WriteNext(s)
  PROVE  InOrderExactlyOnce'
<1> SUFFICES ASSUME NEW t \in Shards
             PROVE  /\ Len(store'[t]) = lastApplied'[t]
                    /\ \A i \in 1..Len(store'[t]) : store'[t][i] = i
                    /\ t \in Satellites => store'[t] = <<>>
  BY DEF InOrderExactlyOnce
<1>1. CASE t = s
  <2>1. /\ store'[s] = Append(store[s], Next1(s))
        /\ lastApplied'[s] = Next1(s)
        /\ store[s] \in Seq(Nat)
        /\ Len(store[s]) = lastApplied[s]
        /\ Next1(s) = Len(store[s]) + 1
    BY DEF WriteNext, TypeOK, InOrderExactlyOnce, Next1
  <2>2. \A i \in 1..Len(store[s]) : store[s][i] = i
    BY DEF InOrderExactlyOnce
  <2>. QED
    BY <1>1, <2>1, <2>2
<1>2. CASE t # s
  <2>1. store'[t] = store[t] /\ lastApplied'[t] = lastApplied[t]
    BY <1>2 DEF WriteNext, TypeOK
  <2>. QED
    BY <2>1 DEF InOrderExactlyOnce
<1>. QED
  BY <1>1, <1>2

(* What was kept stays kept: lastApplied only grows, and a message leaves   *)
(* the buffer only when it is written.                                      *)
LEMMA KeptStaysKept ==
  ASSUME TypeOK, AckedIsKept, NEW s \in Shards,
         \/ lastApplied' = lastApplied
         \/ lastApplied' = [lastApplied EXCEPT ![s] = Next1(s)],
         \A t \in Shards : \A q \in buffer[t] :
            q \in buffer'[t] \/ q <= lastApplied'[t],
         \A m \in acked' \ acked :
            m.shard \in Replicated =>
              m.seq <= lastApplied'[m.shard] \/ m.seq \in buffer'[m.shard]
  PROVE  AckedIsKept'
<1>1. ASSUME NEW t \in Shards
      PROVE  /\ lastApplied[t] \in Nat
             /\ lastApplied'[t] \in Nat
             /\ lastApplied[t] <= lastApplied'[t]
  <2>1. lastApplied[t] \in Nat
    BY DEF TypeOK
  <2>2. lastApplied'[t] \in {lastApplied[t], lastApplied[t] + 1}
    BY DEF TypeOK, Next1
  <2>. QED
    BY <2>1, <2>2
<1> SUFFICES ASSUME NEW m \in acked', m.shard \in Replicated, m \in acked
             PROVE  m.seq <= lastApplied'[m.shard] \/ m.seq \in buffer'[m.shard]
  BY DEF AckedIsKept
<1>2. m.shard \in Shards /\ m.seq \in Nat
  BY DEF TypeOK, Messages, Replicated
<1>3. CASE m.seq <= lastApplied[m.shard]
  BY <1>1, <1>2, <1>3
<1>4. CASE m.seq \in buffer[m.shard]
  BY <1>2, <1>4
<1>. QED
  BY <1>3, <1>4 DEF AckedIsKept

----------------------------------------------------------------------------
(* The invariant is inductive. *)
LEMMA StepInv == Inv /\ [Next]_vars => Inv'
<1> SUFFICES ASSUME Inv, [Next]_vars
             PROVE  Inv'
  OBVIOUS
<1> USE ApplierAssumption
<1>t. TypeOK /\ TypeOK'
  BY TypeStep DEF Inv
<1>1. ASSUME NEW m \in Messages, ApplyMessage(m)
      PROVE  Inv'
  BY <1>1, <1>t DEF ApplyMessage, Inv, InOrderExactlyOnce, AckedIsKept,
     DrainsAfterWrite, NoFailureNoStale, Draining, Next1
<1>2. ASSUME NEW batch \in Batches, ApplyBatch(batch)
      PROVE  Inv'
  BY <1>2, <1>t DEF ApplyBatch, Inv, InOrderExactlyOnce, AckedIsKept,
     DrainsAfterWrite, NoFailureNoStale, Draining, Next1
<1>3. ASSUME NEW s \in Shards, SkipSatellite(s)
      PROVE  Inv'
  <2>1. AckedIsKept'
    BY <1>3, <1>t, HeadTodo, KeptStaysKept
       DEF SkipSatellite, Deciding, ReturnOk, Inv, Replicated, TypeOK
  <2>2. InOrderExactlyOnce'
    BY <1>3 DEF SkipSatellite, Inv, InOrderExactlyOnce
  <2>3. DrainsAfterWrite' /\ NoFailureNoStale'
    BY <1>3 DEF SkipSatellite, Deciding, Inv, DrainsAfterWrite,
       NoFailureNoStale, Draining, Next1
  <2>. QED
    BY <1>t, <2>1, <2>2, <2>3 DEF Inv
<1>4. ASSUME NEW s \in Shards, RejectDuplicate(s)
      PROVE  Inv'
  <2>1. AckedIsKept'
    BY <1>4, <1>t, HeadTodo, KeptStaysKept
       DEF RejectDuplicate, Deciding, ReturnOk, Inv, TypeOK
  <2>2. InOrderExactlyOnce'
    BY <1>4 DEF RejectDuplicate, Inv, InOrderExactlyOnce
  <2>3. DrainsAfterWrite' /\ NoFailureNoStale'
    BY <1>4 DEF RejectDuplicate, Deciding, Inv, DrainsAfterWrite,
       NoFailureNoStale, Draining, Next1
  <2>. QED
    BY <1>t, <2>1, <2>2, <2>3 DEF Inv
<1>5. ASSUME NEW s \in Shards, BufferOutOfOrder(s)
      PROVE  Inv'
  <2>1. AckedIsKept'
    BY <1>5, <1>t, HeadTodo, KeptStaysKept
       DEF BufferOutOfOrder, Deciding, ReturnOk, Inv, TypeOK
  <2>2. InOrderExactlyOnce'
    BY <1>5 DEF BufferOutOfOrder, Inv, InOrderExactlyOnce
  <2>3. DrainsAfterWrite'
    BY <1>5 DEF BufferOutOfOrder, Deciding, Inv, DrainsAfterWrite
  <2>4. NoFailureNoStale'
    BY <1>5, <1>t, HeadTodo DEF BufferOutOfOrder, Deciding, Inv,
       NoFailureNoStale, Draining, Next1, TypeOK
  <2>. QED
    BY <1>t, <2>1, <2>2, <2>3, <2>4 DEF Inv
<1>6. ASSUME NEW s \in Shards, WriteExpected(s)
      PROVE  Inv'
  <2>0. /\ lastApplied' = [lastApplied EXCEPT ![s] = Next1(s)]
        /\ lastApplied'[s] = lastApplied[s] + 1
        /\ lastApplied[s] \in Nat
        /\ buffer' = buffer /\ todo' = todo /\ acked' = acked
        /\ failures' = failures /\ draining' = TRUE
        /\ todo # <<>> /\ Head(todo).shard = s /\ ~draining
        /\ Head(todo).seq = lastApplied[s] + 1
    BY <1>6, <1>t DEF WriteExpected, WriteNext, Deciding, Next1, TypeOK
  <2>1. AckedIsKept'
    BY <2>0, <1>t, KeptStaysKept DEF Inv
  <2>2. InOrderExactlyOnce'
    BY <1>6, <1>t, WriteKeepsOrder DEF WriteExpected, Inv
  <2>3. DrainsAfterWrite'
    BY <1>6, <2>0 DEF WriteExpected, DrainsAfterWrite, Replicated
  <2>4. NoFailureNoStale'
    <3> SUFFICES ASSUME failures = 0, NEW t \in Shards, NEW q \in buffer[t]
                 PROVE  /\ q > lastApplied'[t]
                        /\ t # s => q > lastApplied'[t] + 1
      BY <2>0 DEF NoFailureNoStale, Draining, Next1
    <3>1. q > lastApplied[t] + 1
      BY <2>0 DEF Inv, NoFailureNoStale, Draining, Next1
    <3>2. t # s => lastApplied'[t] = lastApplied[t]
      BY <2>0
    <3>3. q \in Nat /\ lastApplied[t] \in Nat
      BY <1>t DEF TypeOK
    <3>. QED
      BY <2>0, <3>1, <3>2, <3>3
  <2>. QED
    BY <1>t, <2>1, <2>2, <2>3, <2>4 DEF Inv
<1>7. ASSUME NEW s \in Shards, FailExpected(s)
      PROVE  Inv'
  <2>1. failures' # 0
    BY <1>7, <1>t DEF FailExpected, WriteFails, TypeOK
  <2>. QED
    BY <1>7, <1>t, <2>1 DEF FailExpected, Deciding, Inv, InOrderExactlyOnce,
       AckedIsKept, DrainsAfterWrite, NoFailureNoStale
<1>8. ASSUME NEW s \in Shards, DrainWrite(s)
      PROVE  Inv'
  <2>0. /\ lastApplied' = [lastApplied EXCEPT ![s] = Next1(s)]
        /\ lastApplied'[s] = lastApplied[s] + 1
        /\ lastApplied[s] \in Nat
        /\ buffer' = [buffer EXCEPT ![s] = @ \ {Next1(s)}]
        /\ buffer'[s] = buffer[s] \ {lastApplied[s] + 1}
        /\ todo' = todo /\ acked' = acked
        /\ failures' = failures /\ draining' = draining
        /\ todo # <<>> /\ Head(todo).shard = s /\ draining
    BY <1>8, <1>t DEF DrainWrite, WriteNext, Draining, Next1, TypeOK
  <2>1. AckedIsKept'
    <3>1. ASSUME NEW t \in Shards, NEW q \in buffer[t]
          PROVE  q \in buffer'[t] \/ q <= lastApplied'[t]
      BY <2>0, <1>t DEF TypeOK
    <3>. QED
      BY <2>0, <3>1, <1>t, KeptStaysKept DEF Inv
  <2>2. InOrderExactlyOnce'
    <3>1. s \notin Satellites
      BY <2>0 DEF Inv, DrainsAfterWrite, Replicated
    <3>. QED
      BY <1>8, <1>t, <3>1, WriteKeepsOrder DEF DrainWrite, Inv
  <2>3. DrainsAfterWrite'
    <3>1. Head(todo).seq \in Nat
      BY <2>0, <1>t, HeadTodo
    <3>. QED
      BY <2>0, <3>1 DEF Inv, DrainsAfterWrite
  <2>4. NoFailureNoStale'
    <3> SUFFICES ASSUME failures = 0, NEW t \in Shards, NEW q \in buffer'[t]
                 PROVE  /\ q > lastApplied'[t]
                        /\ t # s => q > lastApplied'[t] + 1
      BY <2>0 DEF NoFailureNoStale, Draining, Next1
    <3>1. CASE t = s
      <4>1. q \in buffer[s] /\ q # lastApplied[s] + 1
        BY <2>0, <3>1
      <4>2. q > lastApplied[s] /\ q \in Nat
        BY <4>1, <1>t DEF Inv, NoFailureNoStale, TypeOK
      <4>. QED
        BY <2>0, <3>1, <4>1, <4>2
    <3>2. CASE t # s
      BY <2>0, <3>2, <1>t DEF Inv, NoFailureNoStale, Draining, Next1, TypeOK
    <3>. QED
      BY <3>1, <3>2
  <2>. QED
    BY <1>t, <2>1, <2>2, <2>3, <2>4 DEF Inv
<1>9. ASSUME NEW s \in Shards, DrainFail(s)
      PROVE  Inv'
  <2>1. failures' # 0
    BY <1>9, <1>t DEF DrainFail, WriteFails, TypeOK
  <2>2. AckedIsKept'
    BY <1>9, <1>t, HeadTodo, KeptStaysKept
       DEF DrainFail, Draining, ReturnOk, Inv, DrainsAfterWrite, TypeOK
  <2>. QED
    BY <1>9, <1>t, <2>1, <2>2 DEF DrainFail, Inv, InOrderExactlyOnce,
       DrainsAfterWrite, NoFailureNoStale
<1>10. ASSUME NEW s \in Shards, DrainEnd(s)
       PROVE  Inv'
  <2>1. AckedIsKept'
    BY <1>10, <1>t, HeadTodo, KeptStaysKept
       DEF DrainEnd, Draining, ReturnOk, Inv, DrainsAfterWrite, TypeOK
  <2>2. NoFailureNoStale'
    <3> SUFFICES ASSUME failures = 0, NEW t \in Shards, NEW q \in buffer[t]
                 PROVE  q > lastApplied[t] /\ q > Next1(t)
      BY <1>10 DEF DrainEnd, NoFailureNoStale, Draining, Next1
    <3>1. q > lastApplied[t] /\ (t # s => q > Next1(t))
      BY <1>10 DEF DrainEnd, Draining, Inv, NoFailureNoStale
    <3>2. t = s => q # Next1(t)
      BY <1>10 DEF DrainEnd
    <3>. QED
      BY <3>1, <3>2, <1>t DEF Next1, TypeOK
  <2>3. InOrderExactlyOnce' /\ DrainsAfterWrite'
    BY <1>10 DEF DrainEnd, Inv, InOrderExactlyOnce, DrainsAfterWrite
  <2>. QED
    BY <1>t, <2>1, <2>2, <2>3 DEF Inv
<1>11. CASE UNCHANGED vars
  BY <1>11, <1>t DEF vars, Inv, InOrderExactlyOnce, AckedIsKept,
     DrainsAfterWrite, NoFailureNoStale, Draining, Next1
<1>. QED
  BY <1>1, <1>2, <1>3, <1>4, <1>5, <1>6, <1>7, <1>8, <1>9, <1>10, <1>11
     DEF Next, Handle

(* The inductive invariant holds in every reachable state. *)
THEOREM Invariance == Spec => []Inv
BY InitInv, StepInv, PTL DEF Spec

(* Type correctness; in particular a buffered sequence number is never the  *)
(* sentinel 0 nor the first expected one.                                   *)
THEOREM TypeCorrect == Spec => []TypeOK
<1>1. Inv => TypeOK
  BY DEF Inv
<1>. QED
  BY <1>1, Invariance, PTL

(* Idempotent, ordered delivery: each shard holds exactly 1..lastApplied in *)
(* order, satellites hold nothing.                                          *)
THEOREM OrderedDelivery == Spec => []InOrderExactlyOnce
<1>1. Inv => InOrderExactlyOnce
  BY DEF Inv
<1>. QED
  BY <1>1, Invariance, PTL

(* A return code of 0 never stands for a message the applier dropped. *)
THEOREM AcknowledgedKept == Spec => []AckedIsKept
<1>1. Inv => AckedIsKept
  BY DEF Inv
<1>. QED
  BY <1>1, Invariance, PTL

(* Without failing writes nothing applicable is left in the buffer. *)
THEOREM DrainIsComplete == Spec => []BufferedWaitsForGap
<1>1. Inv => BufferedWaitsForGap
  BY DEF Inv, NoFailureNoStale, BufferedWaitsForGap, Draining
<1>. QED
  BY <1>1, Invariance, PTL

----------------------------------------------------------------------------
(* The abstract state of the refinement. *)
Log == [s \in Replicated |-> store[s]]

(* One write is one step of the ordered log. *)
LEMMA WriteRefines ==
  ASSUME Inv, NEW s \in Replicated, WriteNext(s)
  PROVE  OrderedLog!Append1(s)
<1>1. /\ s \in Shards /\ store[s] \in Seq(Nat)
      /\ store' = [store EXCEPT ![s] = Append(@, Next1(s))]
      /\ Next1(s) = Len(store[s]) + 1
  BY DEF Replicated, WriteNext, Inv, TypeOK, InOrderExactlyOnce, Next1
<1>2. \A t \in Replicated :
        Log'[t] = IF t = s THEN Append(Log[s], Len(Log[s]) + 1) ELSE Log[t]
  BY <1>1 DEF Log, Replicated, Inv, TypeOK
<1>3. Log' = [Log EXCEPT ![s] = Append(@, Len(@) + 1)]
  BY <1>2 DEF Log
<1>. QED
  BY <1>3 DEF OrderedLog!Append1, Log

(* Every step of the applier is a step of the ordered log or a stutter. *)
LEMMA StepRefines == Inv /\ [Next]_vars => [OrderedLog!Next]_Log
<1> SUFFICES ASSUME Inv, [Next]_vars
             PROVE  [OrderedLog!Next]_Log
  OBVIOUS
<1>1. ASSUME store' = store
      PROVE  UNCHANGED Log
  BY <1>1 DEF Log
<1>2. ASSUME NEW s \in Shards, WriteExpected(s)
      PROVE  OrderedLog!Next
  BY <1>2, WriteRefines DEF WriteExpected, Replicated, OrderedLog!Next
<1>3. ASSUME NEW s \in Shards, DrainWrite(s)
      PROVE  OrderedLog!Next
  <2>1. s \in Replicated
    BY <1>3 DEF DrainWrite, Draining, Inv, DrainsAfterWrite
  <2>. QED
    BY <1>3, <2>1, WriteRefines DEF DrainWrite, OrderedLog!Next
<1>4. CASE UNCHANGED vars
  BY <1>1, <1>4 DEF vars
<1>5. ASSUME NEW s \in Shards,
             \/ SkipSatellite(s) \/ RejectDuplicate(s) \/ BufferOutOfOrder(s)
             \/ FailExpected(s) \/ DrainFail(s) \/ DrainEnd(s)
      PROVE  UNCHANGED Log
  BY <1>1, <1>5 DEF SkipSatellite, RejectDuplicate, BufferOutOfOrder,
     FailExpected, DrainFail, DrainEnd
<1>6. ASSUME NEW m \in Messages, ApplyMessage(m)
      PROVE  UNCHANGED Log
  BY <1>1, <1>6 DEF ApplyMessage
<1>7. ASSUME NEW batch \in Batches, ApplyBatch(batch)
      PROVE  UNCHANGED Log
  BY <1>1, <1>7 DEF ApplyBatch
<1>. QED
  BY <1>2, <1>3, <1>4, <1>5, <1>6, <1>7 DEF Next, Handle

(* The applier implements the ordered log of the replicated shards. *)
THEOREM Refinement == Spec => ImplementsOrderedLog
<1>1. Init => OrderedLog!Init
  BY DEF Init, OrderedLog!Init, Replicated
<1>2. Inv /\ [Next]_vars => [OrderedLog!Next]_Log
  BY StepRefines
<1>. QED
  BY <1>1, <1>2, Invariance, PTL
     DEF Spec, ImplementsOrderedLog, OrderedLog!Spec, Log
=============================================================================
