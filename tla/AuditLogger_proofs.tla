------------------------- MODULE AuditLogger_proofs -------------------------
(***************************************************************************)
(* The safety of AuditLogger for any number of requests and events.        *)
(***************************************************************************)
EXTENDS AuditLogger, SequenceTheorems, TLAPS

(* Where the writer thread can be at each point of the feature's life. *)
Life ==
  /\ running <=> feature = "started"
  /\ feature \in {"new", "prepared"} => writer = "none"
  /\ feature \in {"started", "joining"} => writer # "none"
  /\ feature = "stopped" => writer = "done"
  /\ feature = "gone" => writer \in {"none", "done"}
  /\ writer = "none" => beforeStop = 0

(* The events counted by stop() are still among those logged. *)
CountedBefore == beforeStop <= Len(logged)

(* Between two batches nothing is in the hands of the writer. *)
HandsEmpty == writer \notin {"write", "write last"} => batch = <<>> /\ stream = <<>>

(* From where the writer leaves its loop, the events logged before stop()   *)
(* are in the file.                                                         *)
Drained ==
  writer \in {"final", "write last", "done"} => ~running /\ Len(file) >= beforeStop

(* A call that is about to log has an event left. *)
CallsBounded == \A p \in Producers : calling[p] => count[p] < MaxEvents

Inv ==
  /\ TypeOK
  /\ CallsBounded
  /\ NothingLostOrReordered
  /\ Life
  /\ CountedBefore
  /\ HandsEmpty
  /\ Drained

----------------------------------------------------------------------------

(* One event moves from the batch to the end of the stream. *)
LEMMA MoveOne ==
  ASSUME NEW S, NEW s \in Seq(S), NEW t \in Seq(S), t # <<>>
  PROVE  /\ Append(s, Head(t)) \in Seq(S)
         /\ Tail(t) \in Seq(S)
         /\ Append(s, Head(t)) \o Tail(t) = s \o t
PROOF
<1>1. /\ Append(s, Head(t)) \in Seq(S)
      /\ Tail(t) \in Seq(S)
  BY HeadTailProperties
<1>2. Len(Append(s, Head(t)) \o Tail(t)) = Len(s \o t)
  BY <1>1, ConcatProperties, HeadTailProperties, LenProperties
<1>3. \A i \in 1..Len(s \o t) : (Append(s, Head(t)) \o Tail(t))[i] = (s \o t)[i]
  BY <1>1, ConcatProperties, HeadTailProperties, LenProperties
<1>4. s \o t \in Seq(S) /\ Append(s, Head(t)) \o Tail(t) \in Seq(S)
  BY <1>1, ConcatProperties
<1>. QED BY <1>1, <1>2, <1>3, <1>4, SeqEqual

(* Appending to the last of several sequences appends to all of them. *)
LEMMA AppendLast ==
  ASSUME NEW S, NEW s \in Seq(S), NEW t \in Seq(S), NEW e \in S
  PROVE  s \o Append(t, e) = Append(s \o t, e)
PROOF
<1>0. /\ Len(Append(t, e)) = Len(t) + 1
      /\ \A i \in 1..Len(t) : Append(t, e)[i] = t[i]
      /\ Append(t, e)[Len(t) + 1] = e
  OBVIOUS
<1>1. Append(t, e) \in Seq(S) /\ s \o t \in Seq(S)
  BY ConcatProperties
<1>2. s \o Append(t, e) \in Seq(S) /\ Append(s \o t, e) \in Seq(S)
  BY <1>1, ConcatProperties
<1>3. Len(s \o Append(t, e)) = Len(Append(s \o t, e))
  BY <1>1, ConcatProperties, LenProperties
<1>4. ASSUME NEW i \in 1..Len(s \o Append(t, e))
      PROVE  (s \o Append(t, e))[i] = Append(s \o t, e)[i]
  <2>1. /\ Len(s) \in Nat /\ Len(t) \in Nat /\ i \in 1..(Len(s) + Len(t) + 1)
        /\ Len(s \o t) = Len(s) + Len(t)
    BY <1>0, <1>1, ConcatProperties, LenProperties
  <2>2. (s \o Append(t, e))[i] = IF i <= Len(s) THEN s[i] ELSE Append(t, e)[i - Len(s)]
    BY <1>0, <1>1, <2>1, ConcatProperties
  <2>3. Append(s \o t, e)[i] = IF i <= Len(s) + Len(t) THEN (s \o t)[i] ELSE e
    BY <1>1, <2>1
  <2>4. i <= Len(s) + Len(t) => (s \o t)[i] = IF i <= Len(s) THEN s[i] ELSE t[i - Len(s)]
    BY <2>1, ConcatProperties
  <2>. QED BY <1>0, <2>1, <2>2, <2>3, <2>4
<1>. QED BY <1>2, <1>3, <1>4, SeqEqual

LEMMA InitInv == Init => Inv
PROOF
<1>1. Init => TypeOK
  <2>1. <<>> \in Seq(Events)
    BY EmptySeq
  <2>2. 0 \in 0..MaxEvents
    BY AuditAssumption DEF AuditAssumption
  <2>3. Init => running \in BOOLEAN /\ calling \in [Producers -> BOOLEAN]
    BY Zenon DEF Init
  <2>4. Init => count \in [Producers -> 0..MaxEvents] /\ beforeStop \in Nat
    BY <2>2 DEF Init
  <2>. QED BY <2>1, <2>3, <2>4, Zenon DEF Init, TypeOK
<1>2. Init => NothingLostOrReordered
  BY DEF Init, NothingLostOrReordered
<1>3. Init => Life /\ HandsEmpty /\ Drained /\ CallsBounded /\ CountedBefore
  BY EmptySeq DEF Init, Life, HandsEmpty, Drained, CallsBounded, CountedBefore
<1>. QED BY <1>1, <1>2, <1>3 DEF Inv

(***************************************************************************)
(* Every step keeps the invariant; one lemma per part.                     *)
(***************************************************************************)

(* A call logs one of its own events. *)
LEMMA LogEffect ==
  ASSUME TypeOK, CallsBounded, NEW p \in Producers, Log(p)
  PROVE  /\ count' = [count EXCEPT ![p] = @ + 1]
         /\ calling' = [calling EXCEPT ![p] = FALSE]
         /\ buffer' = Append(buffer, Event(p)) /\ logged' = Append(logged, Event(p))
         /\ UNCHANGED <<file, stream, batch>>
         /\ count[p] + 1 \in 1..MaxEvents
         /\ Event(p) \in Events
PROOF
<1>1. /\ count[p] < MaxEvents
      /\ count' = [count EXCEPT ![p] = @ + 1]
      /\ calling' = [calling EXCEPT ![p] = FALSE]
      /\ buffer' = Append(buffer, Event(p)) /\ logged' = Append(logged, Event(p))
      /\ UNCHANGED <<file, stream, batch>>
  BY Zenon DEF Log, CallsBounded
<1>2. count \in [Producers -> 0..MaxEvents]
  BY Zenon DEF TypeOK
<1>3. count[p] + 1 \in 1..MaxEvents
  <2>1. count \in [Producers -> 0..MaxEvents] /\ count[p] < MaxEvents
    BY <1>1, <1>2
  <2>. QED BY <2>1, AuditAssumption DEF AuditAssumption
<1>4. Event(p) \in Events
  BY <1>3 DEF Event, Events
<1>. QED BY <1>1, <1>3, <1>4

LEMMA StepType == TypeOK /\ CallsBounded /\ [Next]_vars => TypeOK'
PROOF
<1>. SUFFICES ASSUME TypeOK, CallsBounded, [Next]_vars PROVE TypeOK'
  OBVIOUS
<1>. USE DEF TypeOK
<1>1. <<>> \in Seq(Events)
  BY EmptySeq
<1>2. CASE Prepare
  BY <1>2 DEF Prepare
<1>3. CASE Start
  BY <1>3 DEF Start
<1>4. CASE Stop
  BY <1>4, LenProperties DEF Stop
<1>5. CASE Join
  BY <1>5 DEF Join
<1>6. CASE Unprepare
  BY <1>1, <1>6 DEF Unprepare
<1>7. ASSUME NEW p \in Producers, LogEvent(p)
      PROVE  TypeOK'
  BY <1>7 DEF LogEvent
<1>8. ASSUME NEW p \in Producers, Log(p)
      PROVE  TypeOK'
  <2>. HIDE DEF TypeOK
  <2>1. /\ count' = [count EXCEPT ![p] = @ + 1]
        /\ calling' = [calling EXCEPT ![p] = FALSE]
        /\ buffer' = Append(buffer, Event(p)) /\ logged' = Append(logged, Event(p))
        /\ count[p] + 1 \in 1..MaxEvents
        /\ Event(p) \in Events
    BY <1>8, LogEffect
  <2>2. /\ count \in [Producers -> 0..MaxEvents]
        /\ calling \in [Producers -> BOOLEAN]
        /\ buffer \in Seq(Events) /\ logged \in Seq(Events)
    BY Zenon DEF TypeOK
  <2>3. count' \in [Producers -> 0..MaxEvents]
    BY <2>1, <2>2
  <2>4. calling' \in [Producers -> BOOLEAN]
    BY <2>1, <2>2
  <2>5. buffer' \in Seq(Events) /\ logged' \in Seq(Events)
    BY <2>1, <2>2
  <2>. QED BY <1>8, <2>3, <2>4, <2>5, Zenon DEF Log, TypeOK
<1>9. CASE Writer
  <2>1. CASE TakeBatch
    BY <1>1, <2>1 DEF TakeBatch, Take, WriterGoes
  <2>2. CASE TakeRemaining
    BY <1>1, <2>2 DEF TakeRemaining, Take, WriterGoes
  <2>3. CASE WriteEvent
    <3>1. stream' \in Seq(Events) /\ batch' \in Seq(Events)
      BY <2>3, MoveOne DEF WriteEvent
    <3>. QED BY <2>3, <3>1 DEF WriteEvent
  <2>4. ASSUME NEW from, NEW to \in {"check", "done"}, Flush(from, to)
        PROVE  TypeOK'
    <3>1. file \o stream \in Seq(Events)
      BY ConcatProperties
    <3>. QED BY <1>1, <2>4, <3>1 DEF Flush, WriterGoes
  <2>5. CASE LeaveLoop
    BY <2>5 DEF LeaveLoop, WriterGoes
  <2>6. CASE LoopAgain
    BY <2>6 DEF LoopAgain, WriterGoes
  <2>. QED BY <1>9, <2>1, <2>2, <2>3, <2>4, <2>5, <2>6 DEF Writer, FlushBatch, FlushLast
<1>10. CASE UNCHANGED vars
  BY <1>10 DEF vars
<1>. QED BY <1>2, <1>3, <1>4, <1>5, <1>6, <1>7, <1>8, <1>9, <1>10 DEF Next

LEMMA StepCalls == TypeOK /\ CallsBounded /\ [Next]_vars => CallsBounded'
PROOF
<1>. SUFFICES ASSUME TypeOK, CallsBounded, [Next]_vars,
                     NEW q \in Producers, calling'[q]
              PROVE  count'[q] < MaxEvents
  BY Zenon DEF CallsBounded
<1>1. /\ count \in [Producers -> 0..MaxEvents] /\ calling \in [Producers -> BOOLEAN]
      /\ calling[q] => count[q] < MaxEvents
  BY Zenon DEF TypeOK, CallsBounded
<1>2. CASE UNCHANGED <<count, calling>>
  BY <1>1, <1>2
<1>3. ASSUME NEW p \in Producers, LogEvent(p)
      PROVE  count'[q] < MaxEvents
  BY <1>1, <1>3 DEF LogEvent
<1>4. ASSUME NEW p \in Producers, Log(p)
      PROVE  count'[q] < MaxEvents
  BY <1>1, <1>4 DEF Log
<1>. QED BY <1>2, <1>3, <1>4
        DEF Next, vars, Prepare, Start, Stop, Join, Unprepare, Writer, TakeBatch, TakeRemaining,
            Take, WriteEvent, FlushBatch, FlushLast, Flush, LeaveLoop, LoopAgain, WriterGoes

LEMMA StepHands == Life /\ HandsEmpty /\ [Next]_vars => HandsEmpty'
PROOF
<1>. SUFFICES ASSUME Life, HandsEmpty, [Next]_vars PROVE HandsEmpty'
  OBVIOUS
<1>. USE DEF HandsEmpty
<1>1. CASE UNCHANGED <<writer, batch, stream>>
  BY <1>1
<1>2. CASE Start
  BY <1>2 DEF Start, Life
<1>3. CASE Writer
  BY <1>3 DEF Writer, TakeBatch, TakeRemaining, Take, WriteEvent, FlushBatch, FlushLast, Flush,
              LeaveLoop, LoopAgain, WriterGoes
<1>. QED BY <1>1, <1>2, <1>3
        DEF Next, vars, Prepare, Stop, Join, Unprepare, LogEvent, Log

LEMMA StepLife == TypeOK /\ Life /\ [Next]_vars => Life'
PROOF
<1>. SUFFICES ASSUME TypeOK, Life, [Next]_vars PROVE Life'
  OBVIOUS
<1>. USE DEF Life
<1>1. CASE UNCHANGED <<feature, running, writer, beforeStop>>
  BY <1>1, Zenon
<1>2. CASE Prepare
  BY <1>2, Zenon DEF Prepare
<1>3. CASE Start
  BY <1>3, Zenon DEF Start
<1>4. CASE Stop
  BY <1>4, Zenon DEF Stop
<1>5. CASE Join
  BY <1>5, Zenon DEF Join
<1>6. CASE Unprepare
  BY <1>6, Zenon DEF Unprepare
<1>7. CASE Writer
  <2>1. /\ writer \notin {"none", "done"} /\ writer' # "none"
        /\ UNCHANGED <<feature, running, beforeStop>>
    BY <1>7, Zenon DEF Writer, TakeBatch, TakeRemaining, Take, WriteEvent, FlushBatch, FlushLast, Flush,
              LeaveLoop, LoopAgain, WriterGoes
  <2>. QED BY <2>1, Zenon
<1>. QED BY <1>1, <1>2, <1>3, <1>4, <1>5, <1>6, <1>7, Zenon DEF Next, vars, LogEvent, Log

LEMMA StepOrder ==
  TypeOK /\ CallsBounded /\ HandsEmpty /\ Life /\ NothingLostOrReordered /\ [Next]_vars
  => NothingLostOrReordered'
PROOF
<1>. SUFFICES ASSUME TypeOK, CallsBounded, HandsEmpty, Life, NothingLostOrReordered,
                     [Next]_vars,
                     feature' # "gone"
              PROVE  file' \o stream' \o batch' \o buffer' = logged'
  BY DEF NothingLostOrReordered
<1>1. /\ file \in Seq(Events) /\ stream \in Seq(Events) /\ batch \in Seq(Events)
      /\ buffer \in Seq(Events) /\ logged \in Seq(Events) /\ <<>> \in Seq(Events)
  BY EmptySeq DEF TypeOK
<1>2. feature # "gone"
  BY DEF Next, vars, Prepare, Start, Stop, Join, Unprepare, LogEvent, Log, Writer,
        TakeBatch, TakeRemaining, Take, WriteEvent, FlushBatch, FlushLast, Flush, LeaveLoop,
        LoopAgain, WriterGoes
<1>3. file \o stream \o batch \o buffer = logged
  BY <1>2 DEF NothingLostOrReordered
<1>4. CASE UNCHANGED <<file, stream, batch, buffer, logged>>
  BY <1>3, <1>4
<1>5. ASSUME NEW p \in Producers, Log(p)
      PROVE  file' \o stream' \o batch' \o buffer' = logged'
  <2>1. file \o stream \o batch \in Seq(Events)
    BY <1>1, ConcatProperties
  <2>2. /\ Event(p) \in Events /\ UNCHANGED <<file, stream, batch>>
        /\ buffer' = Append(buffer, Event(p)) /\ logged' = Append(logged, Event(p))
    BY <1>5, LogEffect
  <2>3. (file \o stream \o batch) \o Append(buffer, Event(p))
          = Append((file \o stream \o batch) \o buffer, Event(p))
    BY <1>1, <2>1, <2>2, AppendLast
  <2>. QED BY <1>3, <2>2, <2>3
<1>6. ASSUME NEW from \in {"wait", "final"}, NEW to, Take(from, to)
      PROVE  file' \o stream' \o batch' \o buffer' = logged'
  <2>1. batch = <<>> /\ batch' = buffer /\ buffer' = <<>> /\ UNCHANGED <<file, stream, logged>>
    BY <1>6, Zenon DEF Take, WriterGoes, HandsEmpty
  <2>2. file \o stream \in Seq(Events) /\ file \o stream \o buffer \in Seq(Events)
    BY <1>1, ConcatProperties
  <2>. QED BY <1>1, <1>3, <2>1, <2>2, ConcatEmptySeq
<1>7. CASE WriteEvent
  <2>1. /\ batch # <<>> /\ stream' = Append(stream, Head(batch)) /\ batch' = Tail(batch)
        /\ UNCHANGED <<file, buffer, logged>>
    BY <1>7, Zenon DEF WriteEvent
  <2>2. /\ stream' \in Seq(Events) /\ batch' \in Seq(Events)
        /\ stream' \o batch' = stream \o batch
    BY <1>1, <2>1, MoveOne
  <2>3. ASSUME NEW a \in Seq(Events), NEW b \in Seq(Events)
        PROVE  (file \o a) \o b = file \o (a \o b)
    <3>1. file \in Seq(Events)
      BY <1>1
    <3>. QED BY <3>1, ConcatAssociative
  <2>4. (file \o stream') \o batch' = file \o (stream' \o batch')
    BY <2>2, <2>3
  <2>5. (file \o stream) \o batch = file \o (stream \o batch)
    BY <1>1, <2>3
  <2>6. (file \o stream') \o batch' = (file \o stream) \o batch
    BY <2>2, <2>4, <2>5
  <2>. QED BY <1>3, <2>1, <2>6, Zenon
<1>8. ASSUME NEW from, NEW to, Flush(from, to)
      PROVE  file' \o stream' \o batch' \o buffer' = logged'
  <2>1. batch = <<>> /\ file' = file \o stream /\ stream' = <<>> /\ UNCHANGED <<batch, buffer, logged>>
    BY <1>8, Zenon DEF Flush, WriterGoes
  <2>2. file \o stream \in Seq(Events)
    BY <1>1, ConcatProperties
  <2>. QED BY <1>3, <2>1, <2>2, ConcatEmptySeq
<1>9. CASE Unprepare
  BY <1>9, Zenon DEF Unprepare
<1>. QED BY <1>4, <1>5, <1>6, <1>7, <1>8, <1>9, Zenon
        DEF Next, vars, Prepare, Start, Stop, Join, LogEvent, Writer, TakeBatch, TakeRemaining,
            FlushBatch, FlushLast, LeaveLoop, LoopAgain, WriterGoes

LEMMA StepDrained ==
  TypeOK /\ Life /\ HandsEmpty /\ CountedBefore /\ NothingLostOrReordered /\ Drained /\ [Next]_vars
  => Drained'
PROOF
<1>. SUFFICES ASSUME TypeOK, Life, HandsEmpty, CountedBefore, NothingLostOrReordered, Drained,
                     [Next]_vars
              PROVE  Drained'
  OBVIOUS
<1>0. file \in Seq(Events) /\ stream \in Seq(Events) /\ logged \in Seq(Events) /\ beforeStop \in Nat
  BY DEF TypeOK
<1>1. CASE UNCHANGED <<writer, running, file, beforeStop>>
  BY <1>1, Zenon DEF Drained
<1>2. CASE Start
  BY <1>2, Zenon DEF Start, Drained
<1>3. CASE Stop
  BY <1>3, Zenon DEF Stop, Drained, Life
<1>4. CASE TakeBatch \/ TakeRemaining
  BY <1>4, Zenon DEF TakeBatch, TakeRemaining, Take, WriterGoes, Drained
<1>5. CASE FlushBatch
  BY <1>5, Zenon DEF FlushBatch, Flush, WriterGoes, Drained
<1>6. CASE FlushLast
  <2>1. ~running /\ Len(file) >= beforeStop
    BY <1>6, Zenon DEF FlushLast, Flush, WriterGoes, Drained
  <2>2. Len(file \o stream) >= beforeStop
    BY <1>0, <2>1, ConcatProperties, LenProperties
  <2>. QED BY <1>6, <2>1, <2>2, Zenon DEF FlushLast, Flush, WriterGoes, Drained
<1>7. CASE LeaveLoop
  <2>1. /\ ~running /\ buffer = <<>> /\ batch = <<>> /\ stream = <<>> /\ feature # "gone"
        /\ UNCHANGED <<running, file, beforeStop>>
    BY <1>7, Zenon DEF LeaveLoop, WriterGoes, HandsEmpty, Life
  <2>2. file = logged
    BY <1>0, <2>1, ConcatEmptySeq DEF NothingLostOrReordered
  <2>3. Len(file) >= beforeStop
    BY <2>2 DEF CountedBefore
  <2>. QED BY <2>1, <2>3, Zenon DEF Drained
<1>8. CASE LoopAgain
  BY <1>8, Zenon DEF LoopAgain, WriterGoes, Drained
<1>. QED BY <1>1, <1>2, <1>3, <1>4, <1>5, <1>6, <1>7, <1>8, Zenon
        DEF Next, vars, Prepare, Join, Unprepare, LogEvent, Log, Writer, WriteEvent

LEMMA StepCounted == TypeOK /\ CallsBounded /\ CountedBefore /\ [Next]_vars => CountedBefore'
PROOF
<1>. SUFFICES ASSUME TypeOK, CallsBounded, CountedBefore, [Next]_vars PROVE CountedBefore'
  OBVIOUS
<1>0. logged \in Seq(Events) /\ beforeStop \in Nat /\ beforeStop <= Len(logged)
  BY DEF TypeOK, CountedBefore
<1>1. CASE UNCHANGED <<logged, beforeStop>>
  BY <1>1, Zenon DEF CountedBefore
<1>2. CASE Stop
  <2>1. beforeStop' = Len(logged) /\ logged' = logged
    BY <1>2, Zenon DEF Stop
  <2>. QED BY <1>0, <2>1, LenProperties DEF CountedBefore
<1>3. ASSUME NEW p \in Producers, Log(p)
      PROVE  CountedBefore'
  <2>1. logged' = Append(logged, Event(p)) /\ Event(p) \in Events
    BY <1>3, LogEffect
  <2>2. beforeStop' = beforeStop
    BY <1>3, Zenon DEF Log
  <2>3. Len(logged') = Len(logged) + 1
    BY <1>0, <2>1
  <2>. QED BY <1>0, <2>2, <2>3, LenProperties DEF CountedBefore
<1>. QED BY <1>1, <1>2, <1>3, Zenon
        DEF Next, vars, Prepare, Start, Join, Unprepare, LogEvent, Writer, TakeBatch, TakeRemaining,
            Take, WriteEvent, FlushBatch, FlushLast, Flush, LeaveLoop, LoopAgain, WriterGoes

THEOREM Invariance == Spec => []Inv
PROOF
<1>1. Inv /\ [Next]_vars => Inv'
  BY StepType, StepCalls, StepOrder, StepLife, StepCounted, StepHands, StepDrained, Zenon DEF Inv
<1>. QED BY <1>1, InitInv, PTL DEF Spec

(* Every state of the logger is well typed. *)
THEOREM TypeCorrect == Spec => []TypeOK
PROOF
<1>1. Inv => TypeOK
  BY DEF Inv
<1>. QED BY <1>1, Invariance, PTL

(* For any requests and events: swapping, writing and flushing by the       *)
(* writer thread while others append loses, repeats and reorders nothing.   *)
THEOREM KeptInOrder == Spec => []NothingLostOrReordered
PROOF
<1>1. Inv => NothingLostOrReordered
  BY DEF Inv
<1>. QED BY <1>1, Invariance, PTL

(* When stop() has returned, every event logged before it was called is in  *)
(* the file.                                                                *)
THEOREM Drains == Spec => []StopDrains
PROOF
<1>1. Inv => StopDrains
  <2>. SUFFICES ASSUME Inv, feature \in {"stopped", "gone"} PROVE Len(file) >= beforeStop
    BY Zenon DEF StopDrains
  <2>1. CASE writer = "done"
    BY <2>1, Zenon DEF Inv, Drained
  <2>2. CASE writer = "none"
    <3>1. beforeStop = 0 /\ file \in Seq(Events)
      BY <2>2, Zenon DEF Inv, Life, TypeOK
    <3>. QED BY <3>1, LenProperties
  <2>. QED BY <2>1, <2>2, Zenon DEF Inv, Life
<1>. QED BY <1>1, Invariance, PTL
=============================================================================
