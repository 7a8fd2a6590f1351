---------------------------- MODULE AuditLogger ----------------------------
(***************************************************************************)
(* Enterprise/Audit/AuditLogger.{h,cpp} as AuditFeature.{h,cpp} drives it: *)
(* requests put events into a buffer, a writer thread takes the whole      *)
(* buffer at a time, writes it to the outputs and flushes them.            *)
(*                                                                         *)
(* The server thread prepares, starts, stops and unprepares the feature.   *)
(* Requests are over when it unprepares: _logger is not guarded.           *)
(*                                                                         *)
(* Every output gets the same events, so there is one here: the events     *)
(* written to the stream and those that flush has put into the file.  The  *)
(* wait of the writer times out, so it always ends and no notification is  *)
(* needed for it.                                                          *)
(***************************************************************************)
EXTENDS Naturals, Sequences, FiniteSets

CONSTANTS
  Producers,     \* the threads that execute requests
  MaxEvents      \* bound on the events of each producer

ASSUME AuditAssumption == MaxEvents \in Nat

VARIABLES
  feature,       \* the life of the feature and its logger
  running,       \* _running
  buffer,        \* _buffer
  writer,        \* where drainLoop is
  batch,         \* the events drainLoop has taken and not yet written
  stream,        \* events in the output stream
  file,          \* events in the file
  count,         \* count[p]: how many events p has logged
  calling,       \* calling[p]: p has seen _logger and is about to log
  logged,        \* history: the events in the order in which log() took them
  beforeStop     \* history: how many of them it had taken when stop() was called

vars == <<feature, running, buffer, writer, batch, stream, file, count, calling,
          logged, beforeStop>>

Init ==
  /\ feature = "new"
  /\ running = FALSE
  /\ buffer = <<>>
  /\ writer = "none"
  /\ batch = <<>>
  /\ stream = <<>>
  /\ file = <<>>
  /\ count = [p \in Producers |-> 0]
  /\ calling = [p \in Producers |-> FALSE]
  /\ logged = <<>>
  /\ beforeStop = 0

(***************************************************************************)
(* The server thread.                                                      *)
(***************************************************************************)

Prepare ==
  /\ feature = "new"
  /\ feature' = "prepared"
  /\ UNCHANGED <<running, buffer, writer, batch, stream, file, count, calling, logged, beforeStop>>

Start ==
  /\ feature = "prepared"
  /\ feature' = "started"
  /\ running' = TRUE
  /\ writer' = "wait"
  /\ UNCHANGED <<buffer, batch, stream, file, count, calling, logged, beforeStop>>

Stop ==
  /\ feature = "started"
  /\ feature' = "joining"
  /\ running' = FALSE
  /\ beforeStop' = Len(logged)
  /\ UNCHANGED <<buffer, writer, batch, stream, file, count, calling, logged>>

Join ==
  /\ feature = "joining"
  /\ writer = "done"
  /\ feature' = "stopped"
  /\ UNCHANGED <<running, buffer, writer, batch, stream, file, count, calling, logged, beforeStop>>

(* The logger is destroyed, and with it what is in its buffer. *)
Unprepare ==
  /\ feature \in {"prepared", "stopped"}
  /\ \A p \in Producers : ~calling[p]
  /\ feature' = "gone"
  /\ buffer' = <<>>
  /\ UNCHANGED <<running, writer, batch, stream, file, count, calling, logged, beforeStop>>

(***************************************************************************)
(* Requests.                                                               *)
(***************************************************************************)

(* The test of _logger; without a logger the event is dropped. *)
LogEvent(p) ==
  /\ ~calling[p]
  /\ count[p] < MaxEvents
  /\ feature \notin {"new", "gone"}
  /\ calling' = [calling EXCEPT ![p] = TRUE]
  /\ UNCHANGED <<feature, running, buffer, writer, batch, stream, file, count, logged, beforeStop>>

Event(p) == [by |-> p, number |-> count[p] + 1]

Log(p) ==
  /\ calling[p]
  /\ calling' = [calling EXCEPT ![p] = FALSE]
  /\ count' = [count EXCEPT ![p] = @ + 1]
  /\ buffer' = Append(buffer, Event(p))
  /\ logged' = Append(logged, Event(p))
  /\ UNCHANGED <<feature, running, writer, batch, stream, file, beforeStop>>

(***************************************************************************)
(* drainLoop.                                                              *)
(***************************************************************************)

WriterGoes(from, to) ==
  /\ writer = from
  /\ writer' = to
  /\ UNCHANGED <<feature, running, count, calling, logged, beforeStop>>

(* Mutated: the buffer is copied and not emptied. *)
TakeCopy(from, to) ==
  /\ WriterGoes(from, to)
  /\ batch' = buffer
  /\ UNCHANGED <<buffer, stream, file>>

(* The swap of the buffer with an empty one. *)
Take(from, to) ==
  /\ WriterGoes(from, to)
  /\ batch' = buffer
  /\ buffer' = <<>>
  /\ UNCHANGED <<stream, file>>

TakeBatch == Take("wait", "write")

TakeRemaining == Take("final", "write last")

WriteEvent ==
  /\ writer \in {"write", "write last"}
  /\ batch # <<>>
  /\ stream' = Append(stream, Head(batch))
  /\ batch' = Tail(batch)
  /\ UNCHANGED <<feature, running, buffer, writer, file, count, calling, logged, beforeStop>>

Flush(from, to) ==
  /\ batch = <<>>
  /\ WriterGoes(from, to)
  /\ file' = file \o stream
  /\ stream' = <<>>
  /\ UNCHANGED <<buffer, batch>>

(* Mutated: the outputs are flushed only at the end. *)
NoFlush ==
  /\ batch = <<>>
  /\ WriterGoes("write", "check")
  /\ UNCHANGED <<buffer, batch, stream, file>>

FlushBatch == Flush("write", "check")

FlushLast == Flush("write last", "done")

(* Mutated: the buffer is not looked at again. *)
LeaveLoopAtOnce ==
  /\ ~running
  /\ WriterGoes("check", "done")
  /\ UNCHANGED <<buffer, batch, stream, file>>

(* Only when stopped and with an empty buffer. *)
LeaveLoop ==
  /\ ~running
  /\ buffer = <<>>
  /\ WriterGoes("check", "final")
  /\ UNCHANGED <<buffer, batch, stream, file>>

LoopAgain ==
  /\ running \/ buffer # <<>>
  /\ WriterGoes("check", "wait")
  /\ UNCHANGED <<buffer, batch, stream, file>>

----------------------------------------------------------------------------

Writer ==
  \/ TakeBatch
  \/ TakeRemaining
  \/ WriteEvent
  \/ FlushBatch
  \/ FlushLast
  \/ LeaveLoop
  \/ LoopAgain

Next ==
  \/ Prepare
  \/ Start
  \/ Stop
  \/ Join
  \/ Unprepare
  \/ \E p \in Producers : LogEvent(p) \/ Log(p)
  \/ Writer

Spec == Init /\ [][Next]_vars

(* The writer thread runs.  Nothing is assumed of the server or of requests. *)
FairSpec == Spec /\ WF_vars(Writer)

(***************************************************************************)
(* Properties.                                                             *)
(***************************************************************************)

Events == [by : Producers, number : 1..MaxEvents]

TypeOK ==
  /\ feature \in {"new", "prepared", "started", "joining", "stopped", "gone"}
  /\ running \in BOOLEAN
  /\ buffer \in Seq(Events) /\ batch \in Seq(Events)
  /\ stream \in Seq(Events) /\ file \in Seq(Events) /\ logged \in Seq(Events)
  /\ writer \in {"none", "wait", "write", "check", "final", "write last", "done"}
  /\ count \in [Producers -> 0..MaxEvents]
  /\ calling \in [Producers -> BOOLEAN]
  /\ beforeStop \in Nat

(* Every event is in exactly one place, and what went first comes first:    *)
(* swapping the buffer while requests append loses, repeats and reorders    *)
(* nothing.                                                                 *)
NothingLostOrReordered ==
  feature # "gone" => file \o stream \o batch \o buffer = logged

(* The file has every event that was logged before stop() was called as     *)
(* soon as stop() has returned.                                             *)
StopDrains == feature \in {"stopped", "gone"} => Len(file) >= beforeStop

(* An event that is logged while the logger runs reaches the file, although *)
(* the writer may be writing, flushing or on its way out.                   *)
LoggedReachesFile ==
  \A n \in 1..(Cardinality(Producers) * MaxEvents) :
    running /\ Len(logged) >= n ~> Len(file) >= n

=============================================================================
