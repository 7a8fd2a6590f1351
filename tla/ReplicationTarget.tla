------------------------- MODULE ReplicationTarget -------------------------
(***************************************************************************)
(* Idempotent replay with a persistent checkpoint:                         *)
(* Enterprise/Replication/{SequenceNumberTracker, IdempotencyChecker,      *)
(* ReplicationCheckpoint}.{h,cpp} and the start and stop of                *)
(* DC2DCReplicator.cpp that load and save the checkpoint.                  *)
(*                                                                         *)
(* Workers apply messages as IdempotencyChecker.h:20-26 tells them to:     *)
(* check, then apply on Accept or OutOfOrder, then accept.  Each access of *)
(* the tracker takes its lock once, so check is two steps and the apply    *)
(* runs without any lock.  One lifecycle thread starts the replicator,     *)
(* saves checkpoints and stops it; the process can crash at any step.      *)
(***************************************************************************)
EXTENDS Naturals

CONSTANTS
  Shards,        \* shard ids
  Workers,       \* threads that apply messages
  Own,           \* Own[w]: the shards whose messages worker w takes
  MaxSeq,        \* the source has generated 1..MaxSeq for every shard
  MaxCrashes,    \* how often the process may crash or exit
  NoFile,        \* a file that does not exist
  Partial        \* a file that is not completely written

ASSUME TargetAssumption ==
  /\ Shards # {}
  /\ Own \in [Workers -> SUBSET Shards]
  /\ MaxSeq \in Nat \ {0}
  /\ MaxCrashes \in Nat
  /\ NoFile # Partial
  /\ NoFile \notin [Shards -> 0..MaxSeq]
  /\ Partial \notin [Shards -> 0..MaxSeq]

Seqs == 1..MaxSeq

Messages == [shard : Shards, seq : Seqs]

(* What _lastApplied can hold; 0 is a shard without an entry. *)
TrackerStates == [Shards -> 0..MaxSeq]

VARIABLES
  up,            \* between start() and the end of the process
  tracker,       \* SequenceNumberTracker::_lastApplied
  pc,            \* pc[w]: what worker w does next with its message
  msg,           \* msg[w]: the message worker w holds
  saving,        \* what save() does next, "no" outside of it
  snap,          \* the copy of the tracker that save() writes
  tmp,           \* the file _path + ".tmp"
  file,          \* the file _path
  applied,       \* applied[s]: what the database of the target has of shard s
  thisRun,       \* thisRun[s]: what was applied to s since start()
  crashes        \* ends of the process so far

disk == <<tmp, file>>
vars == <<up, tracker, pc, msg, saving, snap, tmp, file, applied, thisRun, crashes>>

Fresh == [s \in Shards |-> 0]

(* Stands for the message of a worker that holds none. *)
NoMessage == CHOOSE m \in Messages : TRUE

Init ==
  /\ up = FALSE
  /\ tracker = Fresh
  /\ pc = [w \in Workers |-> "idle"]
  /\ msg = [w \in Workers |-> NoMessage]
  /\ saving = "no"
  /\ snap = Fresh
  /\ tmp = NoFile
  /\ file = NoFile
  /\ applied = [s \in Shards |-> {}]
  /\ thisRun = [s \in Shards |-> {}]
  /\ crashes = 0

(***************************************************************************)
(* prepare() and start(), and the end of the process.                      *)
(***************************************************************************)

(* Mutated: does not restore the tracker. *)
StartFresh ==
  /\ ~up
  /\ file # Partial
  /\ up' = TRUE
  /\ UNCHANGED <<tracker, pc, msg, saving, snap, disk, applied, thisRun, crashes>>

(* start() throws when the checkpoint cannot be parsed. *)
Start ==
  /\ ~up
  /\ file # Partial
  /\ up' = TRUE
  /\ tracker' = IF file = NoFile THEN Fresh ELSE file
  /\ UNCHANGED <<pc, msg, saving, snap, disk, applied, thisRun, crashes>>

(* A crash, or the exit after stop(): only the disk and the database remain. *)
Crash ==
  /\ up
  /\ crashes < MaxCrashes
  /\ crashes' = crashes + 1
  /\ up' = FALSE
  /\ tracker' = Fresh
  /\ pc' = [w \in Workers |-> "idle"]
  /\ saving' = "no"
  /\ snap' = Fresh
  /\ msg' = [w \in Workers |-> NoMessage]
  /\ thisRun' = [s \in Shards |-> {}]
  /\ UNCHANGED <<disk, applied>>

(***************************************************************************)
(* A worker and its message.                                               *)
(***************************************************************************)

Shard(w) == msg[w].shard
Seq1(w) == msg[w].seq

(* Worker w goes from "from" to "to" with the message it holds. *)
Goes(w, from, to) ==
  /\ up
  /\ pc[w] = from
  /\ pc' = [pc EXCEPT ![w] = to]
  /\ msg' = IF to = "idle" THEN [msg EXCEPT ![w] = NoMessage] ELSE msg
  /\ UNCHANGED <<up, saving, snap, disk, crashes>>

(* The network loses, duplicates and reorders: any message arrives. *)
Receive(w, m) ==
  /\ up
  /\ pc[w] = "idle"
  /\ m.shard \in Own[w]
  /\ pc' = [pc EXCEPT ![w] = "check"]
  /\ msg' = [msg EXCEPT ![w] = m]
  /\ UNCHANGED <<up, tracker, saving, snap, disk, applied, thisRun, crashes>>

(* isAlreadyApplied answers true. *)
RejectDuplicate(w) ==
  /\ Goes(w, "check", "idle")
  /\ Seq1(w) <= tracker[Shard(w)]
  /\ UNCHANGED <<tracker, applied, thisRun>>

(* Mutated: the last applied sequence number is taken for a new one. *)
NewOrLast(w) ==
  /\ Goes(w, "check", "gap")
  /\ Seq1(w) >= tracker[Shard(w)]
  /\ UNCHANGED <<tracker, applied, thisRun>>

(* isAlreadyApplied answers false. *)
NotYetApplied(w) ==
  /\ Goes(w, "check", "gap")
  /\ Seq1(w) > tracker[Shard(w)]
  /\ UNCHANGED <<tracker, applied, thisRun>>

(* The second read of the tracker decides between Accept and OutOfOrder. *)
CheckGap(w) ==
  /\ IF Seq1(w) > tracker[Shard(w)] + 1
       THEN Goes(w, "gap", "OutOfOrder")
       ELSE Goes(w, "gap", "Accept")
  /\ UNCHANGED <<tracker, applied, thisRun>>

(* Accept and OutOfOrder are applied alike. *)
Apply(w) ==
  /\ \/ Goes(w, "Accept", "accept")
     \/ Goes(w, "OutOfOrder", "accept")
  /\ applied' = [applied EXCEPT ![Shard(w)] = @ \cup {Seq1(w)}]
  /\ thisRun' = [thisRun EXCEPT ![Shard(w)] = @ \cup {Seq1(w)}]
  /\ UNCHANGED tracker

(* The database refuses the write: the message is not accepted. *)
ApplyFails(w) ==
  /\ \/ Goes(w, "Accept", "idle")
     \/ Goes(w, "OutOfOrder", "idle")
  /\ UNCHANGED <<tracker, applied, thisRun>>

(* Mutated: markApplied assigns instead of taking the maximum. *)
AssignApplied(w) ==
  /\ Goes(w, "accept", "idle")
  /\ tracker' = [tracker EXCEPT ![Shard(w)] = Seq1(w)]
  /\ UNCHANGED <<applied, thisRun>>

(* accept: markApplied keeps the maximum. *)
Accept(w) ==
  /\ Goes(w, "accept", "idle")
  /\ tracker' = [tracker EXCEPT ![Shard(w)] = IF @ < Seq1(w) THEN Seq1(w) ELSE @]
  /\ UNCHANGED <<applied, thisRun>>

(***************************************************************************)
(* ReplicationCheckpoint::save().                                          *)
(***************************************************************************)

SaveGoes(from, to) ==
  /\ up
  /\ saving = from
  /\ saving' = to
  /\ UNCHANGED <<up, tracker, pc, msg, applied, thisRun, crashes>>

Snapshot ==
  /\ SaveGoes("no", "open")
  /\ snap' = tracker
  /\ UNCHANGED disk

(* Mutated: the checkpoint is written in place. *)
TruncateInPlace ==
  /\ SaveGoes("open", "write")
  /\ file' = Partial
  /\ UNCHANGED <<snap, tmp>>

(* The temporary file is created or truncated. *)
OpenTmp ==
  /\ SaveGoes("open", "write")
  /\ tmp' = Partial
  /\ UNCHANGED <<snap, file>>

WriteTmp ==
  /\ SaveGoes("write", "rename")
  /\ tmp' = snap
  /\ UNCHANGED <<snap, file>>

Rename ==
  /\ SaveGoes("rename", "no")
  /\ file' = tmp
  /\ tmp' = NoFile
  /\ snap' = Fresh

(* Opening, writing or renaming fails; the temporary file stays as it is. *)
SaveFails ==
  /\ \E from \in {"open", "write", "rename"} : SaveGoes(from, "no")
  /\ snap' = Fresh
  /\ UNCHANGED disk

----------------------------------------------------------------------------

Work(w) ==
  \/ RejectDuplicate(w)
  \/ NotYetApplied(w)
  \/ CheckGap(w)
  \/ Apply(w)
  \/ ApplyFails(w)
  \/ Accept(w)

Save == Snapshot \/ OpenTmp \/ WriteTmp \/ Rename \/ SaveFails

Next ==
  \/ Start
  \/ Crash
  \/ Save
  \/ \E w \in Workers : Work(w) \/ \E m \in Messages : Receive(w, m)

Spec == Init /\ [][Next]_vars

(***************************************************************************)
(* Properties.                                                             *)
(***************************************************************************)

TypeOK ==
  /\ up \in BOOLEAN
  /\ tracker \in TrackerStates
  /\ pc \in [Workers -> {"idle", "check", "gap", "Accept", "OutOfOrder", "accept"}]
  /\ msg \in [Workers -> Messages]
  /\ saving \in {"no", "open", "write", "rename"}
  /\ snap \in TrackerStates
  /\ tmp \in TrackerStates \cup {NoFile, Partial}
  /\ file \in TrackerStates \cup {NoFile, Partial}
  /\ applied \in [Shards -> SUBSET Seqs]
  /\ thisRun \in [Shards -> SUBSET Seqs]
  /\ crashes \in 0..MaxCrashes

(* Only one worker takes messages of the shard. *)
Exclusive(s) == \A v, w \in Workers : s \in Own[v] /\ s \in Own[w] => v = w

(* A crash between any two steps leaves a checkpoint that start() can load, *)
(* and the checkpoint never names a message that is not in the database.    *)
CheckpointBehindDatabase ==
  /\ file # Partial
  /\ file # NoFile =>
       \A s \in Shards : file[s] > 0 => file[s] \in applied[s]

(* "resume replication without re-applying all messages"                    *)
(* (ReplicationCheckpoint.h:28): what the checkpoint covers is not applied  *)
(* again, provided no two workers share the shard.                          *)
CheckpointedIsNotReplayed ==
  [][\A w \in Workers :
       Apply(w) /\ Exclusive(Shard(w)) /\ file # NoFile =>
         Seq1(w) > file[Shard(w)]]_vars

(* Between two crashes a message is applied at most once, however often it  *)
(* is delivered, provided no two workers share the shard.                   *)
AppliedOncePerRun ==
  [][\A w \in Workers :
       Apply(w) /\ Exclusive(Shard(w)) => Seq1(w) \notin thisRun[Shard(w)]]_vars

(* The tracker never falls back while the process lives, even when workers  *)
(* that share a shard accept its messages in the opposite order.            *)
TrackerNeverRewinds ==
  [][up /\ up' => \A s \in Shards : tracker'[s] >= tracker[s]]_vars

(* "Message is new and in-order; safe to apply" (IdempotencyChecker.h:12):  *)
(* true until the message is applied, provided no two workers share the     *)
(* shard.                                                                   *)
AcceptMeansNext ==
  \A w \in Workers :
    pc[w] = "Accept" /\ Exclusive(Shard(w)) =>
      Seq1(w) = tracker[Shard(w)] + 1

(* "catching up to the source state with no data loss" (ROADMAP.md:101):    *)
(* a retransmitted message is rejected only when it was applied.            *)
RejectedWasApplied ==
  [][\A w \in Workers :
       RejectDuplicate(w) => Seq1(w) \in applied[Shard(w)]]_vars
=============================================================================
