---------------------- MODULE ReplicationTarget_proofs ----------------------
(***************************************************************************)
(* The safety of ReplicationTarget for every set of shards and workers,    *)
(* every assignment of shards to workers, every number of messages and     *)
(* every number of crashes.                                                *)
(***************************************************************************)
EXTENDS ReplicationTarget, TLAPS

(* What the tracker or a copy of it names is in the database. *)
Backed(state) == \A s \in Shards : state[s] > 0 => state[s] \in applied[s]

(* The way of a sequence number to the checkpoint: it is applied before it  *)
(* is accepted, and the tracker, its copy, the temporary file that is about *)
(* to be renamed and the checkpoint only name applied ones.                 *)
AppliedBeforeSaved ==
  /\ \A w \in Workers : pc[w] = "accept" => Seq1(w) \in applied[Shard(w)]
  /\ Backed(tracker)
  /\ Backed(snap)
  /\ saving = "rename" => tmp = snap
  /\ file # Partial
  /\ file # NoFile => Backed(file)

(* While the process lives the checkpoint is behind the tracker. *)
SavedBehindTracker ==
  up =>
    /\ \A s \in Shards : snap[s] <= tracker[s]
    /\ file # NoFile => \A s \in Shards : file[s] <= tracker[s]

(* A worker that has its shard for itself: what check found out stays true. *)
CheckedIsNew ==
  \A w \in Workers :
    /\ pc[w] # "idle" => Shard(w) \in Own[w]
    /\ Exclusive(Shard(w)) =>
         /\ pc[w] \in {"gap", "Accept", "OutOfOrder"} => Seq1(w) > tracker[Shard(w)]
         /\ pc[w] = "Accept" => Seq1(w) = tracker[Shard(w)] + 1

(* What was applied in this run is accepted, but for the message that the   *)
(* only worker of the shard is about to accept.                             *)
AppliedIsAccepted ==
  \A s \in Shards : Exclusive(s) =>
    \A q \in thisRun[s] :
      \/ q <= tracker[s]
      \/ \E w \in Workers : pc[w] = "accept" /\ msg[w] = [shard |-> s, seq |-> q]

(* Between the end of a process and the next start() nothing is under way. *)
DownIsIdle ==
  ~up =>
    /\ \A w \in Workers : pc[w] = "idle"
    /\ snap = Fresh
    /\ \A s \in Shards : thisRun[s] = {}

Inv ==
  /\ TypeOK
  /\ DownIsIdle
  /\ AppliedBeforeSaved
  /\ SavedBehindTracker
  /\ CheckedIsNew
  /\ AppliedIsAccepted

----------------------------------------------------------------------------

(* The stand-in for no message is a message. *)
LEMMA NoMessageType == NoMessage \in Messages
<1>1. PICK s \in Shards : TRUE
  BY TargetAssumption
<1>2. [shard |-> s, seq |-> 1] \in Messages
  BY TargetAssumption DEF Messages, Seqs
<1>. QED
  BY <1>2 DEF NoMessage

(* The message of a worker has a shard and a number. *)
LEMMA MessageType ==
  ASSUME TypeOK, NEW w \in Workers
  PROVE  Shard(w) \in Shards /\ Seq1(w) \in Seqs /\ Seq1(w) \in 1..MaxSeq
BY DEF TypeOK, Messages, Shard, Seq1, Seqs

(* Init establishes the invariant. *)
LEMMA InitInv == Init => Inv
<1> SUFFICES ASSUME Init
             PROVE  Inv
  OBVIOUS
<1>1. TypeOK
  <2>1. Fresh \in TrackerStates
    BY TargetAssumption DEF Fresh, TrackerStates
  <2>2. msg \in [Workers -> Messages]
    BY NoMessageType DEF Init
  <2>3. applied \in [Shards -> SUBSET Seqs] /\ thisRun \in [Shards -> SUBSET Seqs]
    BY DEF Init
  <2>4. pc \in [Workers -> {"idle", "check", "gap", "Accept", "OutOfOrder", "accept"}]
    BY DEF Init
  <2>5. crashes \in 0..MaxCrashes
    BY TargetAssumption DEF Init
  <2>. QED
    BY <2>1, <2>2, <2>3, <2>4, <2>5 DEF Init, TypeOK
<1>2. AppliedBeforeSaved
  BY TargetAssumption DEF Init, AppliedBeforeSaved, Backed, Fresh
<1>3. DownIsIdle /\ SavedBehindTracker /\ CheckedIsNew /\ AppliedIsAccepted
  BY DEF Init, DownIsIdle, SavedBehindTracker, CheckedIsNew, AppliedIsAccepted
<1>. QED
  BY <1>1, <1>2, <1>3 DEF Inv

(* Every action preserves the types. *)
LEMMA TypeStep == TypeOK /\ [Next]_vars => TypeOK'
<1> SUFFICES ASSUME TypeOK, [Next]_vars
             PROVE  TypeOK'
  OBVIOUS
<1> USE TargetAssumption
<1>1. CASE Start
  BY <1>1 DEF Start, disk, TypeOK, Fresh, TrackerStates
<1>2. CASE Crash
  <2>1. Fresh \in TrackerStates
    BY DEF Fresh, TrackerStates
  <2>2. crashes' \in 0..MaxCrashes
    BY <1>2 DEF Crash, TypeOK
  <2>3. /\ msg' \in [Workers -> Messages]
        /\ pc' \in [Workers -> {"idle", "check", "gap", "Accept", "OutOfOrder", "accept"}]
        /\ thisRun' \in [Shards -> SUBSET Seqs]
    BY <1>2, NoMessageType DEF Crash
  <2>4. up' = FALSE /\ tracker' = Fresh /\ snap' = Fresh /\ saving' = "no"
        /\ UNCHANGED <<tmp, file, applied>>
    BY <1>2 DEF Crash, disk
  <2>. QED
    BY <2>1, <2>2, <2>3, <2>4 DEF TypeOK
<1>3. CASE Save
  BY <1>3 DEF Save, Snapshot, OpenTmp, WriteTmp, Rename, SaveFails, SaveGoes, disk,
              TypeOK, Fresh, TrackerStates
<1>4. ASSUME NEW w \in Workers, NEW m \in Messages, Receive(w, m)
      PROVE  TypeOK'
  BY <1>4 DEF Receive, disk, TypeOK
<1>5. ASSUME NEW w \in Workers, Work(w)
      PROVE  TypeOK'
  <2>1. ASSUME NEW from, Goes(w, from, "idle")
        PROVE  /\ pc' \in [Workers -> {"idle", "check", "gap", "Accept", "OutOfOrder", "accept"}]
               /\ msg' \in [Workers -> Messages]
               /\ UNCHANGED <<up, saving, snap, tmp, file, crashes>>
    BY <2>1, NoMessageType DEF Goes, disk, TypeOK
  <2>2. ASSUME NEW from, NEW to \in {"gap", "Accept", "OutOfOrder", "accept"},
               Goes(w, from, to)
        PROVE  /\ pc' \in [Workers -> {"idle", "check", "gap", "Accept", "OutOfOrder", "accept"}]
               /\ msg' \in [Workers -> Messages]
               /\ UNCHANGED <<up, saving, snap, tmp, file, crashes>>
    BY <2>2 DEF Goes, disk, TypeOK
  <2>3. CASE RejectDuplicate(w) \/ ApplyFails(w)
    <3>1. /\ pc' \in [Workers -> {"idle", "check", "gap", "Accept", "OutOfOrder", "accept"}]
          /\ msg' \in [Workers -> Messages]
          /\ UNCHANGED <<up, saving, snap, tmp, file, crashes, tracker, applied, thisRun>>
      BY <2>3, <2>1 DEF RejectDuplicate, ApplyFails
    <3>. QED
      BY <3>1 DEF TypeOK
  <2>4. CASE NotYetApplied(w) \/ CheckGap(w)
    <3>1. /\ pc' \in [Workers -> {"idle", "check", "gap", "Accept", "OutOfOrder", "accept"}]
          /\ msg' \in [Workers -> Messages]
          /\ UNCHANGED <<up, saving, snap, tmp, file, crashes, tracker, applied, thisRun>>
      BY <2>4, <2>2 DEF NotYetApplied, CheckGap
    <3>. QED
      BY <3>1 DEF TypeOK
  <2>5. CASE Apply(w)
    <3>1. /\ pc' \in [Workers -> {"idle", "check", "gap", "Accept", "OutOfOrder", "accept"}]
          /\ msg' \in [Workers -> Messages]
          /\ UNCHANGED <<up, saving, snap, tmp, file, crashes, tracker>>
      BY <2>5, <2>2 DEF Apply
    <3>2. applied' \in [Shards -> SUBSET Seqs] /\ thisRun' \in [Shards -> SUBSET Seqs]
      BY <2>5, MessageType DEF Apply, TypeOK
    <3>. QED
      BY <3>1, <3>2 DEF TypeOK
  <2>6. CASE Accept(w)
    <3>1. /\ pc' \in [Workers -> {"idle", "check", "gap", "Accept", "OutOfOrder", "accept"}]
          /\ msg' \in [Workers -> Messages]
          /\ UNCHANGED <<up, saving, snap, tmp, file, crashes, applied, thisRun>>
      BY <2>6, <2>1 DEF Accept
    <3>2. tracker' \in TrackerStates
      BY <2>6, MessageType DEF Accept, TypeOK, TrackerStates
    <3>. QED
      BY <3>1, <3>2 DEF TypeOK
  <2>. QED
    BY <1>5, <2>3, <2>4, <2>5, <2>6 DEF Work
<1>6. CASE UNCHANGED vars
  BY <1>6 DEF vars, disk, TypeOK
<1>. QED
  BY <1>1, <1>2, <1>3, <1>4, <1>5, <1>6 DEF Next

(* A step of worker w is invisible to the other workers. *)
LEMMA OthersKeep ==
  ASSUME TypeOK, NEW w \in Workers, Work(w), NEW v \in Workers, v # w
  PROVE  pc'[v] = pc[v] /\ msg'[v] = msg[v]
BY DEF Work, RejectDuplicate, NotYetApplied, CheckGap, Apply, ApplyFails, Accept,
       Goes, TypeOK

(* A step of worker w, in its own terms. *)
LEMMA WorkEffect ==
  ASSUME TypeOK, NEW w \in Workers, Work(w)
  PROVE  /\ up /\ UNCHANGED <<up, saving, snap, tmp, file>>
         /\ \/ pc'[w] = "idle" /\ UNCHANGED <<tracker, applied, thisRun>>
            \/ /\ pc[w] = "check" /\ pc'[w] = "gap" /\ msg'[w] = msg[w]
               /\ Seq1(w) > tracker[Shard(w)]
               /\ UNCHANGED <<tracker, applied, thisRun>>
            \/ /\ pc[w] = "gap" /\ msg'[w] = msg[w]
               /\ pc'[w] = IF Seq1(w) > tracker[Shard(w)] + 1 THEN "OutOfOrder" ELSE "Accept"
               /\ UNCHANGED <<tracker, applied, thisRun>>
            \/ Apply(w) /\ pc[w] \in {"Accept", "OutOfOrder"}
               /\ pc'[w] = "accept" /\ msg'[w] = msg[w]
            \/ Accept(w) /\ pc[w] = "accept" /\ pc'[w] = "idle"
<1>1. ASSUME NEW from, NEW to, Goes(w, from, to)
      PROVE  /\ up /\ UNCHANGED <<up, saving, snap, tmp, file>>
             /\ pc[w] = from /\ pc'[w] = to
             /\ to # "idle" => msg'[w] = msg[w]
  BY <1>1 DEF Goes, disk, TypeOK
<1>2. CASE RejectDuplicate(w) \/ ApplyFails(w)
  BY <1>1, <1>2 DEF RejectDuplicate, ApplyFails
<1>3. CASE NotYetApplied(w)
  BY <1>1, <1>3 DEF NotYetApplied
<1>4. CASE CheckGap(w)
  BY <1>1, <1>4 DEF CheckGap
<1>5. CASE Apply(w)
  BY <1>1, <1>5 DEF Apply
<1>6. CASE Accept(w)
  BY <1>1, <1>6 DEF Accept
<1>. QED
  BY <1>2, <1>3, <1>4, <1>5, <1>6 DEF Work

(* What accept does to the tracker. *)
LEMMA AcceptEffect ==
  ASSUME TypeOK, NEW w \in Workers, Accept(w), NEW s \in Shards
  PROVE  /\ tracker'[s] = IF s = Shard(w) /\ tracker[s] < Seq1(w) THEN Seq1(w) ELSE tracker[s]
         /\ tracker[s] \in 0..MaxSeq /\ tracker'[s] \in 0..MaxSeq
         /\ tracker'[s] >= tracker[s]
         /\ s = Shard(w) => tracker'[s] >= Seq1(w)
         /\ UNCHANGED <<applied, thisRun>>
BY MessageType, TargetAssumption DEF Accept, TypeOK, TrackerStates

(* What apply does to the database. *)
LEMMA ApplyEffect ==
  ASSUME TypeOK, NEW w \in Workers, Apply(w)
  PROVE  /\ \A s \in Shards : applied[s] \subseteq applied'[s]
         /\ Seq1(w) \in applied'[Shard(w)]
         /\ \A s \in Shards : thisRun'[s] = IF s = Shard(w) THEN thisRun[s] \cup {Seq1(w)}
                                                            ELSE thisRun[s]
         /\ UNCHANGED tracker
BY MessageType DEF Apply, TypeOK

----------------------------------------------------------------------------

(* The end of the process leaves nothing under way, and only start() begins *)
(* something.                                                               *)
LEMMA DownIsIdleStep == TypeOK /\ DownIsIdle /\ [Next]_vars => DownIsIdle'
<1> SUFFICES ASSUME TypeOK, DownIsIdle, [Next]_vars
             PROVE  DownIsIdle'
  OBVIOUS
<1>1. CASE Start
  BY <1>1 DEF Start, DownIsIdle
<1>2. CASE Crash
  BY <1>2 DEF Crash, DownIsIdle, Fresh
<1>3. CASE Save
  BY <1>3 DEF Save, Snapshot, OpenTmp, WriteTmp, Rename, SaveFails, SaveGoes, DownIsIdle
<1>4. ASSUME NEW w \in Workers, Work(w) \/ \E m \in Messages : Receive(w, m)
      PROVE  DownIsIdle'
  BY <1>4, WorkEffect DEF Receive, DownIsIdle
<1>5. CASE UNCHANGED vars
  BY <1>5 DEF vars, DownIsIdle
<1>. QED
  BY <1>1, <1>2, <1>3, <1>4, <1>5 DEF Next

(* A sequence number reaches the checkpoint by way of the database. *)
LEMMA AppliedBeforeSavedStep ==
  TypeOK /\ TypeOK' /\ DownIsIdle /\ AppliedBeforeSaved /\ [Next]_vars => AppliedBeforeSaved'
<1> SUFFICES ASSUME TypeOK, TypeOK', DownIsIdle, AppliedBeforeSaved, [Next]_vars
             PROVE  AppliedBeforeSaved'
  OBVIOUS
<1> USE TargetAssumption
<1>1. CASE Start
  <2>1. Backed(tracker)'
    BY <1>1 DEF Start, disk, AppliedBeforeSaved, Backed, Fresh
  <2>. QED
    BY <1>1, <2>1 DEF Start, disk, AppliedBeforeSaved, Backed, Shard, Seq1
<1>2. CASE Crash
  <2>1. Backed(tracker)' /\ Backed(snap)' /\ saving' = "no"
    BY <1>2 DEF Crash, Backed, Fresh
  <2>2. \A w \in Workers : pc'[w] = "idle"
    BY <1>2 DEF Crash
  <2>3. UNCHANGED <<file, applied>>
    BY <1>2 DEF Crash, disk
  <2>. QED
    BY <2>1, <2>2, <2>3 DEF AppliedBeforeSaved, Backed
<1>3. CASE Save
  <2>1. \A w \in Workers : UNCHANGED <<pc[w], Seq1(w), Shard(w)>>
    BY <1>3 DEF Save, Snapshot, OpenTmp, WriteTmp, Rename, SaveFails, SaveGoes, Shard, Seq1
  <2>2. UNCHANGED <<tracker, applied>>
    BY <1>3 DEF Save, Snapshot, OpenTmp, WriteTmp, Rename, SaveFails, SaveGoes
  <2>3. Backed(snap)'
    BY <1>3, <2>2 DEF Save, Snapshot, OpenTmp, WriteTmp, Rename, SaveFails, SaveGoes,
                      AppliedBeforeSaved, Backed, Fresh
  <2>4. saving' = "rename" => tmp' = snap'
    BY <1>3 DEF Save, Snapshot, OpenTmp, WriteTmp, Rename, SaveFails, SaveGoes, TypeOK
  <2>5. file' # Partial /\ (file' # NoFile => Backed(file)')
    <3>1. CASE Rename
      <4>1. file' = snap
        BY <3>1 DEF Rename, SaveGoes, AppliedBeforeSaved
      <4>2. snap # Partial
        BY DEF TypeOK, TrackerStates
      <4>. QED
        BY <4>1, <4>2, <2>2 DEF AppliedBeforeSaved, Backed
    <3>2. CASE Snapshot \/ OpenTmp \/ WriteTmp \/ SaveFails
      <4>1. UNCHANGED file
        BY <3>2 DEF Snapshot, OpenTmp, WriteTmp, SaveFails, disk
      <4>. QED
        BY <4>1, <2>2 DEF AppliedBeforeSaved, Backed
    <3>. QED
      BY <1>3, <3>1, <3>2 DEF Save
  <2>. QED
    BY <2>1, <2>2, <2>3, <2>4, <2>5 DEF AppliedBeforeSaved, Backed
<1>4. ASSUME NEW w \in Workers, NEW m \in Messages, Receive(w, m)
      PROVE  AppliedBeforeSaved'
  BY <1>4 DEF Receive, disk, TypeOK, AppliedBeforeSaved, Backed, Shard, Seq1
<1>5. ASSUME NEW w \in Workers, Work(w)
      PROVE  AppliedBeforeSaved'
  <2>1. /\ UNCHANGED <<saving, snap, tmp, file>>
        /\ \A s \in Shards : applied[s] \subseteq applied'[s]
    BY <1>5, WorkEffect, ApplyEffect, AcceptEffect
  <2>2. ASSUME NEW v \in Workers, pc'[v] = "accept"
        PROVE  (Seq1(v) \in applied[Shard(v)])'
    <3>1. CASE v # w
      BY <1>5, <2>1, <2>2, <3>1, OthersKeep, MessageType DEF AppliedBeforeSaved, Shard, Seq1
    <3>2. CASE v = w
      BY <1>5, <2>2, <3>2, WorkEffect, ApplyEffect DEF Shard, Seq1
    <3>. QED
      BY <3>1, <3>2
  <2>3. Backed(tracker)'
    <3>1. CASE Accept(w)
      BY <3>1, AcceptEffect, MessageType DEF Accept, Goes, AppliedBeforeSaved, Backed
    <3>2. CASE UNCHANGED tracker
      BY <2>1, <3>2 DEF AppliedBeforeSaved, Backed
    <3>. QED
      BY <1>5, <3>1, <3>2, WorkEffect, ApplyEffect
  <2>. QED
    BY <2>1, <2>2, <2>3 DEF AppliedBeforeSaved, Backed
<1>6. CASE UNCHANGED vars
  BY <1>6 DEF vars, disk, AppliedBeforeSaved, Backed, Shard, Seq1
<1>. QED
  BY <1>1, <1>2, <1>3, <1>4, <1>5, <1>6 DEF Next

(* The checkpoint stays behind the tracker of the living process. *)
LEMMA SavedBehindTrackerStep ==
  Inv /\ TypeOK' /\ [Next]_vars => SavedBehindTracker'
<1> SUFFICES ASSUME Inv, TypeOK', [Next]_vars
             PROVE  SavedBehindTracker'
  OBVIOUS
<1> USE TargetAssumption DEF Inv
<1>0. /\ \A s \in Shards : tracker[s] \in 0..MaxSeq /\ snap[s] \in 0..MaxSeq
      /\ file \notin {NoFile, Partial} => \A s \in Shards : file[s] \in 0..MaxSeq
  BY DEF TypeOK, TrackerStates
<1>1. CASE Start
  BY <1>0, <1>1 DEF Start, disk, DownIsIdle, Fresh, SavedBehindTracker
<1>2. CASE Crash
  BY <1>2 DEF Crash, SavedBehindTracker
<1>3. CASE Save
  <2>1. UNCHANGED <<up, tracker>>
    BY <1>3 DEF Save, Snapshot, OpenTmp, WriteTmp, Rename, SaveFails, SaveGoes
  <2>2. snap' \in {snap, tracker, Fresh}
    BY <1>3 DEF Save, Snapshot, OpenTmp, WriteTmp, Rename, SaveFails, SaveGoes
  <2>3. file' = file \/ file' = snap
    BY <1>3 DEF Save, Snapshot, OpenTmp, WriteTmp, Rename, SaveFails, SaveGoes, disk,
                AppliedBeforeSaved
  <2>. QED
    BY <1>0, <2>1, <2>2, <2>3 DEF SavedBehindTracker, Fresh
<1>4. ASSUME NEW w \in Workers, NEW m \in Messages, Receive(w, m)
      PROVE  SavedBehindTracker'
  BY <1>4 DEF Receive, disk, SavedBehindTracker
<1>5. ASSUME NEW w \in Workers, Work(w)
      PROVE  SavedBehindTracker'
  <2>1. UNCHANGED <<up, snap, file>>
    BY <1>5, WorkEffect
  <2>2. \A s \in Shards : tracker'[s] >= tracker[s] /\ tracker'[s] \in 0..MaxSeq
    BY <1>0, <1>5, WorkEffect, AcceptEffect, ApplyEffect
  <2>3. file # Partial
    BY DEF AppliedBeforeSaved
  <2>. QED
    BY <1>0, <2>1, <2>2, <2>3 DEF SavedBehindTracker
<1>6. CASE UNCHANGED vars
  BY <1>6 DEF vars, disk, SavedBehindTracker
<1>. QED
  BY <1>1, <1>2, <1>3, <1>4, <1>5, <1>6 DEF Next

(* Two workers that are busy with the same exclusive shard are one. *)
LEMMA ExclusiveWorker ==
  ASSUME CheckedIsNew, NEW v \in Workers, NEW w \in Workers, pc[v] # "idle",
         pc[w] # "idle", Shard(v) = Shard(w), Exclusive(Shard(v))
  PROVE  v = w
BY DEF CheckedIsNew, Exclusive

(* Nobody moves the tracker of an exclusive shard under its worker. *)
LEMMA CheckedIsNewStep == Inv /\ TypeOK' /\ [Next]_vars => CheckedIsNew'
<1> SUFFICES ASSUME Inv, TypeOK', [Next]_vars, NEW v \in Workers
             PROVE  /\ pc'[v] # "idle" => Shard(v)' \in Own[v]
                    /\ Exclusive(Shard(v))' =>
                         /\ pc'[v] \in {"gap", "Accept", "OutOfOrder"} =>
                              Seq1(v)' > tracker'[Shard(v)']
                         /\ pc'[v] = "Accept" => Seq1(v)' = tracker'[Shard(v)'] + 1
  BY DEF CheckedIsNew
<1> USE TargetAssumption DEF Inv
<1>1. CASE Start \/ Crash
  <2>1. pc'[v] = "idle"
    BY <1>1 DEF Start, Crash, DownIsIdle
  <2>. QED
    BY <2>1
<1>2. CASE Save \/ UNCHANGED vars
  <2>1. UNCHANGED <<pc, msg, tracker>>
    BY <1>2 DEF Save, Snapshot, OpenTmp, WriteTmp, Rename, SaveFails, SaveGoes, vars
  <2>. QED
    BY <2>1 DEF CheckedIsNew, Shard, Seq1, Exclusive
<1>3. ASSUME NEW w \in Workers, NEW m \in Messages, Receive(w, m)
      PROVE  /\ pc'[v] # "idle" => Shard(v)' \in Own[v]
             /\ Exclusive(Shard(v))' =>
                  /\ pc'[v] \in {"gap", "Accept", "OutOfOrder"} =>
                       Seq1(v)' > tracker'[Shard(v)']
                  /\ pc'[v] = "Accept" => Seq1(v)' = tracker'[Shard(v)'] + 1
  <2>1. CASE v = w
    BY <1>3, <2>1 DEF Receive, TypeOK, Shard
  <2>2. CASE v # w
    <3>1. pc'[v] = pc[v] /\ msg'[v] = msg[v] /\ tracker' = tracker
      BY <1>3, <2>2 DEF Receive, TypeOK
    <3>. QED
      BY <3>1 DEF CheckedIsNew, Shard, Seq1, Exclusive
  <2>. QED
    BY <2>1, <2>2
<1>4. ASSUME NEW w \in Workers, Work(w)
      PROVE  /\ pc'[v] # "idle" => Shard(v)' \in Own[v]
             /\ Exclusive(Shard(v))' =>
                  /\ pc'[v] \in {"gap", "Accept", "OutOfOrder"} =>
                       Seq1(v)' > tracker'[Shard(v)']
                  /\ pc'[v] = "Accept" => Seq1(v)' = tracker'[Shard(v)'] + 1
  <2>1. CASE v = w /\ pc'[v] = "idle"
    BY <2>1
  <2>2. CASE v = w /\ pc'[v] # "idle"
    <3>1. /\ msg'[v] = msg[v] /\ tracker' = tracker /\ pc[v] # "idle"
          /\ \/ pc[v] = "check" /\ pc'[v] = "gap" /\ Seq1(v) > tracker[Shard(v)]
             \/ /\ pc[v] = "gap"
                /\ pc'[v] = IF Seq1(v) > tracker[Shard(v)] + 1 THEN "OutOfOrder" ELSE "Accept"
             \/ pc'[v] = "accept"
      BY <1>4, <2>2, WorkEffect, ApplyEffect
    <3>2. Shard(v) \in Own[v] /\ Shard(v)' = Shard(v) /\ Seq1(v)' = Seq1(v)
      BY <3>1 DEF CheckedIsNew, Shard, Seq1
    <3>3. tracker[Shard(v)] \in Nat /\ Seq1(v) \in Nat
      BY MessageType DEF TypeOK, TrackerStates
    <3>4. pc[v] = "gap" /\ Exclusive(Shard(v)) => Seq1(v) > tracker[Shard(v)]
      BY DEF CheckedIsNew
    <3>. QED
      BY <3>1, <3>2, <3>3, <3>4 DEF Exclusive
  <2>3. CASE v # w
    <3>1. /\ pc'[v] = pc[v] /\ Shard(v)' = Shard(v) /\ Seq1(v)' = Seq1(v)
          /\ Shard(v) \in Shards
      BY <1>4, <2>3, OthersKeep, MessageType DEF Shard, Seq1
    <3>2. ASSUME pc[v] # "idle", Exclusive(Shard(v))
          PROVE  tracker'[Shard(v)] = tracker[Shard(v)]
      <4>1. CASE Accept(w)
        <5>1. pc[w] = "accept"
          BY <4>1 DEF Accept, Goes
        <5>2. Shard(v) # Shard(w)
          BY <2>3, <3>2, <5>1, ExclusiveWorker
        <5>. QED
          BY <3>1, <4>1, <5>2, AcceptEffect
      <4>2. CASE UNCHANGED tracker
        BY <4>2
      <4>. QED
        BY <1>4, <4>1, <4>2, WorkEffect, ApplyEffect
    <3>. QED
      BY <3>1, <3>2 DEF CheckedIsNew, Exclusive
  <2>. QED
    BY <2>1, <2>2, <2>3
<1>. QED
  BY <1>1, <1>2, <1>3, <1>4 DEF Next

(* What was applied in this run stays accounted for. *)
LEMMA AppliedIsAcceptedStep == Inv /\ TypeOK' /\ [Next]_vars => AppliedIsAccepted'
<1> SUFFICES ASSUME Inv, TypeOK', [Next]_vars, NEW s \in Shards, Exclusive(s),
                    NEW q \in thisRun'[s]
             PROVE  \/ q <= tracker'[s]
                    \/ \E w \in Workers : pc'[w] = "accept"
                                          /\ msg'[w] = [shard |-> s, seq |-> q]
  BY DEF AppliedIsAccepted, Exclusive
<1> USE TargetAssumption DEF Inv
<1>1. CASE Start \/ Crash
  <2>1. thisRun'[s] = {}
    BY <1>1 DEF Start, Crash, DownIsIdle
  <2>. QED
    BY <2>1
<1>2. CASE Save \/ UNCHANGED vars
  <2>1. UNCHANGED <<pc, msg, tracker, thisRun>>
    BY <1>2 DEF Save, Snapshot, OpenTmp, WriteTmp, Rename, SaveFails, SaveGoes, vars
  <2>. QED
    BY <2>1 DEF AppliedIsAccepted
<1>3. ASSUME NEW w \in Workers, NEW m \in Messages, Receive(w, m)
      PROVE  \/ q <= tracker'[s]
             \/ \E v \in Workers : pc'[v] = "accept" /\ msg'[v] = [shard |-> s, seq |-> q]
  <2>1. /\ UNCHANGED <<tracker, thisRun>>
        /\ \A v \in Workers : pc[v] = "accept" => pc'[v] = "accept" /\ msg'[v] = msg[v]
    BY <1>3 DEF Receive, TypeOK
  <2>. QED
    BY <2>1 DEF AppliedIsAccepted
<1>4. ASSUME NEW w \in Workers, Work(w)
      PROVE  \/ q <= tracker'[s]
             \/ \E v \in Workers : pc'[v] = "accept" /\ msg'[v] = [shard |-> s, seq |-> q]
  <2>1. q \in Seqs /\ q \in Nat /\ tracker[s] \in Nat /\ tracker'[s] \in Nat
    BY DEF TypeOK, TrackerStates, Seqs
  <2>2. tracker'[s] >= tracker[s]
    BY <1>4, <2>1, WorkEffect, AcceptEffect, ApplyEffect
  <2>3. CASE q \in thisRun[s] /\ q <= tracker[s]
    BY <2>1, <2>2, <2>3
  <2>4. ASSUME q \in thisRun[s], NEW v \in Workers, pc[v] = "accept",
               msg[v] = [shard |-> s, seq |-> q]
        PROVE  \/ q <= tracker'[s]
               \/ \E u \in Workers : pc'[u] = "accept" /\ msg'[u] = [shard |-> s, seq |-> q]
    <3>1. CASE v # w
      BY <1>4, <2>4, <3>1, OthersKeep
    <3>2. CASE v = w
      <4>1. Shard(w) = s /\ Seq1(w) = q
        BY <2>4, <3>2 DEF Shard, Seq1
      <4>2. Accept(w)
        BY <1>4, <2>4, <3>2 DEF Work, RejectDuplicate, NotYetApplied, CheckGap, Apply,
                                ApplyFails, Goes
      <4>. QED
        BY <4>1, <4>2, AcceptEffect
    <3>. QED
      BY <3>1, <3>2
  <2>5. CASE q \notin thisRun[s]
    <3>1. Apply(w) /\ pc'[w] = "accept" /\ msg'[w] = msg[w]
      BY <1>4, <2>5, WorkEffect, AcceptEffect
    <3>2. s = Shard(w) /\ q = Seq1(w)
      BY <2>5, <3>1, ApplyEffect
    <3>3. msg[w] = [shard |-> s, seq |-> q]
      BY <3>2 DEF TypeOK, Messages, Shard, Seq1
    <3>. QED
      BY <3>1, <3>3
  <2>. QED
    BY <2>3, <2>4, <2>5 DEF AppliedIsAccepted
<1>. QED
  BY <1>1, <1>2, <1>3, <1>4 DEF Next

----------------------------------------------------------------------------

(* The invariant is inductive. *)
LEMMA StepInv == Inv /\ [Next]_vars => Inv'
BY TypeStep, DownIsIdleStep, AppliedBeforeSavedStep, SavedBehindTrackerStep,
   CheckedIsNewStep, AppliedIsAcceptedStep DEF Inv

(* The inductive invariant holds in every reachable state. *)
THEOREM Invariance == Spec => []Inv
BY InitInv, StepInv, PTL DEF Spec

(* Type correctness of tracker, workers and files. *)
THEOREM TypeCorrect == Spec => []TypeOK
<1>1. Inv => TypeOK
  BY DEF Inv
<1>. QED
  BY <1>1, Invariance, PTL

(* Whenever the process ends, the checkpoint can be loaded and names only   *)
(* messages that are in the database.                                       *)
THEOREM CheckpointSafe == Spec => []CheckpointBehindDatabase
<1>1. Inv => CheckpointBehindDatabase
  BY DEF Inv, AppliedBeforeSaved, Backed, CheckpointBehindDatabase
<1>. QED
  BY <1>1, Invariance, PTL

(* Accept stands for the next message until it is applied. *)
THEOREM AcceptIsNext == Spec => []AcceptMeansNext
<1>1. Inv => AcceptMeansNext
  BY DEF Inv, CheckedIsNew, AcceptMeansNext
<1>. QED
  BY <1>1, Invariance, PTL

(* What the checkpoint covers is not applied again. *)
THEOREM NoReplay == Spec => CheckpointedIsNotReplayed
<1>1. ASSUME Inv, NEW w \in Workers, Apply(w), Exclusive(Shard(w)), file # NoFile
      PROVE  Seq1(w) > file[Shard(w)]
  <2>1. up /\ Seq1(w) > tracker[Shard(w)]
    BY <1>1 DEF Inv, Apply, Goes, CheckedIsNew
  <2>2. file[Shard(w)] <= tracker[Shard(w)]
    BY <1>1, <2>1, MessageType DEF Inv, SavedBehindTracker
  <2>3. file \in TrackerStates
    BY <1>1 DEF Inv, TypeOK, AppliedBeforeSaved
  <2>4. file[Shard(w)] \in Nat /\ tracker[Shard(w)] \in Nat /\ Seq1(w) \in Nat
    BY <1>1, <2>3, MessageType DEF Inv, TypeOK, TrackerStates
  <2>. QED
    BY <2>1, <2>2, <2>4
<1>2. Inv => [\A w \in Workers : Apply(w) /\ Exclusive(Shard(w)) /\ file # NoFile =>
                Seq1(w) > file[Shard(w)]]_vars
  BY <1>1
<1>. QED
  BY <1>2, Invariance, PTL DEF Spec, CheckpointedIsNotReplayed

(* Between two ends of the process a message is applied at most once. *)
THEOREM AppliedOnce == Spec => AppliedOncePerRun
<1>1. ASSUME Inv, NEW w \in Workers, Apply(w), Exclusive(Shard(w))
      PROVE  Seq1(w) \notin thisRun[Shard(w)]
  <2> SUFFICES ASSUME Seq1(w) \in thisRun[Shard(w)]
               PROVE  FALSE
    OBVIOUS
  <2>1. pc[w] \in {"Accept", "OutOfOrder"} /\ Seq1(w) > tracker[Shard(w)]
    BY <1>1 DEF Inv, Apply, Goes, CheckedIsNew
  <2>2. tracker[Shard(w)] \in Nat /\ Seq1(w) \in Nat /\ Shard(w) \in Shards
    BY <1>1, MessageType, TargetAssumption DEF Inv, TypeOK, TrackerStates
  <2>3. PICK v \in Workers : pc[v] = "accept" /\ msg[v] = [shard |-> Shard(w), seq |-> Seq1(w)]
    BY <1>1, <2>1, <2>2 DEF Inv, AppliedIsAccepted
  <2>4. Shard(v) = Shard(w)
    BY <2>3 DEF Shard
  <2>5. v = w
    BY <1>1, <2>1, <2>3, <2>4, ExclusiveWorker DEF Inv
  <2>. QED
    BY <2>1, <2>3, <2>5
<1>2. Inv => [\A w \in Workers : Apply(w) /\ Exclusive(Shard(w)) =>
                Seq1(w) \notin thisRun[Shard(w)]]_vars
  BY <1>1
<1>. QED
  BY <1>2, Invariance, PTL DEF Spec, AppliedOncePerRun

(* The tracker of a living process never falls back. *)
THEOREM NoRewind == Spec => TrackerNeverRewinds
<1>1. ASSUME Inv, [Next]_vars, up, up', NEW s \in Shards
      PROVE  tracker'[s] >= tracker[s]
  <2>1. tracker[s] \in Nat
    BY <1>1, TargetAssumption DEF Inv, TypeOK, TrackerStates
  <2>2. CASE Start \/ Crash
    BY <1>1, <2>2 DEF Start, Crash
  <2>3. CASE Save \/ UNCHANGED vars
    BY <2>1, <2>3 DEF Save, Snapshot, OpenTmp, WriteTmp, Rename, SaveFails, SaveGoes, vars
  <2>4. ASSUME NEW w \in Workers, Work(w) \/ \E m \in Messages : Receive(w, m)
        PROVE  tracker'[s] >= tracker[s]
    BY <1>1, <2>1, <2>4, WorkEffect, AcceptEffect, ApplyEffect DEF Receive, Inv
  <2>. QED
    BY <1>1, <2>2, <2>3, <2>4 DEF Next
<1>2. Inv /\ [Next]_vars =>
        [up /\ up' => \A s \in Shards : tracker'[s] >= tracker[s]]_vars
  BY <1>1
<1>. QED
  BY <1>2, Invariance, PTL DEF Spec, TrackerNeverRewinds
=============================================================================
