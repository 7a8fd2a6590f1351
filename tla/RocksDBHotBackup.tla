-------------------------- MODULE RocksDBHotBackup --------------------------
(***************************************************************************)
(* Enterprise/RocksDBEngine/RocksDBHotBackup.{h,cpp} behind                *)
(* Enterprise/RestHandler/RestHotBackupHandler.{h,cpp}: hot backups are    *)
(* created, listed, deleted and restored by concurrent requests.           *)
(*                                                                         *)
(* A backup is a directory with the files of a RocksDB checkpoint and a    *)
(* manifest.  Only flushing and checkpointing happen under _mutex; every   *)
(* other access to the directories is unlocked and is one step per system  *)
(* call that another request can tell apart.  The database goes on writing *)
(* meanwhile, and the process may crash between any two steps.  A request  *)
(* that is refused in its first step (the directory cannot be created, the *)
(* backup does not exist) changes nothing and is not a step.               *)
(*                                                                         *)
(* The engine has a database.  Without one (_db is null) create writes     *)
(* nothing but a manifest, and restore refuses the result.                 *)
(***************************************************************************)
EXTENDS Naturals, FiniteSets

CONSTANTS
  Clients,       \* the threads that execute requests
  Ids,           \* the backup ids that can be generated
  Files,         \* the files of a checkpoint
  MaxSeq,        \* bound on the database's sequence number
  MaxCrashes     \* bound on crashes

ASSUME BackupAssumption ==
  /\ MaxSeq \in Nat /\ MaxCrashes \in Nat
  /\ Ids \subseteq Nat \ {0}
  /\ Files # {}

VARIABLES
  dir,           \* dir[i]: the directory of backup i
  mutex,         \* the clients that hold _mutex
  req,           \* req[c]: the request that client c executes
  crashes,
  used,          \* history: the ids generated so far
  checkpointed,  \* history: the backups whose checkpoint was completed
  created,       \* history: the backups whose creation was a success
  cleaned,       \* history: the backups whose creation failed and cleaned up
  doomed,        \* history: the backups that a delete was started for
  deleted        \* history: the created backups whose deletion was a success

history == <<used, checkpointed, created, cleaned, doomed, deleted>>
vars == <<dir, mutex, req, crashes, history>>

(* A manifest file that does not exist, and one that fromJson rejects.  A   *)
(* file cut off behind the timestamp is accepted; its number reads as 0 (or *)
(* lacks digits; numbers here have one).                                    *)
NoFile == [state |-> "no file", seq |-> 0]
Torn == [state |-> "torn", seq |-> 0]
Manifest(n) == [state |-> "valid", seq |-> n]
CutOff == Manifest(0)

Manifests == {NoFile, Torn} \cup {Manifest(n) : n \in 0..MaxSeq}

NoDir == [there |-> FALSE, data |-> {}, manifest |-> NoFile, snapshot |-> 0]

(* at: what the request does next; id: the backup it is about; seq: what    *)
(* create will put into the manifest; todo, listed: the directories a list  *)
(* has not visited and the backups it found; known: the backups that were   *)
(* created before the request began.  A list forgets those of them that it  *)
(* passes over because the file system fails.                               *)
NoRequest ==
  [at |-> "idle", id |-> 0, seq |-> 0, todo |-> {}, listed |-> {}, known |-> {}]

Init ==
  /\ dir = [i \in Ids |-> NoDir]
  /\ mutex = {}
  /\ req = [c \in Clients |-> NoRequest]
  /\ crashes = 0
  /\ used = {} /\ checkpointed = {} /\ created = {}
  /\ cleaned = {} /\ doomed = {} /\ deleted = {}

At(c) == req[c].at
Id(c) == req[c].id

Begin(c, i, at) ==
  /\ At(c) = "idle"
  /\ req' = [req EXCEPT ![c] = [NoRequest EXCEPT !.at = at, !.id = i,
                                                 !.known = created \cap {i}]]

Goes(c, from, to) ==
  /\ At(c) = from
  /\ req' = [req EXCEPT ![c].at = to]

(* The handler formats the result or the error and the request is over. *)
Respond(c) == req' = [req EXCEPT ![c] = NoRequest]

(***************************************************************************)
(* create.                                                                 *)
(***************************************************************************)

(* generateBackupId shows the time in microseconds: no two are the same,    *)
(* and the ids are numbered in the order in which they appear.              *)
Generated(i) == i \notin used /\ \A j \in Ids : j < i => j \in used

CreateDirectory(c) ==
  /\ \E i \in Ids :
       /\ Generated(i)
       /\ used' = used \cup {i}
       /\ dir' = [dir EXCEPT ![i].there = TRUE]
       /\ Begin(c, i, "lock")
  /\ UNCHANGED <<mutex, crashes, checkpointed, created, cleaned, doomed, deleted>>

(* The lock is taken and the WAL flushed; create goes on, whether or not    *)
(* that worked.                                                             *)
Lock(c) ==
  /\ Goes(c, "lock", "checkpoint")
  /\ mutex = {}
  /\ mutex' = {c}
  /\ UNCHANGED <<dir, crashes, history>>

(* n is the latest sequence number of the database then.                   *)
CreateCheckpoint(c) ==
  /\ At(c) = "checkpoint"
  /\ \E n \in 0..MaxSeq :
       /\ req' = [req EXCEPT ![c].at = "number", ![c].seq = n]
       /\ dir' = [dir EXCEPT ![Id(c)] = [@ EXCEPT !.there = TRUE, !.data = Files, !.snapshot = n]]
  /\ checkpointed' = checkpointed \cup {Id(c)}
  /\ UNCHANGED <<mutex, crashes, used, created, cleaned, doomed, deleted>>

(* Mutated: the failure is not noticed. *)
CheckpointFailsUnnoticed(c) ==
  /\ Goes(c, "checkpoint", "number")
  /\ \E d \in SUBSET Files :
       dir' = [dir EXCEPT ![Id(c)].there = TRUE, ![Id(c)].data = @ \cup d]
  /\ UNCHANGED <<mutex, crashes, history>>

(* What it leaves behind is cleaned up, with _mutex still held. *)
CheckpointFails(c) ==
  /\ Goes(c, "checkpoint", "cleanup")
  /\ \E d \in SUBSET Files :
       dir' = [dir EXCEPT ![Id(c)].there = TRUE, ![Id(c)].data = @ \cup d]
  /\ UNCHANGED <<mutex, crashes, history>>

(* The latest sequence number now: no writer takes _mutex. *)
ReadSequenceNumber(c) ==
  /\ At(c) = "number"
  /\ \E n \in req[c].seq..MaxSeq : req' = [req EXCEPT ![c].at = "open", ![c].seq = n]
  /\ mutex' = {}
  /\ UNCHANGED <<dir, crashes, history>>

OpenManifest(c) ==
  /\ Goes(c, "open", "write")
  /\ dir[Id(c)].there
  /\ dir' = [dir EXCEPT ![Id(c)].manifest = Torn]
  /\ UNCHANGED <<mutex, crashes, history>>

OpenManifestFails(c) ==
  /\ Goes(c, "open", "cleanup")
  /\ UNCHANGED <<dir, mutex, crashes, history>>

(* What is written to a file that was deleted in between is lost. *)
Written(i, m) ==
  dir' = [dir EXCEPT ![i].manifest = IF @ = NoFile THEN NoFile ELSE m]

(* Mutated: nobody looks at the state of the stream. *)
WriteManifestUnchecked(c) ==
  /\ At(c) = "write"
  /\ \E m \in {Torn, CutOff, Manifest(req[c].seq)} : Written(Id(c), m)
  /\ created' = created \cup {Id(c)}
  /\ Respond(c)
  /\ UNCHANGED <<mutex, crashes, used, checkpointed, cleaned, doomed, deleted>>

WriteManifest(c) ==
  /\ At(c) = "write"
  /\ Written(Id(c), Manifest(req[c].seq))
  /\ created' = created \cup {Id(c)}
  /\ Respond(c)
  /\ UNCHANGED <<mutex, crashes, used, checkpointed, cleaned, doomed, deleted>>

WriteManifestFails(c) ==
  /\ Goes(c, "write", "cleanup")
  /\ \E m \in {Torn, CutOff, Manifest(req[c].seq)} : Written(Id(c), m)
  /\ UNCHANGED <<mutex, crashes, history>>

(***************************************************************************)
(* deleteBackup, and removeDirectory, with which create cleans up: entries *)
(* go one by one, in any order, the directory last.                        *)
(***************************************************************************)

DeleteBackup(c, i) ==
  /\ dir[i].there
  /\ Begin(c, i, "delete")
  /\ doomed' = doomed \cup {i}
  /\ UNCHANGED <<dir, mutex, crashes, used, checkpointed, created, cleaned, deleted>>

Removing(c) == At(c) \in {"cleanup", "delete"}

Empty(i) == dir[i].data = {} /\ dir[i].manifest = NoFile

RemoveEntry(c) ==
  /\ Removing(c)
  /\ \/ \E f \in dir[Id(c)].data :
          dir' = [dir EXCEPT ![Id(c)].data = @ \ {f}]
     \/ /\ dir[Id(c)].manifest # NoFile
        /\ dir' = [dir EXCEPT ![Id(c)].manifest = NoFile]
  /\ UNCHANGED <<mutex, req, crashes, history>>

(* Mutated: the lock is not released on the way out. *)
EndRemoveLocked(c, ok) ==
  /\ Removing(c)
  /\ Respond(c)
  /\ cleaned' = cleaned \cup IF ok /\ At(c) = "cleanup" THEN {Id(c)} ELSE {}
  /\ deleted' = deleted \cup IF ok /\ At(c) = "delete" THEN {Id(c)} \cap req[c].known ELSE {}
  /\ UNCHANGED <<mutex, crashes, used, checkpointed, created, doomed>>

(* The lock, where it is still held, is released on the way out.            *)
EndRemove(c, ok) ==
  /\ Removing(c)
  /\ Respond(c)
  /\ mutex' = mutex \ {c}
  /\ cleaned' = cleaned \cup IF ok /\ At(c) = "cleanup" THEN {Id(c)} ELSE {}
  /\ deleted' = deleted \cup IF ok /\ At(c) = "delete" THEN {Id(c)} \cap req[c].known ELSE {}
  /\ UNCHANGED <<crashes, used, checkpointed, created, doomed>>

(* Mutated: also directories with entries are taken for removed. *)
RemoveDirectoryUnchecked(c) ==
  /\ Removing(c)
  /\ \E d \in {dir[Id(c)], NoDir} : dir' = [dir EXCEPT ![Id(c)] = d]
  /\ EndRemove(c, TRUE)

RemoveDirectory(c) ==
  /\ Removing(c)
  /\ Empty(Id(c))
  /\ dir' = [dir EXCEPT ![Id(c)] = NoDir]
  /\ EndRemove(c, TRUE)

RemoveFails(c) ==
  /\ EndRemove(c, FALSE)
  /\ UNCHANGED dir

(***************************************************************************)
(* list.                                                                   *)
(***************************************************************************)

Listable == {i \in Ids : dir[i].there}

(* A directory that appears while list runs may be visited or not.          *)
BeginList(c) ==
  /\ At(c) = "idle"
  /\ \E new \in SUBSET (Ids \ Listable) :
       req' = [req EXCEPT ![c] = [NoRequest EXCEPT !.at = "list", !.todo = Listable \cup new,
                                                   !.known = created]]
  /\ UNCHANGED <<dir, mutex, crashes, history>>

(* The iteration over the directories cannot be begun.  Nobody looks at the *)
(* error code: the list is empty, and a success.                            *)
BeginListFails(c) ==
  /\ At(c) = "idle"
  /\ req' = [req EXCEPT ![c] = [NoRequest EXCEPT !.at = "list"]]
  /\ UNCHANGED <<dir, mutex, crashes, history>>

Loads(i) == dir[i].manifest.state = "valid"

(* Mutated: the first directory without a good manifest ends the list. *)
VisitUntilBad(c) ==
  /\ At(c) = "list"
  /\ \E i \in req[c].todo :
       req' = [req EXCEPT ![c].todo = IF Loads(i) THEN @ \ {i} ELSE {},
                          ![c].listed = IF Loads(i) THEN @ \cup {i} ELSE @]
  /\ UNCHANGED <<dir, mutex, crashes, history>>

(* A directory without a good manifest is skipped. *)
Visit(c) ==
  /\ At(c) = "list"
  /\ \E i \in req[c].todo :
       req' = [req EXCEPT ![c].todo = @ \ {i},
                          ![c].listed = IF Loads(i) THEN @ \cup {i} ELSE @]
  /\ UNCHANGED <<dir, mutex, crashes, history>>

(* So is one whose manifest cannot be opened or read, although it is good.  *)
SkipUnread(c) ==
  /\ At(c) = "list"
  /\ \E i \in req[c].todo :
       req' = [req EXCEPT ![c].todo = @ \ {i}, ![c].known = @ \ {i}]
  /\ UNCHANGED <<dir, mutex, crashes, history>>

(* The iteration breaks off with an exception, which answers the request.   *)
ListThrows(c) ==
  /\ At(c) = "list"
  /\ req[c].todo # {}
  /\ Respond(c)
  /\ UNCHANGED <<dir, mutex, crashes, history>>

EndList(c) ==
  /\ At(c) = "list"
  /\ req[c].todo = {}
  /\ Respond(c)
  /\ UNCHANGED <<dir, mutex, crashes, history>>

(***************************************************************************)
(* restore only validates and changes nothing: the backups it accepts.     *)
(***************************************************************************)

Restorable(i) ==
  /\ dir[i].there
  /\ dir[i].manifest # NoFile
  /\ dir[i].data # {}
  /\ Loads(i)

(***************************************************************************)
(* The end of the process at any point.                                    *)
(***************************************************************************)

Crash ==
  /\ crashes < MaxCrashes
  /\ crashes' = crashes + 1
  /\ mutex' = {}
  /\ req' = [c \in Clients |-> NoRequest]
  /\ UNCHANGED <<dir, history>>

----------------------------------------------------------------------------

Request(c) ==
  \/ CreateDirectory(c)
  \/ BeginList(c)
  \/ BeginListFails(c)
  \/ \E i \in Ids : DeleteBackup(c, i)

Step(c) ==
  \/ Lock(c)
  \/ CreateCheckpoint(c)
  \/ CheckpointFails(c)
  \/ ReadSequenceNumber(c)
  \/ OpenManifest(c)
  \/ OpenManifestFails(c)
  \/ WriteManifest(c)
  \/ WriteManifestFails(c)
  \/ RemoveEntry(c)
  \/ RemoveDirectory(c)
  \/ RemoveFails(c)
  \/ Visit(c)
  \/ SkipUnread(c)
  \/ ListThrows(c)
  \/ EndList(c)

Next ==
  \/ \E c \in Clients : Request(c) \/ Step(c)
  \/ Crash

Spec == Init /\ [][Next]_vars

(***************************************************************************)
(* A request that was begun goes on.  Strong fairness, because _mutex may  *)
(* be taken and released by others again and again.                        *)
(***************************************************************************)
FairSpec == Spec /\ \A c \in Clients : SF_vars(Step(c))

(***************************************************************************)
(* Properties.                                                             *)
(***************************************************************************)

Places ==
  {"idle", "lock", "checkpoint", "number", "open", "write", "cleanup", "delete",
   "list"}

Requests ==
  [at : Places, id : Ids \cup {0}, seq : 0..MaxSeq, todo : SUBSET Ids,
   listed : SUBSET Ids, known : SUBSET Ids]

Directories ==
  [there : BOOLEAN, data : SUBSET Files, manifest : Manifests, snapshot : 0..MaxSeq]

TypeOK ==
  /\ dir \in [Ids -> Directories]
  /\ mutex \in SUBSET Clients
  /\ req \in [Clients -> Requests]
  /\ crashes \in 0..MaxCrashes
  /\ used \in SUBSET Ids /\ checkpointed \in SUBSET Ids /\ created \in SUBSET Ids
  /\ cleaned \in SUBSET Ids /\ doomed \in SUBSET Ids /\ deleted \in SUBSET Ids

(* Whatever fails or crashes in the middle of create, a backup that list    *)
(* shows, and so each that restore accepts, had a complete checkpoint.      *)
ShownWasCheckpointed == \A i \in Ids : Loads(i) => i \in checkpointed

(* A backup that was created successfully stays complete, as long as nobody *)
(* asks to delete it: no other request, failure or crash touches it.        *)
CreatedStays ==
  \A i \in created \ doomed :
    Restorable(i) /\ dir[i].data = Files

(* list shows each backup that was created before the list began and that   *)
(* nobody has asked to delete, whatever comes and goes in the directory.    *)
(* Only those that the file system did not let it read (BeginListFails,     *)
(* SkipUnread) are left out, and then without a word.                       *)
ListsAllCreated ==
  \A c \in Clients :
    At(c) = "list" /\ req[c].todo = {} => req[c].known \ doomed \subseteq req[c].listed

(* A created backup that was deleted, and a creation that failed and could  *)
(* clean up, leave no directory behind and none appears later.              *)
RemovedStaysRemoved == \A i \in deleted \cup cleaned : ~dir[i].there

(* Every request is answered: _mutex is released on all ways out of create. *)
RequestsReturn == \A c \in Clients : At(c) # "idle" ~> At(c) = "idle"
=============================================================================
