----------------------- MODULE RocksDBHotBackup_proofs -----------------------
(***************************************************************************)
(* The safety of RocksDBHotBackup for any number of clients, backups,      *)
(* files and crashes.                                                      *)
(***************************************************************************)
EXTENDS RocksDBHotBackup, TLAPS

Creating(c) == At(c) \in {"lock", "checkpoint", "number", "open", "write", "cleanup"}

(* A backup has at most one request that creates it, and none once it is    *)
(* created or cleaned up.  A delete is known from its start on.             *)
Owners ==
  /\ \A c \in Clients : Creating(c) =>
       /\ Id(c) \in used
       /\ Id(c) \notin created
       /\ Id(c) \notin cleaned
  /\ \A c, d \in Clients : Creating(c) /\ Creating(d) /\ Id(c) = Id(d) => c = d
  /\ \A c \in Clients : At(c) = "delete" => Id(c) \in doomed
  /\ \A c \in Clients : req[c].known \subseteq created
  /\ created \subseteq used /\ cleaned \subseteq used
  /\ deleted \subseteq created

(* How far a creation has come, unless somebody deletes its backup.         *)
Progress ==
  \A c \in Clients :
    /\ At(c) \in {"number", "open", "write"} => Id(c) \in checkpointed
    /\ At(c) \in {"number", "open", "write"} /\ Id(c) \notin doomed =>
         dir[Id(c)].there /\ dir[Id(c)].data = Files
    /\ At(c) = "write" /\ Id(c) \notin doomed => dir[Id(c)].manifest = Torn

(* A list has shown, or has yet to visit, what was created before it, if it *)
(* could read it.                                                           *)
Listing ==
  \A c \in Clients : At(c) = "list" =>
    req[c].known \ doomed \subseteq req[c].listed \cup req[c].todo

(* A request about a backup names one. *)
Named == \A c \in Clients : Creating(c) \/ At(c) = "delete" => Id(c) \in Ids

(* What TypeOK says of the plain sets and the counter; dir and req are     *)
(* treated apart.                                                          *)
TypeRest ==
  /\ mutex \in SUBSET Clients /\ crashes \in 0..MaxCrashes
  /\ used \in SUBSET Ids /\ checkpointed \in SUBSET Ids /\ created \in SUBSET Ids
  /\ cleaned \in SUBSET Ids /\ doomed \in SUBSET Ids /\ deleted \in SUBSET Ids

Inv ==
  /\ TypeOK
  /\ Named
  /\ Owners
  /\ Progress
  /\ Listing
  /\ ShownWasCheckpointed
  /\ CreatedStays
  /\ RemovedStaysRemoved

----------------------------------------------------------------------------

LEMMA ManifestFacts ==
  /\ NoFile \in Manifests /\ Torn \in Manifests /\ CutOff \in Manifests
  /\ \A n \in 0..MaxSeq : Manifest(n) \in Manifests
  /\ \A n : Manifest(n) # NoFile /\ Manifest(n).state = "valid"
  /\ Torn # NoFile /\ CutOff # NoFile
  /\ NoFile.state # "valid" /\ Torn.state # "valid" /\ CutOff.state = "valid"
PROOF
<1>1. 0 \in 0..MaxSeq
  BY BackupAssumption DEF BackupAssumption
<1>2. NoFile \in Manifests /\ Torn \in Manifests /\ \A n \in 0..MaxSeq : Manifest(n) \in Manifests
  BY DEF Manifests
<1>3. CutOff \in Manifests
  BY <1>1, <1>2 DEF CutOff
<1>4. \A n : Manifest(n) # NoFile /\ Manifest(n).state = "valid"
  BY DEF Manifest, NoFile
<1>. QED BY <1>2, <1>3, <1>4 DEF NoFile, Torn, CutOff

LEMMA StepNamed ==
  TypeOK /\ Named /\ [Next]_vars => Named'
PROOF
<1>. SUFFICES ASSUME TypeOK, Named, [Next]_vars
              PROVE  Named'
  OBVIOUS
<1>0. req \in [Clients -> Requests]
  BY DEF TypeOK
<1>. USE <1>0 DEF Requests
<1>1. CASE UNCHANGED vars
  BY <1>1 DEF vars, history, Named, Creating, At, Id
<1>2. CASE Crash
  BY <1>2 DEF Crash, history, NoRequest, Named, Creating, At, Id
<1>3. ASSUME NEW c \in Clients, NEW i \in Ids, DeleteBackup(c, i)
      PROVE  Named'
  BY <1>3 DEF DeleteBackup, Begin, NoRequest, Named, Creating, At, Id
<1>4. ASSUME NEW c \in Clients, CreateDirectory(c)
      PROVE  Named'
  BY <1>4
     DEF CreateDirectory, Generated, Begin, NoRequest, Named, Creating, At, Id
<1>5. ASSUME NEW c \in Clients, BeginList(c) \/ BeginListFails(c)
      PROVE  Named'
  <2>1. CASE BeginList(c)
    BY <2>1
       DEF BeginList, history, NoRequest, Named, Creating, At, Id
  <2>2. CASE BeginListFails(c)
    BY <2>2
       DEF BeginListFails, history, NoRequest, Named, Creating, At, Id
  <2>. QED BY <1>5, <2>1, <2>2
<1>6. ASSUME NEW c \in Clients, Lock(c)
      PROVE  Named'
  BY <1>6 DEF Lock, Goes, history, Named, Creating, At, Id
<1>7. ASSUME NEW c \in Clients, CreateCheckpoint(c)
      PROVE  Named'
  BY <1>7 DEF CreateCheckpoint, Named, Creating, At, Id
<1>8. ASSUME NEW c \in Clients, CheckpointFails(c)
      PROVE  Named'
  BY <1>8 DEF CheckpointFails, Goes, history, Named, Creating, At, Id
<1>9. ASSUME NEW c \in Clients, ReadSequenceNumber(c)
      PROVE  Named'
  BY <1>9 DEF ReadSequenceNumber, history, Named, Creating, At, Id
<1>10. ASSUME NEW c \in Clients, OpenManifest(c)
      PROVE  Named'
  BY <1>10 DEF OpenManifest, Goes, history, Named, Creating, At, Id
<1>11. ASSUME NEW c \in Clients, OpenManifestFails(c)
      PROVE  Named'
  BY <1>11 DEF OpenManifestFails, Goes, history, Named, Creating, At, Id
<1>12. ASSUME NEW c \in Clients, WriteManifest(c)
      PROVE  Named'
  BY <1>12 DEF WriteManifest, Respond, NoRequest, Named, Creating, At, Id
<1>13. ASSUME NEW c \in Clients, WriteManifestFails(c)
      PROVE  Named'
  BY <1>13 DEF WriteManifestFails, Goes, history, Named, Creating, At, Id
<1>14. ASSUME NEW c \in Clients, RemoveEntry(c)
      PROVE  Named'
  BY <1>14 DEF RemoveEntry, Removing, history, Named, Creating, At, Id
<1>15. ASSUME NEW c \in Clients, RemoveDirectory(c)
      PROVE  Named'
  BY <1>15
     DEF RemoveDirectory, Removing, EndRemove, Respond, NoRequest, Named,
         Creating, At, Id
<1>16. ASSUME NEW c \in Clients, RemoveFails(c)
      PROVE  Named'
  BY <1>16
     DEF RemoveFails, Removing, EndRemove, Respond, NoRequest, Named, Creating,
         At, Id
<1>17. ASSUME NEW c \in Clients, Visit(c) \/ SkipUnread(c)
      PROVE  Named'
  <2>1. CASE Visit(c)
    BY <2>1
       DEF Visit, history, Named, Creating, At, Id
  <2>2. CASE SkipUnread(c)
    BY <2>2
       DEF SkipUnread, history, Named, Creating, At, Id
  <2>. QED BY <1>17, <2>1, <2>2
<1>18. ASSUME NEW c \in Clients, EndList(c) \/ ListThrows(c)
      PROVE  Named'
  <2>1. CASE EndList(c)
    BY <2>1
       DEF EndList, Respond, history, NoRequest, Named, Creating, At, Id
  <2>2. CASE ListThrows(c)
    BY <2>2
       DEF ListThrows, Respond, history, NoRequest, Named, Creating, At, Id
  <2>. QED BY <1>18, <2>1, <2>2
<1>. QED BY <1>1, <1>2, <1>3, <1>4, <1>5, <1>6, <1>7, <1>8, <1>9, <1>10, <1>11,
            <1>12, <1>13, <1>14, <1>15, <1>16, <1>17, <1>18
        DEF Next, Request, Step

LEMMA StepOwners ==
  TypeOK /\ Named /\ Owners /\ [Next]_vars => Owners'
PROOF
<1>. SUFFICES ASSUME TypeOK, Named, Owners, [Next]_vars
              PROVE  Owners'
  OBVIOUS
<1>0. req \in [Clients -> Requests]
  BY DEF TypeOK
<1>. USE <1>0 DEF Requests
<1>1. CASE UNCHANGED vars
  BY <1>1 DEF vars, history, Named, Owners, Creating, At, Id
<1>2. CASE Crash
  BY <1>2 DEF Crash, history, NoRequest, Named, Owners, Creating, At, Id
<1>3. ASSUME NEW c \in Clients, NEW i \in Ids, DeleteBackup(c, i)
      PROVE  Owners'
  BY <1>3 DEF DeleteBackup, Begin, NoRequest, Named, Owners, Creating, At, Id
<1>4. ASSUME NEW c \in Clients, CreateDirectory(c)
      PROVE  Owners'
  BY <1>4
     DEF CreateDirectory, Generated, Begin, NoRequest, Named, Owners, Creating,
         At, Id
<1>5. ASSUME NEW c \in Clients, BeginList(c) \/ BeginListFails(c)
      PROVE  Owners'
  <2>1. CASE BeginList(c)
    BY <2>1
       DEF BeginList, history, NoRequest, Named, Owners, Creating, At, Id
  <2>2. CASE BeginListFails(c)
    BY <2>2
       DEF BeginListFails, history, NoRequest, Named, Owners, Creating, At, Id
  <2>. QED BY <1>5, <2>1, <2>2
<1>6. ASSUME NEW c \in Clients, Lock(c)
      PROVE  Owners'
  BY <1>6 DEF Lock, Goes, history, Named, Owners, Creating, At, Id
<1>7. ASSUME NEW c \in Clients, CreateCheckpoint(c)
      PROVE  Owners'
  BY <1>7 DEF CreateCheckpoint, Named, Owners, Creating, At, Id
<1>8. ASSUME NEW c \in Clients, CheckpointFails(c)
      PROVE  Owners'
  BY <1>8 DEF CheckpointFails, Goes, history, Named, Owners, Creating, At, Id
<1>9. ASSUME NEW c \in Clients, ReadSequenceNumber(c)
      PROVE  Owners'
  BY <1>9 DEF ReadSequenceNumber, history, Named, Owners, Creating, At, Id
<1>10. ASSUME NEW c \in Clients, OpenManifest(c)
      PROVE  Owners'
  BY <1>10 DEF OpenManifest, Goes, history, Named, Owners, Creating, At, Id
<1>11. ASSUME NEW c \in Clients, OpenManifestFails(c)
      PROVE  Owners'
  BY <1>11 DEF OpenManifestFails, Goes, history, Named, Owners, Creating, At, Id
<1>12. ASSUME NEW c \in Clients, WriteManifest(c)
      PROVE  Owners'
  BY <1>12
     DEF WriteManifest, Respond, NoRequest, Named, Owners, Creating, At, Id
<1>13. ASSUME NEW c \in Clients, WriteManifestFails(c)
      PROVE  Owners'
  BY <1>13
     DEF WriteManifestFails, Goes, history, Named, Owners, Creating, At, Id
<1>14. ASSUME NEW c \in Clients, RemoveEntry(c)
      PROVE  Owners'
  BY <1>14 DEF RemoveEntry, Removing, history, Named, Owners, Creating, At, Id
<1>15. ASSUME NEW c \in Clients, RemoveDirectory(c)
      PROVE  Owners'
  BY <1>15
     DEF RemoveDirectory, Removing, EndRemove, Respond, NoRequest, Named,
         Owners, Creating, At, Id
<1>16. ASSUME NEW c \in Clients, RemoveFails(c)
      PROVE  Owners'
  BY <1>16
     DEF RemoveFails, Removing, EndRemove, Respond, NoRequest, Named, Owners,
         Creating, At, Id
<1>17. ASSUME NEW c \in Clients, Visit(c) \/ SkipUnread(c)
      PROVE  Owners'
  <2>1. CASE Visit(c)
    BY <2>1
       DEF Visit, history, Named, Owners, Creating, At, Id
  <2>2. CASE SkipUnread(c)
    BY <2>2
       DEF SkipUnread, history, Named, Owners, Creating, At, Id
  <2>. QED BY <1>17, <2>1, <2>2
<1>18. ASSUME NEW c \in Clients, EndList(c) \/ ListThrows(c)
      PROVE  Owners'
  <2>1. CASE EndList(c)
    BY <2>1
       DEF EndList, Respond, history, NoRequest, Named, Owners, Creating, At, Id
  <2>2. CASE ListThrows(c)
    BY <2>2
       DEF ListThrows, Respond, history, NoRequest, Named, Owners, Creating, At, Id
  <2>. QED BY <1>18, <2>1, <2>2
<1>. QED BY <1>1, <1>2, <1>3, <1>4, <1>5, <1>6, <1>7, <1>8, <1>9, <1>10, <1>11,
            <1>12, <1>13, <1>14, <1>15, <1>16, <1>17, <1>18
        DEF Next, Request, Step

LEMMA StepListing ==
  TypeOK /\ Owners /\ Listing /\ CreatedStays /\ [Next]_vars => Listing'
PROOF
<1>. SUFFICES ASSUME TypeOK, Owners, Listing, CreatedStays, [Next]_vars
              PROVE  Listing'
  OBVIOUS
<1>0. req \in [Clients -> Requests]
  BY DEF TypeOK
<1>. USE <1>0 DEF Requests
<1>1. CASE UNCHANGED vars
  BY <1>1 DEF vars, history, Owners, Listing, At, Id
<1>2. CASE Crash
  BY <1>2 DEF Crash, history, NoRequest, Owners, Listing, At, Id
<1>3. ASSUME NEW c \in Clients, NEW i \in Ids, DeleteBackup(c, i)
      PROVE  Listing'
  BY <1>3 DEF DeleteBackup, Begin, NoRequest, Owners, Listing, At, Id
<1>4. ASSUME NEW c \in Clients, CreateDirectory(c)
      PROVE  Listing'
  BY <1>4
     DEF CreateDirectory, Generated, Begin, NoRequest, Owners, Listing, At, Id
<1>5. ASSUME NEW c \in Clients, BeginList(c) \/ BeginListFails(c)
      PROVE  Listing'
  <2>1. created \ doomed \subseteq Listable
    BY DEF TypeOK, Listable, CreatedStays, Restorable
  <2>2. UNCHANGED <<created, doomed>>
    BY <1>5 DEF BeginList, BeginListFails, history
  <2>3. CASE BeginList(c)
    BY <2>1, <2>2, <2>3 DEF BeginList, NoRequest, Listing, At
  <2>4. CASE BeginListFails(c)
    BY <2>2, <2>4 DEF BeginListFails, NoRequest, Listing, At
  <2>. QED BY <1>5, <2>3, <2>4
<1>6. ASSUME NEW c \in Clients, Lock(c)
      PROVE  Listing'
  BY <1>6 DEF Lock, Goes, history, Owners, Listing, At, Id
<1>7. ASSUME NEW c \in Clients, CreateCheckpoint(c)
      PROVE  Listing'
  BY <1>7 DEF CreateCheckpoint, Owners, Listing, At, Id
<1>8. ASSUME NEW c \in Clients, CheckpointFails(c)
      PROVE  Listing'
  BY <1>8 DEF CheckpointFails, Goes, history, Owners, Listing, At, Id
<1>9. ASSUME NEW c \in Clients, ReadSequenceNumber(c)
      PROVE  Listing'
  BY <1>9 DEF ReadSequenceNumber, history, Owners, Listing, At, Id
<1>10. ASSUME NEW c \in Clients, OpenManifest(c)
      PROVE  Listing'
  BY <1>10 DEF OpenManifest, Goes, history, Owners, Listing, At, Id
<1>11. ASSUME NEW c \in Clients, OpenManifestFails(c)
      PROVE  Listing'
  BY <1>11 DEF OpenManifestFails, Goes, history, Owners, Listing, At, Id
<1>12. ASSUME NEW c \in Clients, WriteManifest(c)
      PROVE  Listing'
  BY <1>12 DEF WriteManifest, Respond, NoRequest, Owners, Listing, At, Id
<1>13. ASSUME NEW c \in Clients, WriteManifestFails(c)
      PROVE  Listing'
  BY <1>13 DEF WriteManifestFails, Goes, history, Owners, Listing, At, Id
<1>14. ASSUME NEW c \in Clients, RemoveEntry(c)
      PROVE  Listing'
  BY <1>14 DEF RemoveEntry, Removing, history, Owners, Listing, At, Id
<1>15. ASSUME NEW c \in Clients, RemoveDirectory(c)
      PROVE  Listing'
  BY <1>15
     DEF RemoveDirectory, Removing, EndRemove, Respond, NoRequest, Owners,
         Listing, At, Id
<1>16. ASSUME NEW c \in Clients, RemoveFails(c)
      PROVE  Listing'
  BY <1>16
     DEF RemoveFails, Removing, EndRemove, Respond, NoRequest, Owners, Listing,
         At, Id
<1>17. ASSUME NEW c \in Clients, Visit(c) \/ SkipUnread(c)
      PROVE  Listing'
  <2>1. CASE Visit(c)
    BY <2>1
       DEF Visit, history, Owners, Listing, At, Id, CreatedStays, Restorable, Loads
  <2>2. CASE SkipUnread(c)
    BY <2>2
       DEF SkipUnread, history, Owners, Listing, At, Id, CreatedStays, Restorable, Loads
  <2>. QED BY <1>17, <2>1, <2>2
<1>18. ASSUME NEW c \in Clients, EndList(c) \/ ListThrows(c)
      PROVE  Listing'
  <2>1. CASE EndList(c)
    BY <2>1
       DEF EndList, Respond, history, NoRequest, Owners, Listing, At, Id
  <2>2. CASE ListThrows(c)
    BY <2>2
       DEF ListThrows, Respond, history, NoRequest, Owners, Listing, At, Id
  <2>. QED BY <1>18, <2>1, <2>2
<1>. QED BY <1>1, <1>2, <1>3, <1>4, <1>5, <1>6, <1>7, <1>8, <1>9, <1>10, <1>11,
            <1>12, <1>13, <1>14, <1>15, <1>16, <1>17, <1>18
        DEF Next, Request, Step

(* Removing an entry touches one directory, which stays where it is. *)
LEMMA RemoveEffect ==
  ASSUME TypeOK, Named, NEW c \in Clients, RemoveEntry(c)
  PROVE  /\ \A i \in Ids : /\ dir'[i].there = dir[i].there
                           /\ dir'[i].manifest \in {dir[i].manifest, NoFile}
                           /\ i # Id(c) => dir'[i] = dir[i]
         /\ At(c) \in {"cleanup", "delete"}
         /\ UNCHANGED <<req, history>>
PROOF
<1>1. dir \in [Ids -> Directories]
  BY DEF TypeOK
<1>2. Id(c) \in Ids /\ At(c) \in {"cleanup", "delete"} /\ UNCHANGED <<req, history>>
  BY DEF RemoveEntry, Removing, Named, Creating
<1>3. CASE \E f \in dir[Id(c)].data : dir' = [dir EXCEPT ![Id(c)].data = @ \ {f}]
  BY <1>1, <1>2, <1>3 DEF Directories
<1>4. CASE dir' = [dir EXCEPT ![Id(c)].manifest = NoFile]
  BY <1>1, <1>2, <1>4 DEF Directories
<1>. QED BY <1>2, <1>3, <1>4 DEF RemoveEntry

LEMMA StepShown ==
  TypeOK /\ Named /\ Progress /\ ShownWasCheckpointed /\ [Next]_vars => ShownWasCheckpointed'
PROOF
<1>. SUFFICES ASSUME TypeOK, Named, Progress, ShownWasCheckpointed, [Next]_vars
              PROVE  ShownWasCheckpointed'
  OBVIOUS
<1>0. req \in [Clients -> Requests] /\ dir \in [Ids -> Directories]
  BY DEF TypeOK
<1>. USE <1>0, ManifestFacts DEF Requests, Directories
<1>1. CASE UNCHANGED vars
  BY <1>1
     DEF vars, history, Named, Creating, Progress, ShownWasCheckpointed, Loads,
         At, Id
<1>2. CASE Crash
  BY <1>2
     DEF Crash, history, NoRequest, Named, Creating, Progress,
         ShownWasCheckpointed, Loads, At, Id
<1>3. ASSUME NEW c \in Clients, NEW i \in Ids, DeleteBackup(c, i)
      PROVE  ShownWasCheckpointed'
  BY <1>3
     DEF DeleteBackup, Begin, NoRequest, Named, Creating, Progress,
         ShownWasCheckpointed, Loads, At, Id
<1>4. ASSUME NEW c \in Clients, CreateDirectory(c)
      PROVE  ShownWasCheckpointed'
  BY <1>4
     DEF CreateDirectory, Generated, Begin, NoRequest, Named, Creating,
         Progress, ShownWasCheckpointed, Loads, At, Id
<1>5. ASSUME NEW c \in Clients, BeginList(c) \/ BeginListFails(c)
      PROVE  ShownWasCheckpointed'
  <2>1. CASE BeginList(c)
    BY <2>1
       DEF BeginList, history, NoRequest, Named, Creating, Progress,
           ShownWasCheckpointed, Loads, At, Id
  <2>2. CASE BeginListFails(c)
    BY <2>2
       DEF BeginListFails, history, NoRequest, Named, Creating, Progress,
           ShownWasCheckpointed, Loads, At, Id
  <2>. QED BY <1>5, <2>1, <2>2
<1>6. ASSUME NEW c \in Clients, Lock(c)
      PROVE  ShownWasCheckpointed'
  BY <1>6
     DEF Lock, Goes, history, Named, Creating, Progress, ShownWasCheckpointed,
         Loads, At, Id
<1>7. ASSUME NEW c \in Clients, CreateCheckpoint(c)
      PROVE  ShownWasCheckpointed'
  BY <1>7
     DEF CreateCheckpoint, Named, Creating, Progress, ShownWasCheckpointed,
         Loads, At, Id
<1>8. ASSUME NEW c \in Clients, CheckpointFails(c)
      PROVE  ShownWasCheckpointed'
  BY <1>8
     DEF CheckpointFails, Goes, history, Named, Creating, Progress,
         ShownWasCheckpointed, Loads, At, Id
<1>9. ASSUME NEW c \in Clients, ReadSequenceNumber(c)
      PROVE  ShownWasCheckpointed'
  BY <1>9
     DEF ReadSequenceNumber, history, Named, Creating, Progress,
         ShownWasCheckpointed, Loads, At, Id
<1>10. ASSUME NEW c \in Clients, OpenManifest(c)
      PROVE  ShownWasCheckpointed'
  BY <1>10
     DEF OpenManifest, Goes, history, Named, Creating, Progress,
         ShownWasCheckpointed, Loads, At, Id
<1>11. ASSUME NEW c \in Clients, OpenManifestFails(c)
      PROVE  ShownWasCheckpointed'
  BY <1>11
     DEF OpenManifestFails, Goes, history, Named, Creating, Progress,
         ShownWasCheckpointed, Loads, At, Id
<1>12. ASSUME NEW c \in Clients, WriteManifest(c)
      PROVE  ShownWasCheckpointed'
  BY <1>12
     DEF WriteManifest, Respond, NoRequest, Named, Creating, Progress,
         ShownWasCheckpointed, Loads, At, Id, Written
<1>13. ASSUME NEW c \in Clients, WriteManifestFails(c)
      PROVE  ShownWasCheckpointed'
  BY <1>13
     DEF WriteManifestFails, Goes, history, Named, Creating, Progress,
         ShownWasCheckpointed, Loads, At, Id, Written
<1>14. ASSUME NEW c \in Clients, RemoveEntry(c)
      PROVE  ShownWasCheckpointed'
  BY <1>14, RemoveEffect DEF history, ShownWasCheckpointed, Loads
<1>15. ASSUME NEW c \in Clients, RemoveDirectory(c)
      PROVE  ShownWasCheckpointed'
  BY <1>15
     DEF RemoveDirectory, Removing, EndRemove, Respond, NoRequest, Named,
         Creating, Progress, ShownWasCheckpointed, Loads, At, Id, NoDir
<1>16. ASSUME NEW c \in Clients, RemoveFails(c)
      PROVE  ShownWasCheckpointed'
  BY <1>16
     DEF RemoveFails, Removing, EndRemove, Respond, NoRequest, Named, Creating,
         Progress, ShownWasCheckpointed, Loads, At, Id
<1>17. ASSUME NEW c \in Clients, Visit(c) \/ SkipUnread(c)
      PROVE  ShownWasCheckpointed'
  <2>1. CASE Visit(c)
    BY <2>1
       DEF Visit, history, Named, Creating, Progress, ShownWasCheckpointed, Loads, At, Id
  <2>2. CASE SkipUnread(c)
    BY <2>2
       DEF SkipUnread, history, Named, Creating, Progress, ShownWasCheckpointed, Loads,
           At, Id
  <2>. QED BY <1>17, <2>1, <2>2
<1>18. ASSUME NEW c \in Clients, EndList(c) \/ ListThrows(c)
      PROVE  ShownWasCheckpointed'
  <2>1. CASE EndList(c)
    BY <2>1
       DEF EndList, Respond, history, NoRequest, Named, Creating, Progress,
           ShownWasCheckpointed, Loads, At, Id
  <2>2. CASE ListThrows(c)
    BY <2>2
       DEF ListThrows, Respond, history, NoRequest, Named, Creating, Progress,
           ShownWasCheckpointed, Loads, At, Id
  <2>. QED BY <1>18, <2>1, <2>2
<1>. QED BY <1>1, <1>2, <1>3, <1>4, <1>5, <1>6, <1>7, <1>8, <1>9, <1>10, <1>11,
            <1>12, <1>13, <1>14, <1>15, <1>16, <1>17, <1>18
        DEF Next, Request, Step

LEMMA StepProgress ==
  TypeOK /\ Named /\ Owners /\ Progress /\ [Next]_vars => Progress'
PROOF
<1>. SUFFICES ASSUME TypeOK, Named, Owners, Progress, [Next]_vars
              PROVE  Progress'
  OBVIOUS
<1>0. req \in [Clients -> Requests] /\ dir \in [Ids -> Directories]
  BY DEF TypeOK
<1>. USE <1>0, ManifestFacts DEF Requests, Directories
<1>1. CASE UNCHANGED vars
  BY <1>1 DEF vars, history, Named, Creating, Owners, Progress, At, Id
<1>2. CASE Crash
  BY <1>2
     DEF Crash, history, NoRequest, Named, Creating, Owners, Progress, At, Id
<1>3. ASSUME NEW c \in Clients, NEW i \in Ids, DeleteBackup(c, i)
      PROVE  Progress'
  BY <1>3
     DEF DeleteBackup, Begin, NoRequest, Named, Creating, Owners, Progress, At,
         Id
<1>4. ASSUME NEW c \in Clients, CreateDirectory(c)
      PROVE  Progress'
  BY <1>4
     DEF CreateDirectory, Generated, Begin, NoRequest, Named, Creating, Owners,
         Progress, At, Id
<1>5. ASSUME NEW c \in Clients, BeginList(c) \/ BeginListFails(c)
      PROVE  Progress'
  <2>1. CASE BeginList(c)
    BY <2>1
       DEF BeginList, history, NoRequest, Named, Creating, Owners, Progress, At, Id
  <2>2. CASE BeginListFails(c)
    BY <2>2
       DEF BeginListFails, history, NoRequest, Named, Creating, Owners, Progress, At, Id
  <2>. QED BY <1>5, <2>1, <2>2
<1>6. ASSUME NEW c \in Clients, Lock(c)
      PROVE  Progress'
  BY <1>6 DEF Lock, Goes, history, Named, Creating, Owners, Progress, At, Id
<1>7. ASSUME NEW c \in Clients, CreateCheckpoint(c)
      PROVE  Progress'
  BY <1>7 DEF CreateCheckpoint, Named, Creating, Owners, Progress, At, Id
<1>8. ASSUME NEW c \in Clients, CheckpointFails(c)
      PROVE  Progress'
  BY <1>8
     DEF CheckpointFails, Goes, history, Named, Creating, Owners, Progress, At,
         Id
<1>9. ASSUME NEW c \in Clients, ReadSequenceNumber(c)
      PROVE  Progress'
  BY <1>9
     DEF ReadSequenceNumber, history, Named, Creating, Owners, Progress, At, Id
<1>10. ASSUME NEW c \in Clients, OpenManifest(c)
      PROVE  Progress'
  BY <1>10
     DEF OpenManifest, Goes, history, Named, Creating, Owners, Progress, At, Id
<1>11. ASSUME NEW c \in Clients, OpenManifestFails(c)
      PROVE  Progress'
  BY <1>11
     DEF OpenManifestFails, Goes, history, Named, Creating, Owners, Progress,
         At, Id
<1>12. ASSUME NEW c \in Clients, WriteManifest(c)
      PROVE  Progress'
  BY <1>12
     DEF WriteManifest, Respond, NoRequest, Named, Creating, Owners, Progress,
         At, Id, Written
<1>13. ASSUME NEW c \in Clients, WriteManifestFails(c)
      PROVE  Progress'
  BY <1>13
     DEF WriteManifestFails, Goes, history, Named, Creating, Owners, Progress,
         At, Id, Written
<1>14. ASSUME NEW c \in Clients, RemoveEntry(c)
      PROVE  Progress'
  BY <1>14
     DEF RemoveEntry, Removing, history, Named, Creating, Owners, Progress, At,
         Id
<1>15. ASSUME NEW c \in Clients, RemoveDirectory(c)
      PROVE  Progress'
  BY <1>15
     DEF RemoveDirectory, Removing, EndRemove, Respond, NoRequest, Named,
         Creating, Owners, Progress, At, Id, NoDir
<1>16. ASSUME NEW c \in Clients, RemoveFails(c)
      PROVE  Progress'
  BY <1>16
     DEF RemoveFails, Removing, EndRemove, Respond, NoRequest, Named, Creating,
         Owners, Progress, At, Id
<1>17. ASSUME NEW c \in Clients, Visit(c) \/ SkipUnread(c)
      PROVE  Progress'
  <2>1. CASE Visit(c)
    BY <2>1
       DEF Visit, history, Named, Creating, Owners, Progress, At, Id
  <2>2. CASE SkipUnread(c)
    BY <2>2
       DEF SkipUnread, history, Named, Creating, Owners, Progress, At, Id
  <2>. QED BY <1>17, <2>1, <2>2
<1>18. ASSUME NEW c \in Clients, EndList(c) \/ ListThrows(c)
      PROVE  Progress'
  <2>1. CASE EndList(c)
    BY <2>1
       DEF EndList, Respond, history, NoRequest, Named, Creating, Owners, Progress, At,
           Id
  <2>2. CASE ListThrows(c)
    BY <2>2
       DEF ListThrows, Respond, history, NoRequest, Named, Creating, Owners, Progress,
           At, Id
  <2>. QED BY <1>18, <2>1, <2>2
<1>. QED BY <1>1, <1>2, <1>3, <1>4, <1>5, <1>6, <1>7, <1>8, <1>9, <1>10, <1>11,
            <1>12, <1>13, <1>14, <1>15, <1>16, <1>17, <1>18
        DEF Next, Request, Step

LEMMA StepCreated ==
  TypeOK /\ Named /\ Owners /\ Progress /\ CreatedStays /\ [Next]_vars => CreatedStays'
PROOF
<1>. SUFFICES ASSUME TypeOK, Named, Owners, Progress, CreatedStays, [Next]_vars
              PROVE  CreatedStays'
  OBVIOUS
<1>0. req \in [Clients -> Requests] /\ dir \in [Ids -> Directories]
  BY DEF TypeOK
<1>. USE <1>0, ManifestFacts DEF Requests, Directories
<1>1. CASE UNCHANGED vars
  BY <1>1
     DEF vars, history, Named, Creating, Owners, Progress, CreatedStays,
         Restorable, Loads, At, Id
<1>2. CASE Crash
  BY <1>2
     DEF Crash, history, NoRequest, Named, Creating, Owners, Progress,
         CreatedStays, Restorable, Loads, At, Id
<1>3. ASSUME NEW c \in Clients, NEW i \in Ids, DeleteBackup(c, i)
      PROVE  CreatedStays'
  BY <1>3
     DEF DeleteBackup, Begin, NoRequest, Named, Creating, Owners, Progress,
         CreatedStays, Restorable, Loads, At, Id
<1>4. ASSUME NEW c \in Clients, CreateDirectory(c)
      PROVE  CreatedStays'
  BY <1>4
     DEF CreateDirectory, Generated, Begin, NoRequest, Named, Creating, Owners,
         Progress, CreatedStays, Restorable, Loads, At, Id
<1>5. ASSUME NEW c \in Clients, BeginList(c) \/ BeginListFails(c)
      PROVE  CreatedStays'
  <2>1. CASE BeginList(c)
    BY <2>1
       DEF BeginList, history, NoRequest, Named, Creating, Owners, Progress,
           CreatedStays, Restorable, Loads, At, Id
  <2>2. CASE BeginListFails(c)
    BY <2>2
       DEF BeginListFails, history, NoRequest, Named, Creating, Owners, Progress,
           CreatedStays, Restorable, Loads, At, Id
  <2>. QED BY <1>5, <2>1, <2>2
<1>6. ASSUME NEW c \in Clients, Lock(c)
      PROVE  CreatedStays'
  BY <1>6
     DEF Lock, Goes, history, Named, Creating, Owners, Progress, CreatedStays,
         Restorable, Loads, At, Id
<1>7. ASSUME NEW c \in Clients, CreateCheckpoint(c)
      PROVE  CreatedStays'
  BY <1>7
     DEF CreateCheckpoint, Named, Creating, Owners, Progress, CreatedStays,
         Restorable, Loads, At, Id
<1>8. ASSUME NEW c \in Clients, CheckpointFails(c)
      PROVE  CreatedStays'
  <2>1. Id(c) \in Ids /\ Id(c) \notin created \cup cleaned /\ UNCHANGED history
    BY <1>8 DEF CheckpointFails, Goes, Named, Creating, Owners, At, Id
  <2>2. \A i \in Ids : i # Id(c) => dir'[i] = dir[i]
    BY <1>8, <2>1 DEF CheckpointFails
  <2>. QED BY <2>1, <2>2 DEF TypeOK, history, CreatedStays, Restorable, Loads
<1>9. ASSUME NEW c \in Clients, ReadSequenceNumber(c)
      PROVE  CreatedStays'
  BY <1>9
     DEF ReadSequenceNumber, history, Named, Creating, Owners, Progress,
         CreatedStays, Restorable, Loads, At, Id
<1>10. ASSUME NEW c \in Clients, OpenManifest(c)
      PROVE  CreatedStays'
  BY <1>10
     DEF OpenManifest, Goes, history, Named, Creating, Owners, Progress,
         CreatedStays, Restorable, Loads, At, Id
<1>11. ASSUME NEW c \in Clients, OpenManifestFails(c)
      PROVE  CreatedStays'
  BY <1>11
     DEF OpenManifestFails, Goes, history, Named, Creating, Owners, Progress,
         CreatedStays, Restorable, Loads, At, Id
<1>12. ASSUME NEW c \in Clients, WriteManifest(c)
      PROVE  CreatedStays'
  <2>1. /\ At(c) = "write" /\ Id(c) \in Ids
        /\ created' = created \cup {Id(c)} /\ UNCHANGED doomed
        /\ dir' = [dir EXCEPT ![Id(c)].manifest =
                    IF @ = NoFile THEN NoFile ELSE Manifest(req[c].seq)]
    BY <1>12 DEF WriteManifest, Written, Named, Creating
  <2>2. ASSUME Id(c) \notin doomed
        PROVE  /\ dir'[Id(c)].there /\ dir'[Id(c)].data = Files
               /\ dir'[Id(c)].manifest = Manifest(req[c].seq)
    BY <2>1, <2>2 DEF Progress
  <2>3. \A i \in Ids : i # Id(c) => dir'[i] = dir[i]
    BY <2>1
  <2>. QED BY <2>1, <2>2, <2>3, BackupAssumption
          DEF CreatedStays, Restorable, Loads, BackupAssumption
<1>13. ASSUME NEW c \in Clients, WriteManifestFails(c)
      PROVE  CreatedStays'
  BY <1>13
     DEF WriteManifestFails, Goes, history, Named, Creating, Owners, Progress,
         CreatedStays, Restorable, Loads, At, Id, Written
<1>14. ASSUME NEW c \in Clients, RemoveEntry(c)
      PROVE  CreatedStays'
  <2>1. \A i \in created \ doomed : i \in Ids /\ i # Id(c)
    BY <1>14, RemoveEffect DEF Owners, Creating, TypeOK
  <2>. QED BY <1>14, <2>1, RemoveEffect
          DEF history, CreatedStays, Restorable, Loads
<1>15. ASSUME NEW c \in Clients, RemoveDirectory(c)
      PROVE  CreatedStays'
  BY <1>15
     DEF RemoveDirectory, Removing, EndRemove, Respond, NoRequest, Named,
         Creating, Owners, Progress, CreatedStays, Restorable, Loads, At, Id,
         NoDir
<1>16. ASSUME NEW c \in Clients, RemoveFails(c)
      PROVE  CreatedStays'
  BY <1>16
     DEF RemoveFails, Removing, EndRemove, Respond, NoRequest, Named, Creating,
         Owners, Progress, CreatedStays, Restorable, Loads, At, Id
<1>17. ASSUME NEW c \in Clients, Visit(c) \/ SkipUnread(c)
      PROVE  CreatedStays'
  <2>1. CASE Visit(c)
    BY <2>1
       DEF Visit, history, Named, Creating, Owners, Progress, CreatedStays, Restorable,
           Loads, At, Id
  <2>2. CASE SkipUnread(c)
    BY <2>2
       DEF SkipUnread, history, Named, Creating, Owners, Progress, CreatedStays,
           Restorable, Loads, At, Id
  <2>. QED BY <1>17, <2>1, <2>2
<1>18. ASSUME NEW c \in Clients, EndList(c) \/ ListThrows(c)
      PROVE  CreatedStays'
  <2>1. CASE EndList(c)
    BY <2>1
       DEF EndList, Respond, history, NoRequest, Named, Creating, Owners, Progress,
           CreatedStays, Restorable, Loads, At, Id
  <2>2. CASE ListThrows(c)
    BY <2>2
       DEF ListThrows, Respond, history, NoRequest, Named, Creating, Owners, Progress,
           CreatedStays, Restorable, Loads, At, Id
  <2>. QED BY <1>18, <2>1, <2>2
<1>. QED BY <1>1, <1>2, <1>3, <1>4, <1>5, <1>6, <1>7, <1>8, <1>9, <1>10, <1>11,
            <1>12, <1>13, <1>14, <1>15, <1>16, <1>17, <1>18
        DEF Next, Request, Step

LEMMA StepRemoved ==
  TypeOK /\ Named /\ Owners /\ RemovedStaysRemoved /\ [Next]_vars => RemovedStaysRemoved'
PROOF
<1>. SUFFICES ASSUME TypeOK, Named, Owners, RemovedStaysRemoved, [Next]_vars
              PROVE  RemovedStaysRemoved'
  OBVIOUS
<1>0. req \in [Clients -> Requests] /\ dir \in [Ids -> Directories]
  BY DEF TypeOK
<1>. USE <1>0, ManifestFacts DEF Requests, Directories
<1>1. CASE UNCHANGED vars
  BY <1>1
     DEF vars, history, Named, Creating, Owners, RemovedStaysRemoved, At, Id
<1>2. CASE Crash
  BY <1>2
     DEF Crash, history, NoRequest, Named, Creating, Owners,
         RemovedStaysRemoved, At, Id
<1>3. ASSUME NEW c \in Clients, NEW i \in Ids, DeleteBackup(c, i)
      PROVE  RemovedStaysRemoved'
  BY <1>3
     DEF DeleteBackup, Begin, NoRequest, Named, Creating, Owners,
         RemovedStaysRemoved, At, Id
<1>4. ASSUME NEW c \in Clients, CreateDirectory(c)
      PROVE  RemovedStaysRemoved'
  BY <1>4
     DEF CreateDirectory, Generated, Begin, NoRequest, Named, Creating, Owners,
         RemovedStaysRemoved, At, Id
<1>5. ASSUME NEW c \in Clients, BeginList(c) \/ BeginListFails(c)
      PROVE  RemovedStaysRemoved'
  <2>1. CASE BeginList(c)
    BY <2>1
       DEF BeginList, history, NoRequest, Named, Creating, Owners, RemovedStaysRemoved,
           At, Id
  <2>2. CASE BeginListFails(c)
    BY <2>2
       DEF BeginListFails, history, NoRequest, Named, Creating, Owners,
           RemovedStaysRemoved, At, Id
  <2>. QED BY <1>5, <2>1, <2>2
<1>6. ASSUME NEW c \in Clients, Lock(c)
      PROVE  RemovedStaysRemoved'
  BY <1>6
     DEF Lock, Goes, history, Named, Creating, Owners, RemovedStaysRemoved, At,
         Id
<1>7. ASSUME NEW c \in Clients, CreateCheckpoint(c)
      PROVE  RemovedStaysRemoved'
  BY <1>7
     DEF CreateCheckpoint, Named, Creating, Owners, RemovedStaysRemoved, At, Id
<1>8. ASSUME NEW c \in Clients, CheckpointFails(c)
      PROVE  RemovedStaysRemoved'
  <2>1. Id(c) \in Ids /\ Id(c) \notin created \cup cleaned /\ UNCHANGED history
    BY <1>8 DEF CheckpointFails, Goes, Named, Creating, Owners, At, Id
  <2>2. \A i \in Ids : i # Id(c) => dir'[i] = dir[i]
    BY <1>8, <2>1 DEF CheckpointFails
  <2>3. created \subseteq Ids /\ cleaned \subseteq Ids /\ deleted \subseteq created
    BY DEF TypeOK, Owners
  <2>. QED BY <2>1, <2>2, <2>3 DEF history, RemovedStaysRemoved
<1>9. ASSUME NEW c \in Clients, ReadSequenceNumber(c)
      PROVE  RemovedStaysRemoved'
  BY <1>9
     DEF ReadSequenceNumber, history, Named, Creating, Owners,
         RemovedStaysRemoved, At, Id
<1>10. ASSUME NEW c \in Clients, OpenManifest(c)
      PROVE  RemovedStaysRemoved'
  BY <1>10
     DEF OpenManifest, Goes, history, Named, Creating, Owners,
         RemovedStaysRemoved, At, Id
<1>11. ASSUME NEW c \in Clients, OpenManifestFails(c)
      PROVE  RemovedStaysRemoved'
  BY <1>11
     DEF OpenManifestFails, Goes, history, Named, Creating, Owners,
         RemovedStaysRemoved, At, Id
<1>12. ASSUME NEW c \in Clients, WriteManifest(c)
      PROVE  RemovedStaysRemoved'
  BY <1>12
     DEF WriteManifest, Respond, NoRequest, Named, Creating, Owners,
         RemovedStaysRemoved, At, Id, Written
<1>13. ASSUME NEW c \in Clients, WriteManifestFails(c)
      PROVE  RemovedStaysRemoved'
  BY <1>13
     DEF WriteManifestFails, Goes, history, Named, Creating, Owners,
         RemovedStaysRemoved, At, Id, Written
<1>14. ASSUME NEW c \in Clients, RemoveEntry(c)
      PROVE  RemovedStaysRemoved'
  <2>1. deleted \cup cleaned \subseteq Ids
    BY DEF TypeOK
  <2>. QED BY <1>14, <2>1, RemoveEffect DEF history, RemovedStaysRemoved
<1>15. ASSUME NEW c \in Clients, RemoveDirectory(c)
      PROVE  RemovedStaysRemoved'
  BY <1>15
     DEF RemoveDirectory, Removing, EndRemove, Respond, NoRequest, Named,
         Creating, Owners, RemovedStaysRemoved, At, Id, NoDir
<1>16. ASSUME NEW c \in Clients, RemoveFails(c)
      PROVE  RemovedStaysRemoved'
  BY <1>16
     DEF RemoveFails, Removing, EndRemove, Respond, NoRequest, Named, Creating,
         Owners, RemovedStaysRemoved, At, Id
<1>17. ASSUME NEW c \in Clients, Visit(c) \/ SkipUnread(c)
      PROVE  RemovedStaysRemoved'
  <2>1. CASE Visit(c)
    BY <2>1
       DEF Visit, history, Named, Creating, Owners, RemovedStaysRemoved, At, Id
  <2>2. CASE SkipUnread(c)
    BY <2>2
       DEF SkipUnread, history, Named, Creating, Owners, RemovedStaysRemoved, At, Id
  <2>. QED BY <1>17, <2>1, <2>2
<1>18. ASSUME NEW c \in Clients, EndList(c) \/ ListThrows(c)
      PROVE  RemovedStaysRemoved'
  <2>1. CASE EndList(c)
    BY <2>1
       DEF EndList, Respond, history, NoRequest, Named, Creating, Owners,
           RemovedStaysRemoved, At, Id
  <2>2. CASE ListThrows(c)
    BY <2>2
       DEF ListThrows, Respond, history, NoRequest, Named, Creating, Owners,
           RemovedStaysRemoved, At, Id
  <2>. QED BY <1>18, <2>1, <2>2
<1>. QED BY <1>1, <1>2, <1>3, <1>4, <1>5, <1>6, <1>7, <1>8, <1>9, <1>10, <1>11,
            <1>12, <1>13, <1>14, <1>15, <1>16, <1>17, <1>18
        DEF Next, Request, Step

LEMMA RequestFacts ==
  /\ NoRequest \in Requests
  /\ \A at \in Places, i \in Ids, k \in SUBSET Ids :
       [NoRequest EXCEPT !.at = at, !.id = i, !.known = k] \in Requests
  /\ \A at \in Places, t \in SUBSET Ids, k \in SUBSET Ids :
       /\ [NoRequest EXCEPT !.at = at] \in Requests
       /\ [NoRequest EXCEPT !.at = at, !.todo = t, !.known = k] \in Requests
  /\ \A r \in Requests, at \in Places : [r EXCEPT !.at = at] \in Requests
  /\ \A r \in Requests, at \in Places, n \in 0..MaxSeq : [r EXCEPT !.at = at, !.seq = n] \in Requests
  /\ \A r \in Requests, t \in SUBSET Ids, l \in SUBSET Ids :
       /\ [r EXCEPT !.todo = t, !.listed = l] \in Requests
       /\ [r EXCEPT !.todo = t, !.known = l] \in Requests
PROOF
<1>1. 0 \in 0..MaxSeq /\ "idle" \in Places
  BY BackupAssumption DEF BackupAssumption, Places
<1>2. NoRequest \in Requests
  BY <1>1 DEF NoRequest, Requests
<1>. HIDE DEF NoRequest, Places
<1>3. \A r \in Requests, at \in Places, i \in Ids, k \in SUBSET Ids :
        [r EXCEPT !.at = at, !.id = i, !.known = k] \in Requests
  BY DEF Requests
<1>4. \A r \in Requests, at \in Places, t \in SUBSET Ids, k \in SUBSET Ids :
        [r EXCEPT !.at = at, !.todo = t, !.known = k] \in Requests
  BY DEF Requests
<1>5. \A r \in Requests, at \in Places : [r EXCEPT !.at = at] \in Requests
  BY DEF Requests
<1>6. \A r \in Requests, at \in Places, n \in 0..MaxSeq : [r EXCEPT !.at = at, !.seq = n] \in Requests
  BY DEF Requests
<1>7. \A r \in Requests, t \in SUBSET Ids, l \in SUBSET Ids :
       /\ [r EXCEPT !.todo = t, !.listed = l] \in Requests
       /\ [r EXCEPT !.todo = t, !.known = l] \in Requests
  BY DEF Requests
<1>. QED BY <1>2, <1>3, <1>4, <1>5, <1>6, <1>7

LEMMA DirectoryFacts ==
  /\ NoDir \in Directories
  /\ \A d \in Directories : [d EXCEPT !.there = TRUE] \in Directories
  /\ \A d \in Directories, m \in Manifests : [d EXCEPT !.manifest = m] \in Directories
  /\ \A d \in Directories, e \in SUBSET Files : [d EXCEPT !.data = e] \in Directories
  /\ \A d \in Directories, e \in SUBSET Files : [d EXCEPT !.there = TRUE, !.data = e] \in Directories
  /\ \A d \in Directories, n \in 0..MaxSeq :
       [d EXCEPT !.there = TRUE, !.data = Files, !.snapshot = n] \in Directories
PROOF
<1>1. 0 \in 0..MaxSeq /\ NoFile \in Manifests
  BY BackupAssumption, ManifestFacts DEF BackupAssumption
<1>2. NoDir \in Directories
  BY <1>1 DEF NoDir, Directories
<1>3. \A d \in Directories : d = [there |-> d.there, data |-> d.data, manifest |-> d.manifest,
                                  snapshot |-> d.snapshot]
  BY DEF Directories
<1>. QED BY <1>2 DEF Directories

LEMMA InitInv == Init => Inv
PROOF
<1>1. Init => TypeOK
  <2>1. Init => dir \in [Ids -> Directories] /\ req \in [Clients -> Requests]
    BY RequestFacts, DirectoryFacts DEF Init
  <2>2. Init => crashes \in 0..MaxCrashes
    BY BackupAssumption DEF Init, BackupAssumption
  <2>. QED BY <2>1, <2>2 DEF Init, TypeOK
<1>2. Init => Named /\ Owners /\ Progress /\ Listing
  BY DEF Init, Named, Owners, Progress, Listing, Creating, At, Id, NoRequest
<1>3. Init => ShownWasCheckpointed /\ CreatedStays /\ RemovedStaysRemoved
  BY ManifestFacts
     DEF Init, ShownWasCheckpointed, CreatedStays, RemovedStaysRemoved, Loads,
         NoDir
<1>. QED BY <1>1, <1>2, <1>3 DEF Inv

LEMMA StepTypeReq ==
  TypeOK /\ Named /\ [Next]_vars => (req \in [Clients -> Requests])'
PROOF
<1>. SUFFICES ASSUME TypeOK, Named, [Next]_vars
              PROVE  (req \in [Clients -> Requests])'
  OBVIOUS
<1>0. /\ req \in [Clients -> Requests] /\ used \subseteq Ids /\ created \subseteq Ids
      /\ \A c \in Clients : /\ req[c] \in Requests /\ req[c].seq \in 0..MaxSeq
                             /\ req[c].todo \subseteq Ids /\ req[c].listed \subseteq Ids
                             /\ req[c].known \subseteq Ids
  BY DEF TypeOK, Requests
<1>a. \A c \in Clients : \A n \in req[c].seq..MaxSeq : n \in 0..MaxSeq
  BY <1>0, BackupAssumption DEF BackupAssumption
<1>. USE <1>0, <1>a, RequestFacts
<1>1. CASE UNCHANGED vars
  BY <1>1 DEF vars, history
<1>2. CASE Crash
  BY <1>2 DEF Crash, history
<1>3. ASSUME NEW c \in Clients, NEW i \in Ids, DeleteBackup(c, i)
      PROVE  (req \in [Clients -> Requests])'
  BY <1>3 DEF DeleteBackup, Begin, Places
<1>4. ASSUME NEW c \in Clients, CreateDirectory(c)
      PROVE  (req \in [Clients -> Requests])'
  <2>1. PICK i \in Ids : Begin(c, i, "lock")
    BY <1>4 DEF CreateDirectory
  <2>2. [NoRequest EXCEPT !.at = "lock", !.id = i, !.known = created \cap {i}] \in Requests
    BY RequestFacts DEF Places
  <2>. QED BY <2>1, <2>2 DEF Begin
<1>5. ASSUME NEW c \in Clients, BeginList(c) \/ BeginListFails(c)
      PROVE  (req \in [Clients -> Requests])'
  <2>1. CASE BeginList(c)
    <3>1. PICK new \in SUBSET (Ids \ Listable) :
            req' = [req EXCEPT ![c] = [NoRequest EXCEPT !.at = "list", !.todo = Listable \cup new,
                                                        !.known = created]]
      BY <2>1 DEF BeginList
    <3>2. [NoRequest EXCEPT !.at = "list", !.todo = Listable \cup new, !.known = created] \in Requests
      BY RequestFacts DEF Places, Listable
    <3>. QED BY <3>1, <3>2
  <2>2. CASE BeginListFails(c)
    <3>1. [NoRequest EXCEPT !.at = "list"] \in Requests
      BY RequestFacts DEF Places, Listable
    <3>. QED BY <2>2, <3>1 DEF BeginListFails
  <2>. QED BY <1>5, <2>1, <2>2
<1>6. ASSUME NEW c \in Clients, Lock(c)
      PROVE  (req \in [Clients -> Requests])'
  BY <1>6 DEF Lock, Goes, history, Places
<1>7. ASSUME NEW c \in Clients, CreateCheckpoint(c)
      PROVE  (req \in [Clients -> Requests])'
  <2>1. PICK n \in 0..MaxSeq : req' = [req EXCEPT ![c].at = "number", ![c].seq = n]
    BY <1>7 DEF CreateCheckpoint
  <2>2. [req[c] EXCEPT !.at = "number", !.seq = n] \in Requests
    BY RequestFacts DEF Places
  <2>. QED BY <2>1, <2>2
<1>8. ASSUME NEW c \in Clients, CheckpointFails(c)
      PROVE  (req \in [Clients -> Requests])'
  BY <1>8 DEF CheckpointFails, Goes, history, Places
<1>9. ASSUME NEW c \in Clients, ReadSequenceNumber(c)
      PROVE  (req \in [Clients -> Requests])'
  <2>1. PICK n \in req[c].seq..MaxSeq : req' = [req EXCEPT ![c].at = "open", ![c].seq = n]
    BY <1>9 DEF ReadSequenceNumber
  <2>2. n \in 0..MaxSeq
    BY <2>1
  <2>3. [req[c] EXCEPT !.at = "open", !.seq = n] \in Requests
    BY <2>2, RequestFacts DEF Places
  <2>. QED BY <2>1, <2>3
<1>10. ASSUME NEW c \in Clients, OpenManifest(c)
      PROVE  (req \in [Clients -> Requests])'
  BY <1>10 DEF OpenManifest, Goes, history, Places
<1>11. ASSUME NEW c \in Clients, OpenManifestFails(c)
      PROVE  (req \in [Clients -> Requests])'
  BY <1>11 DEF OpenManifestFails, Goes, history, Places
<1>12. ASSUME NEW c \in Clients, WriteManifest(c)
      PROVE  (req \in [Clients -> Requests])'
  BY <1>12 DEF WriteManifest, Respond, Places
<1>13. ASSUME NEW c \in Clients, WriteManifestFails(c)
      PROVE  (req \in [Clients -> Requests])'
  BY <1>13 DEF WriteManifestFails, Goes, history, Places
<1>14. ASSUME NEW c \in Clients, RemoveEntry(c)
      PROVE  (req \in [Clients -> Requests])'
  BY <1>14 DEF RemoveEntry, Removing, history, Places
<1>15. ASSUME NEW c \in Clients, RemoveDirectory(c)
      PROVE  (req \in [Clients -> Requests])'
  BY <1>15 DEF RemoveDirectory, Removing, EndRemove, Respond, Places
<1>16. ASSUME NEW c \in Clients, RemoveFails(c)
      PROVE  (req \in [Clients -> Requests])'
  BY <1>16 DEF RemoveFails, Removing, EndRemove, Respond, Places
<1>17. ASSUME NEW c \in Clients, Visit(c) \/ SkipUnread(c)
      PROVE  (req \in [Clients -> Requests])'
  <2>1. CASE Visit(c)
    <3>1. PICK i \in req[c].todo :
            req' = [req EXCEPT ![c].todo = @ \ {i},
                               ![c].listed = IF Loads(i) THEN @ \cup {i} ELSE @]
      BY <2>1 DEF Visit
    <3>2. PICK t \in SUBSET Ids, l \in SUBSET Ids :
            req' = [req EXCEPT ![c].todo = t, ![c].listed = l]
      <4>1. CASE Loads(i)
        BY <3>1, <4>1
      <4>2. CASE ~Loads(i)
        BY <3>1, <4>2
      <4>. QED BY <4>1, <4>2
    <3>3. [req[c] EXCEPT !.todo = t, !.listed = l] \in Requests
      BY RequestFacts
    <3>. QED BY <3>2, <3>3
  <2>2. CASE SkipUnread(c)
    <3>1. PICK t \in SUBSET Ids, l \in SUBSET Ids :
            req' = [req EXCEPT ![c].todo = t, ![c].known = l]
      BY <2>2 DEF SkipUnread
    <3>2. [req[c] EXCEPT !.todo = t, !.known = l] \in Requests
      BY RequestFacts
    <3>. QED BY <3>1, <3>2
  <2>. QED BY <1>17, <2>1, <2>2
<1>18. ASSUME NEW c \in Clients, EndList(c) \/ ListThrows(c)
      PROVE  (req \in [Clients -> Requests])'
  BY <1>18 DEF EndList, ListThrows, Respond, history, Places
<1>. QED BY <1>1, <1>2, <1>3, <1>4, <1>5, <1>6, <1>7, <1>8, <1>9, <1>10, <1>11,
            <1>12, <1>13, <1>14, <1>15, <1>16, <1>17, <1>18
        DEF Next, Request, Step

LEMMA StepTypeDir ==
  TypeOK /\ Named /\ [Next]_vars => (dir \in [Ids -> Directories])'
PROOF
<1>. SUFFICES ASSUME TypeOK, Named, [Next]_vars
              PROVE  (dir \in [Ids -> Directories])'
  OBVIOUS
<1>0. /\ dir \in [Ids -> Directories]
      /\ \A i \in Ids : dir[i] \in Directories /\ dir[i].data \subseteq Files
      /\ \A c \in Clients : req[c].seq \in 0..MaxSeq
  BY DEF TypeOK, Directories, Requests
<1>. USE <1>0, ManifestFacts, DirectoryFacts
<1>1. CASE UNCHANGED vars
  BY <1>1 DEF vars, history, Named, Creating, At, Id
<1>2. CASE Crash
  BY <1>2 DEF Crash, history, NoRequest, Named, Creating, At, Id
<1>3. ASSUME NEW c \in Clients, NEW i \in Ids, DeleteBackup(c, i)
      PROVE  (dir \in [Ids -> Directories])'
  BY <1>3 DEF DeleteBackup, Begin, NoRequest, Named, Creating, At, Id
<1>4. ASSUME NEW c \in Clients, CreateDirectory(c)
      PROVE  (dir \in [Ids -> Directories])'
  <2>1. PICK i \in Ids : dir' = [dir EXCEPT ![i].there = TRUE]
    BY <1>4 DEF CreateDirectory
  <2>2. [dir[i] EXCEPT !.there = TRUE] \in Directories
    BY DirectoryFacts
  <2>. QED BY <2>1, <2>2
<1>5. ASSUME NEW c \in Clients, BeginList(c) \/ BeginListFails(c)
      PROVE  (dir \in [Ids -> Directories])'
  BY <1>5 DEF BeginList, BeginListFails, history, NoRequest, Named, Creating, At, Id
<1>6. ASSUME NEW c \in Clients, Lock(c)
      PROVE  (dir \in [Ids -> Directories])'
  BY <1>6 DEF Lock, Goes, history, Named, Creating, At, Id
<1>7. ASSUME NEW c \in Clients, CreateCheckpoint(c)
      PROVE  (dir \in [Ids -> Directories])'
  <2>1. PICK n \in 0..MaxSeq :
          dir' = [dir EXCEPT ![Id(c)] = [@ EXCEPT !.there = TRUE, !.data = Files, !.snapshot = n]]
    BY <1>7 DEF CreateCheckpoint
  <2>2. Id(c) \in Ids
    BY <1>7 DEF CreateCheckpoint, Named, Creating
  <2>3. [dir[Id(c)] EXCEPT !.there = TRUE, !.data = Files, !.snapshot = n] \in Directories
    BY <2>2, DirectoryFacts
  <2>. QED BY <2>1, <2>2, <2>3
<1>8. ASSUME NEW c \in Clients, CheckpointFails(c)
      PROVE  (dir \in [Ids -> Directories])'
  <2>1. PICK e \in SUBSET Files :
          dir' = [dir EXCEPT ![Id(c)].there = TRUE, ![Id(c)].data = @ \cup e]
    BY <1>8 DEF CheckpointFails
  <2>2. Id(c) \in Ids
    BY <1>8 DEF CheckpointFails, Goes, Named, Creating
  <2>3. dir[Id(c)].data \cup e \in SUBSET Files
    BY <2>2
  <2>4. [dir[Id(c)] EXCEPT !.there = TRUE, !.data = dir[Id(c)].data \cup e] \in Directories
    BY <2>2, <2>3, DirectoryFacts
  <2>5. dir' = [dir EXCEPT ![Id(c)] =
                [dir[Id(c)] EXCEPT !.there = TRUE, !.data = dir[Id(c)].data \cup e]]
    BY <1>0, <2>1, <2>2
  <2>. QED BY <2>2, <2>4, <2>5
<1>9. ASSUME NEW c \in Clients, ReadSequenceNumber(c)
      PROVE  (dir \in [Ids -> Directories])'
  BY <1>9 DEF ReadSequenceNumber, history, Named, Creating, At, Id
<1>10. ASSUME NEW c \in Clients, OpenManifest(c)
      PROVE  (dir \in [Ids -> Directories])'
  BY <1>10 DEF OpenManifest, Goes, history, Named, Creating, At, Id
<1>11. ASSUME NEW c \in Clients, OpenManifestFails(c)
      PROVE  (dir \in [Ids -> Directories])'
  BY <1>11 DEF OpenManifestFails, Goes, history, Named, Creating, At, Id
<1>12. ASSUME NEW c \in Clients, WriteManifest(c)
      PROVE  (dir \in [Ids -> Directories])'
  BY <1>12
     DEF WriteManifest, Respond, NoRequest, Named, Creating, At, Id, Written
<1>13. ASSUME NEW c \in Clients, WriteManifestFails(c)
      PROVE  (dir \in [Ids -> Directories])'
  <2>1. PICK m \in {Torn, CutOff, Manifest(req[c].seq)} : Written(Id(c), m)
    BY <1>13 DEF WriteManifestFails
  <2>2. Id(c) \in Ids /\ m \in Manifests
    BY <1>13, <2>1 DEF WriteManifestFails, Goes, Named, Creating
  <2>3. [dir[Id(c)] EXCEPT !.manifest = m] \in Directories
        /\ [dir[Id(c)] EXCEPT !.manifest = NoFile] \in Directories
    BY <2>2, DirectoryFacts
  <2>. QED BY <2>1, <2>2, <2>3 DEF Written
<1>14. ASSUME NEW c \in Clients, RemoveEntry(c)
      PROVE  (dir \in [Ids -> Directories])'
  <2>1. Id(c) \in Ids
    BY <1>14 DEF RemoveEntry, Removing, Named, Creating
  <2>2. ASSUME NEW f \in dir[Id(c)].data, dir' = [dir EXCEPT ![Id(c)].data = @ \ {f}]
        PROVE  dir' \in [Ids -> Directories]
    <3>1. dir[Id(c)].data \ {f} \in SUBSET Files
      BY <2>1
    <3>2. [dir[Id(c)] EXCEPT !.data = dir[Id(c)].data \ {f}] \in Directories
      BY <2>1, <3>1, DirectoryFacts
    <3>. QED BY <2>1, <2>2, <3>2
  <2>3. ASSUME dir' = [dir EXCEPT ![Id(c)].manifest = NoFile]
        PROVE  dir' \in [Ids -> Directories]
    <3>1. [dir[Id(c)] EXCEPT !.manifest = NoFile] \in Directories
      BY <2>1, DirectoryFacts
    <3>. QED BY <2>1, <2>3, <3>1
  <2>. QED BY <1>14, <2>2, <2>3 DEF RemoveEntry
<1>15. ASSUME NEW c \in Clients, RemoveDirectory(c)
      PROVE  (dir \in [Ids -> Directories])'
  BY <1>15
     DEF RemoveDirectory, Removing, EndRemove, Respond, NoRequest, Named,
         Creating, At, Id
<1>16. ASSUME NEW c \in Clients, RemoveFails(c)
      PROVE  (dir \in [Ids -> Directories])'
  BY <1>16
     DEF RemoveFails, Removing, EndRemove, Respond, NoRequest, Named, Creating,
         At, Id
<1>17. ASSUME NEW c \in Clients, Visit(c) \/ SkipUnread(c)
      PROVE  (dir \in [Ids -> Directories])'
  BY <1>17 DEF Visit, SkipUnread, history, Named, Creating, At, Id
<1>18. ASSUME NEW c \in Clients, EndList(c) \/ ListThrows(c)
      PROVE  (dir \in [Ids -> Directories])'
  BY <1>18 DEF EndList, ListThrows, Respond, history, NoRequest, Named, Creating, At, Id
<1>. QED BY <1>1, <1>2, <1>3, <1>4, <1>5, <1>6, <1>7, <1>8, <1>9, <1>10, <1>11,
            <1>12, <1>13, <1>14, <1>15, <1>16, <1>17, <1>18
        DEF Next, Request, Step

LEMMA StepTypeRest ==
  TypeOK /\ Named /\ [Next]_vars => TypeRest'
PROOF
<1>. SUFFICES ASSUME TypeOK, Named, [Next]_vars
              PROVE  TypeRest'
  OBVIOUS
<1>0. TypeRest /\ req \in [Clients -> Requests]
  BY DEF TypeOK, TypeRest
<1>. USE <1>0 DEF Requests
<1>1. CASE UNCHANGED vars
  BY <1>1 DEF vars, history, TypeRest
<1>2. CASE Crash
  BY <1>2, BackupAssumption DEF Crash, history, TypeRest, BackupAssumption
<1>3. ASSUME NEW c \in Clients, NEW i \in Ids, DeleteBackup(c, i)
      PROVE  TypeRest'
  BY <1>3 DEF DeleteBackup, Begin, NoRequest, TypeRest, Named, Creating, At, Id
<1>4. ASSUME NEW c \in Clients, CreateDirectory(c)
      PROVE  TypeRest'
  BY <1>4
     DEF CreateDirectory, Generated, Begin, NoRequest, TypeRest, Named,
         Creating, At, Id
<1>5. ASSUME NEW c \in Clients, BeginList(c) \/ BeginListFails(c)
      PROVE  TypeRest'
  <2>1. CASE BeginList(c)
    BY <2>1
       DEF BeginList, history, NoRequest, TypeRest, Named, Creating, At, Id
  <2>2. CASE BeginListFails(c)
    BY <2>2
       DEF BeginListFails, history, NoRequest, TypeRest, Named, Creating, At, Id
  <2>. QED BY <1>5, <2>1, <2>2
<1>6. ASSUME NEW c \in Clients, Lock(c)
      PROVE  TypeRest'
  BY <1>6 DEF Lock, Goes, history, TypeRest, Named, Creating, At, Id
<1>7. ASSUME NEW c \in Clients, CreateCheckpoint(c)
      PROVE  TypeRest'
  BY <1>7 DEF CreateCheckpoint, TypeRest, Named, Creating, At, Id
<1>8. ASSUME NEW c \in Clients, CheckpointFails(c)
      PROVE  TypeRest'
  BY <1>8 DEF CheckpointFails, Goes, history, TypeRest, Named, Creating, At, Id
<1>9. ASSUME NEW c \in Clients, ReadSequenceNumber(c)
      PROVE  TypeRest'
  BY <1>9 DEF ReadSequenceNumber, history, TypeRest, Named, Creating, At, Id
<1>10. ASSUME NEW c \in Clients, OpenManifest(c)
      PROVE  TypeRest'
  BY <1>10 DEF OpenManifest, Goes, history, TypeRest, Named, Creating, At, Id
<1>11. ASSUME NEW c \in Clients, OpenManifestFails(c)
      PROVE  TypeRest'
  BY <1>11
     DEF OpenManifestFails, Goes, history, TypeRest, Named, Creating, At, Id
<1>12. ASSUME NEW c \in Clients, WriteManifest(c)
      PROVE  TypeRest'
  BY <1>12
     DEF WriteManifest, Respond, NoRequest, TypeRest, Named, Creating, At, Id
<1>13. ASSUME NEW c \in Clients, WriteManifestFails(c)
      PROVE  TypeRest'
  BY <1>13
     DEF WriteManifestFails, Goes, history, TypeRest, Named, Creating, At, Id
<1>14. ASSUME NEW c \in Clients, RemoveEntry(c)
      PROVE  TypeRest'
  BY <1>14 DEF RemoveEntry, Removing, history, TypeRest, Named, Creating, At, Id
<1>15. ASSUME NEW c \in Clients, RemoveDirectory(c)
      PROVE  TypeRest'
  BY <1>15
     DEF RemoveDirectory, Removing, EndRemove, Respond, NoRequest, TypeRest,
         Named, Creating, At, Id
<1>16. ASSUME NEW c \in Clients, RemoveFails(c)
      PROVE  TypeRest'
  BY <1>16
     DEF RemoveFails, Removing, EndRemove, Respond, NoRequest, TypeRest, Named,
         Creating, At, Id
<1>17. ASSUME NEW c \in Clients, Visit(c) \/ SkipUnread(c)
      PROVE  TypeRest'
  <2>1. CASE Visit(c)
    BY <2>1
       DEF Visit, history, TypeRest, Named, Creating, At, Id
  <2>2. CASE SkipUnread(c)
    BY <2>2
       DEF SkipUnread, history, TypeRest, Named, Creating, At, Id
  <2>. QED BY <1>17, <2>1, <2>2
<1>18. ASSUME NEW c \in Clients, EndList(c) \/ ListThrows(c)
      PROVE  TypeRest'
  <2>1. CASE EndList(c)
    BY <2>1
       DEF EndList, Respond, history, NoRequest, TypeRest, Named, Creating, At, Id
  <2>2. CASE ListThrows(c)
    BY <2>2
       DEF ListThrows, Respond, history, NoRequest, TypeRest, Named, Creating, At, Id
  <2>. QED BY <1>18, <2>1, <2>2
<1>. QED BY <1>1, <1>2, <1>3, <1>4, <1>5, <1>6, <1>7, <1>8, <1>9, <1>10, <1>11,
            <1>12, <1>13, <1>14, <1>15, <1>16, <1>17, <1>18
        DEF Next, Request, Step

LEMMA StepType == TypeOK /\ Named /\ [Next]_vars => TypeOK'
PROOF
<1>1. TypeOK /\ Named /\ [Next]_vars => TypeRest'
  BY StepTypeRest
<1>. QED BY <1>1, StepTypeReq, StepTypeDir DEF TypeOK, TypeRest

THEOREM Invariance == Spec => []Inv
PROOF
<1>1. Inv /\ [Next]_vars => Inv'
  BY StepType, StepNamed, StepOwners, StepProgress, StepListing, StepShown,
     StepCreated, StepRemoved
     DEF Inv
<1>. QED BY <1>1, InitInv, PTL DEF Spec

(* Every state of requests and directories is well typed. *)
THEOREM TypeCorrect == Spec => []TypeOK
PROOF
<1>1. Inv => TypeOK
  BY DEF Inv
<1>. QED BY <1>1, Invariance, PTL

(* Whatever fails or crashes, a backup with a good manifest had a complete  *)
(* checkpoint.                                                              *)
THEOREM ShownComplete == Spec => []ShownWasCheckpointed
PROOF
<1>1. Inv => ShownWasCheckpointed
  BY DEF Inv
<1>. QED BY <1>1, Invariance, PTL

(* A created backup stays complete until somebody asks to delete it. *)
THEOREM CreatedKept == Spec => []CreatedStays
PROOF
<1>1. Inv => CreatedStays
  BY DEF Inv
<1>. QED BY <1>1, Invariance, PTL

(* A list that has visited everything shows each backup that was created    *)
(* before it began, is not deleted and could be read.                       *)
THEOREM ListComplete == Spec => []ListsAllCreated
PROOF
<1>1. Inv => ListsAllCreated
  BY DEF Inv, Listing, ListsAllCreated
<1>. QED BY <1>1, Invariance, PTL

(* What was deleted or cleaned up successfully never appears again. *)
THEOREM RemovedForGood == Spec => []RemovedStaysRemoved
PROOF
<1>1. Inv => RemovedStaysRemoved
  BY DEF Inv
<1>. QED BY <1>1, Invariance, PTL
==============================================================================
