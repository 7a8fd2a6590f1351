--------------------------- MODULE RCloneProcess ---------------------------
(***************************************************************************)
(* Cloud upload: RCloneFeature::uploadBackup, called by concurrent         *)
(* requests, and RCloneProcess::forkAndExec, which runs one rclone process *)
(* per call and talks to it through two pipes.                             *)
(*                                                                         *)
(* pipe() makes descriptors that every process spawned later inherits      *)
(* until the server closes them: a child holds the write ends of its own   *)
(* pipes and of the pipes that other calls had open when it was spawned.   *)
(* The children are external: they write, close their outputs and end as   *)
(* they like; a pipe with output that is not read yet is in unread.        *)
(* Progress callbacks are assumed not to throw.                            *)
(***************************************************************************)
EXTENDS Naturals, FiniteSets

CONSTANT
  Calls         \* the concurrent calls of uploadBackup, and their children

VARIABLES
  configured,   \* RCloneFeature::_configured, and whether it is settled yet
  pc,           \* pc[c]: where call c is
  fds,          \* fds[c]: the ends of its pipes that the server has open
  polled,       \* polled[c]: the pipes that poll still watches
  child,        \* child[c]: the process of call c
  holders,      \* holders[c][p]: children with the write end of c's pipe p
  unread,       \* unread[c]: the pipes with output in them
  pollFailed,   \* history: the calls whose poll has failed
  result        \* result[c]: what the call returned

vars == <<configured, pc, fds, polled, child, holders, unread, pollFailed, result>>

Pipes == {"stdout", "stderr"}
BothEnds(p) == {<<p, "read">>, <<p, "write">>}
WriteEnds == Pipes \X {"write"}

Init ==
  /\ configured = "unknown"
  /\ pc = [c \in Calls |-> "idle"]
  /\ fds = [c \in Calls |-> {}]
  /\ polled = [c \in Calls |-> {}]
  /\ child = [c \in Calls |-> "none"]
  /\ holders = [c \in Calls |-> [p \in Pipes |-> {}]]
  /\ unread = [c \in Calls |-> {}]
  /\ pollFailed = {}
  /\ result = [c \in Calls |-> "none"]

(***************************************************************************)
(* The feature's options.                                                  *)
(***************************************************************************)

Providers == {"s3", "azure", "gcs"}

(* What each provider's credentials are read from. *)
Credentials(provider) ==
  CASE provider = "s3" -> {"accessKeyId", "secretAccessKey"}
    [] provider = "azure" -> {"azureAccount", "azureKey"}
    [] provider = "gcs" -> {"gcsServiceAccountFile"}

(* The fields given, of the options and the environment variables. *)
Validated(provider, given) ==
  /\ provider \in Providers
  /\ {"rcloneBinaryPath", "bucket"} \cup Credentials(provider) \subseteq given

(* validateOptions and prepare, which looks for the binary. *)
Configure(provider, given, binaryExists) ==
  /\ configured = "unknown"
  /\ configured' = IF Validated(provider, given) /\ binaryExists THEN "yes" ELSE "no"
  /\ UNCHANGED <<pc, fds, polled, child, holders, unread, pollFailed, result>>

(***************************************************************************)
(* A call.                                                                 *)
(***************************************************************************)

Goes(c, from, to) ==
  /\ pc[c] = from
  /\ pc' = [pc EXCEPT ![c] = to]

Returns(c, from, r) ==
  /\ Goes(c, from, "done")
  /\ result' = [result EXCEPT ![c] = r]

Refuse(c) ==
  /\ configured = "no"
  /\ Returns(c, "idle", "error")
  /\ UNCHANGED <<configured, fds, polled, child, holders, unread, pollFailed>>

CreatePipe(c, p, from, to) ==
  /\ configured = "yes"
  /\ Goes(c, from, to)
  /\ fds' = [fds EXCEPT ![c] = @ \cup BothEnds(p)]
  /\ UNCHANGED <<configured, polled, child, holders, unread, pollFailed, result>>

(* A pipe() that fails; what the first one opened stays open. *)
PipeFails(c) ==
  /\ configured = "yes"
  /\ \/ Returns(c, "idle", "pipeError")
     \/ Returns(c, "stdout", "pipeError")
  /\ UNCHANGED <<configured, fds, polled, child, holders, unread, pollFailed>>

(* The child has the write ends of all pipes open in the server. *)
Spawn(c) ==
  /\ Goes(c, "piped", "spawned")
  /\ child' = [child EXCEPT ![c] = "running"]
  /\ holders' = [d \in Calls |-> [p \in Pipes |->
       IF <<p, "write">> \in fds[d] THEN holders[d][p] \cup {c} ELSE holders[d][p]]]
  /\ UNCHANGED <<configured, fds, polled, unread, pollFailed, result>>

SpawnFails(c) ==
  /\ Returns(c, "piped", "error")
  /\ fds' = [fds EXCEPT ![c] = {}]
  /\ UNCHANGED <<configured, polled, child, holders, unread, pollFailed>>

(* Mutated: the server keeps its own write ends. *)
KeepWriteEnds(c) ==
  /\ Goes(c, "spawned", "poll")
  /\ polled' = [polled EXCEPT ![c] = Pipes]
  /\ UNCHANGED <<configured, fds, child, holders, unread, pollFailed, result>>

CloseWriteEnds(c) ==
  /\ Goes(c, "spawned", "poll")
  /\ fds' = [fds EXCEPT ![c] = @ \ WriteEnds]
  /\ polled' = [polled EXCEPT ![c] = Pipes]
  /\ UNCHANGED <<configured, child, holders, unread, pollFailed, result>>

(* read() of a pipe that poll reported: output, or the end of file when    *)
(* nobody has the write end any more.                                      *)
AtEnd(c, p) ==
  /\ p \notin unread[c]
  /\ holders[c][p] = {}
  /\ <<p, "write">> \notin fds[c]

ReadOutput(c, p) ==
  /\ pc[c] = "poll"
  /\ p \in polled[c] \cap unread[c]
  /\ unread' = [unread EXCEPT ![c] = @ \ {p}]
  /\ UNCHANGED <<configured, pc, fds, polled, child, holders, pollFailed, result>>

ReadEnd(c, p) ==
  /\ pc[c] = "poll"
  /\ p \in polled[c]
  /\ AtEnd(c, p)
  /\ polled' = [polled EXCEPT ![c] = @ \ {p}]
  /\ UNCHANGED <<configured, pc, fds, child, holders, unread, pollFailed, result>>

(* Mutated: the loop ends with the first end of file. *)
OneEnded(c) == polled[c] # Pipes

AllEnded(c) == polled[c] = {}

(* The loop is over, or poll fails. *)
LeaveLoop(c, failed) ==
  /\ failed \/ AllEnded(c)
  /\ failed => ~AllEnded(c)
  /\ Goes(c, "poll", IF failed THEN "broken" ELSE "reap")
  /\ fds' = [fds EXCEPT ![c] = {}]
  /\ pollFailed' = IF failed THEN pollFailed \cup {c} ELSE pollFailed
  /\ UNCHANGED <<configured, polled, child, holders, unread, result>>

(* waitpid, and the exit code, also if only a part of the output was read.  *)
Reap(c) ==
  /\ child[c] \in {"exited", "killed"}
  /\ child' = [child EXCEPT ![c] = "reaped"]
  /\ \/ Returns(c, "reap", child[c])
     \/ Returns(c, "broken", child[c])
  /\ UNCHANGED <<configured, fds, polled, holders, unread, pollFailed>>

(* poll has nothing to report. *)
Silent(c) ==
  /\ pc[c] = "poll"
  /\ polled[c] # {}
  /\ \A p \in polled[c] : p \notin unread[c] /\ ~AtEnd(c, p)

(* poll returns 0: SIGTERM, which the child may or may not obey ... *)
TimeOut(c) ==
  /\ Silent(c)
  /\ Goes(c, "poll", "grace")
  /\ UNCHANGED <<configured, fds, polled, child, holders, unread, pollFailed, result>>

(* What the end of a process leaves of the descriptors it held. *)
Released(c) == [d \in Calls |-> [p \in Pipes |-> holders[d][p] \ {c}]]

(* Mutated: the child is waited for once, without SIGKILL. *)
WaitOnce(c) ==
  /\ Returns(c, "grace", "timedOut")
  /\ child' = [child EXCEPT ![c] = IF @ = "running" THEN @ ELSE "reaped"]
  /\ fds' = [fds EXCEPT ![c] = {}]
  /\ UNCHANGED <<configured, polled, holders, unread, pollFailed>>

(* Mutated: the child gets no SIGKILL and is waited for. *)
WaitForEver(c) ==
  /\ child[c] # "running"
  /\ Returns(c, "grace", "timedOut")
  /\ child' = [child EXCEPT ![c] = "reaped"]
  /\ fds' = [fds EXCEPT ![c] = {}]
  /\ UNCHANGED <<configured, polled, holders, unread, pollFailed>>

(* ... and after five seconds SIGKILL unless it has ended. *)
KillAndReap(c) ==
  /\ Returns(c, "grace", "timedOut")
  /\ child' = [child EXCEPT ![c] = "reaped"]
  /\ holders' = Released(c)
  /\ fds' = [fds EXCEPT ![c] = {}]
  /\ UNCHANGED <<configured, polled, unread, pollFailed>>

(***************************************************************************)
(* A child.                                                                *)
(***************************************************************************)

ChildWrites(c, p) ==
  /\ child[c] = "running"
  /\ c \in holders[c][p]
  /\ p \notin unread[c]
  /\ unread' = [unread EXCEPT ![c] = @ \cup {p}]
  /\ UNCHANGED <<configured, pc, fds, polled, child, holders, pollFailed, result>>

ChildCloses(c, p) ==
  /\ child[c] = "running"
  /\ c \in holders[c][p]
  /\ holders' = [holders EXCEPT ![c][p] = @ \ {c}]
  /\ UNCHANGED <<configured, pc, fds, polled, child, unread, pollFailed, result>>

ChildEnds(c, status) ==
  /\ child[c] = "running"
  /\ child' = [child EXCEPT ![c] = status]
  /\ holders' = Released(c)
  /\ UNCHANGED <<configured, pc, fds, polled, unread, pollFailed, result>>

(* What a call does without waiting for anybody. *)
Continue(c) ==
  \/ CreatePipe(c, "stderr", "stdout", "piped")
  \/ Spawn(c)
  \/ CloseWriteEnds(c)
  \/ \E p \in Pipes : ReadOutput(c, p) \/ ReadEnd(c, p)
  \/ LeaveLoop(c, FALSE)
  \/ Reap(c)
  \/ TimeOut(c)
  \/ KillAndReap(c)

Fails(c) ==
  \/ PipeFails(c)
  \/ SpawnFails(c)
  \/ LeaveLoop(c, TRUE)

Next ==
  \/ \E provider \in Providers \cup {"", "other"}, binaryExists \in BOOLEAN,
        given \in SUBSET {"rcloneBinaryPath", "bucket", "accessKeyId", "secretAccessKey"} :
       Configure(provider, given, binaryExists)
  \/ \E c \in Calls :
       \/ Refuse(c)
       \/ CreatePipe(c, "stdout", "idle", "stdout")
       \/ Continue(c)
       \/ Fails(c)
       \/ \E p \in Pipes : ChildWrites(c, p) \/ ChildCloses(c, p)
       \/ \E status \in {"exited", "killed"} : ChildEnds(c, status)

Spec == Init /\ [][Next]_vars

(* A child that has closed its outputs ends. *)
EndAfterClosing(c) ==
  /\ \A p \in Pipes : c \notin holders[c][p]
  /\ ChildEnds(c, "exited")

(* A call is never left by its thread; poll returns in the end; and a      *)
(* child that has closed its outputs ends.                                 *)
Fairness ==
  \A c \in Calls :
    /\ WF_vars(Continue(c))
    /\ WF_vars(EndAfterClosing(c))

FairSpec == Spec /\ Fairness

-----------------------------------------------------------------------------
TypeOK ==
  /\ configured \in {"unknown", "yes", "no"}
  /\ pc \in [Calls -> {"idle", "stdout", "piped", "spawned", "poll", "reap", "broken",
                       "grace", "done"}]
  /\ fds \in [Calls -> SUBSET (Pipes \X {"read", "write"})]
  /\ polled \in [Calls -> SUBSET Pipes]
  /\ child \in [Calls -> {"none", "running", "exited", "killed", "reaped"}]
  /\ holders \in [Calls -> [Pipes -> SUBSET Calls]]
  /\ unread \in [Calls -> SUBSET Pipes]
  /\ pollFailed \subseteq Calls
  /\ result \in [Calls -> {"none", "error", "pipeError", "exited", "killed",
                           "timedOut"}]

(* A call that has returned leaves no process behind, running or zombie,   *)
(* on any path, and no descriptor unless its second pipe() failed.  An exit *)
(* status comes with all the output the child wrote, and nobody can write   *)
(* more (the loop reads both pipes to the end, then waits), unless poll     *)
(* failed; the caller cannot see that it did.                               *)
ReturnedCleanly ==
  /\ TypeOK
  /\ \A c \in Calls : pc[c] = "done" =>
       /\ child[c] \in {"none", "reaped"}
       /\ result[c] # "pipeError" => fds[c] = {}
       /\ result[c] \in {"exited", "killed"} /\ c \notin pollFailed =>
            unread[c] = {} /\ \A p \in Pipes : holders[c][p] = {}

(* A call times out only while its child still runs, or because the child  *)
(* of another call, spawned between this call's pipe() and close(), keeps  *)
(* the pipe open.                                                          *)
TimeoutHasReason ==
  \A c \in Calls : Silent(c) =>
    child[c] = "running" \/ \E p \in Pipes : holders[c][p] \ {c} # {}

(* Every call that has a pipe returns: a silent child is timed out and     *)
(* killed, whoever else holds the pipe.  But poll waits for silence anew    *)
(* after each output, and rclone is told to print its progress every        *)
(* second: the call of a child that writes for ever does not return.  After *)
(* a failed poll the code waits for a child that it never signals.          *)
UploadReturns ==
  \A c \in Calls :
    \/ \E p \in Pipes : []<><<ChildWrites(c, p)>>_vars
    \/ pc[c] = "stdout" ~> pc[c] = "done" \/ (pc[c] = "broken" /\ child[c] = "running")
=============================================================================
