---------------------- MODULE RestReplicationHandler ----------------------
(***************************************************************************)
(* The REST interface of DC-to-DC replication: the handlers of             *)
(* RestReplicationHandler.ipp with the CheckpointReceiver and the          *)
(* ReplicationFeedStream that they create,                                 *)
(* called by concurrent requests, and the arangosync process that pages    *)
(* through the feed and reports its progress.                              *)
(*                                                                         *)
(* Tracker and tailer are template parameters.  Each of their calls is one *)
(* atomic step, which is what locked classes of that interface give; what  *)
(* a call does is taken from tests/mocks/ReplicationMocks.h.  A handler    *)
(* that makes several calls is a step per call, so other requests come in  *)
(* between.  executeStatus, which reads and changes nothing, and the text  *)
(* of the responses are left out.                                          *)
(***************************************************************************)
EXTENDS Naturals, Sequences, FiniteSets

CONSTANTS
  Shards,
  Requests,       \* the handlers that can run at a time
  MaxMessages,    \* bound: messages the source generates
  Counts,         \* the values of maxCount that requests ask for
  DefaultCount,   \* 1000 in executeFeed
  CountCeiling    \* 10000 in executeFeed

ASSUME FeedAssumption ==
  /\ MaxMessages \in Nat
  /\ Counts \subseteq Nat
  /\ DefaultCount \in Nat \ {0}
  /\ CountCeiling \in Nat \ {0}

VARIABLES
  log,        \* log[n]: the shard of the message with sequence number n
  running,    \* the tailer's isRunning()
  tracker,    \* the states of the shards the tracker knows
  request,    \* request[r]: where handler r is, and its local variables
  sync        \* sync[s]: arangosync's position in the feed of shard s

vars == <<log, running, tracker, request, sync>>

Numbers == 1..MaxMessages

(* getState of a shard that the tracker does not know. *)
Unknown == [lastGenerated |-> 0, lastApplied |-> 0]

Known == DOMAIN tracker
GetState(s) == IF s \in Known THEN tracker[s] ELSE Unknown

Init ==
  /\ log = <<>>
  /\ running = FALSE
  /\ tracker = [s \in {} |-> Unknown]
  /\ request = [r \in Requests |-> [at |-> "idle"]]
  /\ \E maxCount \in Counts :    \* arangosync asks for one page size
       sync = [s \in Shards |-> [after |-> 0, hasMore |-> FALSE,
                                got |-> [n \in Numbers |-> 0],
                                maxCount |-> maxCount]]

(* The source generates a message; the tracker hears of it. *)
Generate(s) ==
  /\ Len(log) < MaxMessages
  /\ log' = Append(log, s)
  /\ tracker' = [t \in Known \cup {s} |->
       IF t = s THEN [GetState(s) EXCEPT !.lastGenerated = Len(log')] ELSE tracker[t]]
  /\ UNCHANGED <<running, request, sync>>

(***************************************************************************)
(* The feed.  arangosync asks for the messages after its position, takes   *)
(* the page and goes on from the page's lastSequence.  A lost request or   *)
(* response changes nothing: it asks again.                                *)
(***************************************************************************)

(* Mutated: a page size of 0 is taken as it is. *)
MaxCountAsGiven(count) == IF count > CountCeiling THEN CountCeiling ELSE count

MaxCount(count) ==
  LET asked == IF count = 0 THEN DefaultCount ELSE count
  IN  IF asked > CountCeiling THEN CountCeiling ELSE asked

(* The first n of a set of sequence numbers. *)
FirstOf(messages, n) ==
  {i \in messages : Cardinality({j \in messages : j < i}) < n}

NextBatch(s, after, n) == FirstOf({i \in DOMAIN log : log[i] = s /\ i > after}, n)

(* Mutated: no extra message is fetched. *)
FetchedExact(s, after, max) == NextBatch(s, after, max)

Fetched(s, after, max) == NextBatch(s, after, max + 1)

(* Mutated: lastSequence is the last of what was fetched, before the trim. *)
LastFetched(messages, page, after) ==
  {i \in messages \cup {after} : \A j \in messages : j <= i}

(* lastSequence, as a set of one number. *)
LastSequence(messages, page, after) ==
  {i \in page \cup {after} : \A j \in page : j <= i}

Feed(s) ==
  LET after == sync[s].after
      max == MaxCount(sync[s].maxCount)
      messages == Fetched(s, after, max)
      page == FirstOf(messages, max)
  IN /\ \E last \in LastSequence(messages, page, after) :
          sync' = [sync EXCEPT
            ![s].after = last,
            ![s].hasMore = Cardinality(messages) > max,
            ![s].got = [n \in Numbers |-> IF n \in page THEN @[n] + 1 ELSE @[n]]]
     /\ UNCHANGED <<log, running, tracker, request>>

(***************************************************************************)
(* Handlers.                                                               *)
(***************************************************************************)

Goes(r, from, state) ==
  /\ request[r].at = from
  /\ request' = [request EXCEPT ![r] = state]

(* formatSuccess or formatError; the response leaves the model. *)
Answer(r, from) == Goes(r, from, [at |-> "idle"])

(* executeStart and executeStop: they test isRunning ... *)
ExecuteSwitch(r, want) ==
  /\ \/ /\ running = want
        /\ Answer(r, "idle")
     \/ /\ running # want
        /\ Goes(r, "idle", [at |-> "switch", want |-> want])
  /\ UNCHANGED <<log, running, tracker, sync>>

(* ... and call start() or stop(). *)
Switch(r) ==
  /\ Answer(r, "switch")
  /\ running' = request[r].want
  /\ UNCHANGED <<log, tracker, sync>>

(* executeReset counts the shards for its response, then resets them. *)
ExecuteReset(r) ==
  /\ Goes(r, "idle", [at |-> "reset"])
  /\ UNCHANGED <<log, running, tracker, sync>>

ResetAll(r) ==
  /\ Answer(r, "reset")
  /\ tracker' = [s \in {} |-> Unknown]
  /\ UNCHANGED <<log, running, sync>>

(* executeCheckpoint of what arangosync has applied, now or when it sent   *)
(* the request, which may be a late or repeated one: the parameter checks  *)
(* and getState ...                                                        *)
ExecuteCheckpoint(r, s, appliedSequence) ==
  /\ appliedSequence <= sync[s].after
  /\ \/ /\ appliedSequence = 0
        /\ Answer(r, "idle")
     \/ /\ appliedSequence # 0
        /\ sync[s].got[appliedSequence] > 0
        /\ Goes(r, "idle", [at |-> "checkpoint", shard |-> s,
                            appliedSequence |-> appliedSequence,
                            state |-> GetState(s)])
  /\ UNCHANGED <<log, running, tracker, sync>>

(* Mutated: the checkpoint need not be ahead of the last one. *)
AnyGenerated(state, appliedSequence) == appliedSequence <= state.lastGenerated

(* The three checks of receive; an unknown shard fails the second. *)
Valid(state, appliedSequence) ==
  /\ state.lastApplied < appliedSequence
  /\ appliedSequence <= state.lastGenerated

(* ... the checks on the state that was read ... *)
RejectCheckpoint(r) ==
  /\ request[r].at = "checkpoint"
  /\ ~Valid(request[r].state, request[r].appliedSequence)
  /\ Answer(r, "checkpoint")
  /\ UNCHANGED <<log, running, tracker, sync>>

(* Mutated: the checkpoint stores how far the shard was generated. *)
UpdateGenerated(s, appliedSequence) ==
  [tracker EXCEPT ![s].lastApplied = tracker[s].lastGenerated]

UpdateApplied(s, appliedSequence) ==
  [tracker EXCEPT ![s].lastApplied = appliedSequence]

(* ... and updateApplied, which ignores a shard that was reset. *)
AcceptCheckpoint(r) ==
  /\ request[r].at = "checkpoint"
  /\ Valid(request[r].state, request[r].appliedSequence)
  /\ Answer(r, "checkpoint")
  /\ tracker' = IF request[r].shard \in Known
                THEN UpdateApplied(request[r].shard, request[r].appliedSequence)
                ELSE tracker
  /\ UNCHANGED <<log, running, sync>>

(* What a handler does once it has begun. *)
Continue(r) ==
  \/ Switch(r)
  \/ ResetAll(r)
  \/ RejectCheckpoint(r)
  \/ AcceptCheckpoint(r)

Next ==
  \/ \E s \in Shards : Generate(s)
  \/ \E s \in Shards : Feed(s)
  \/ \E r \in Requests :
       \/ \E want \in BOOLEAN : ExecuteSwitch(r, want)
       \/ ExecuteReset(r)
       \/ \E s \in Shards, n \in Numbers \cup {0} : ExecuteCheckpoint(r, s, n)
       \/ Continue(r)

Spec == Init /\ [][Next]_vars

(* arangosync goes on paging through the feed of every shard. *)
FairSpec ==
  /\ Spec
  /\ \A s \in Shards : WF_vars(Feed(s))

-----------------------------------------------------------------------------
Request ==
  [at : {"idle"}]
    \cup [at : {"switch"}, want : BOOLEAN]
    \cup [at : {"reset"}]
    \cup [at : {"checkpoint"}, shard : Shards, appliedSequence : Nat,
          state : [lastGenerated : Nat, lastApplied : Nat]]

Client ==
  [after : Nat, hasMore : BOOLEAN, got : [Numbers -> Nat], maxCount : Counts]

TypeOK ==
  /\ log \in Seq(Shards)
  /\ running \in BOOLEAN
  /\ Known \subseteq Shards
  /\ tracker \in [Known -> [lastGenerated : Nat, lastApplied : Nat]]
  /\ request \in [Requests -> Request]
  /\ sync \in [Shards -> Client]

(* What arangosync holds of a shard is all of its messages up to its       *)
(* position, each of them once: pages follow one another without overlap   *)
(* or gap, whatever is generated between them (ReplicationFeedStream,      *)
(* fetch and executeFeed's bounds).                                        *)
DeliveredOnceInOrder ==
  \A s \in Shards : \A n \in Numbers :
    sync[s].got[n] =
      IF n <= sync[s].after /\ n \in DOMAIN log /\ log[n] = s THEN 1 ELSE 0

(* hasMore tells whether the page left out a message of the shard, also    *)
(* when the last message is the last of a full page (fetch asks for one    *)
(* message more than a page holds).                                        *)
HasMoreIsRight ==
  [][\A s \in Shards : sync'[s] # sync[s] =>
       (sync'[s].hasMore
          <=> \E n \in DOMAIN log : log[n] = s /\ sync'[s].got[n] = 0)]_vars

(* The progress that the tracker holds names only messages that arangosync *)
(* has got, with any overlap of checkpoints, resets and new messages: the  *)
(* source may forget them (CheckpointReceiver::receive with the feed).     *)
AppliedWasDelivered ==
  \A s \in Known : \A n \in DOMAIN log :
    log[n] = s /\ n <= tracker[s].lastApplied => sync[s].got[n] = 1

(* An accepted checkpoint sets a shard's lastApplied back only when        *)
(* another request changed it after this one had read it (receive reads    *)
(* and updates in two calls).                                              *)
RewindNeedsStaleRead ==
  [][\A s \in Known \cap DOMAIN tracker' :
       tracker'[s].lastApplied < tracker[s].lastApplied =>
         \E r \in Requests :
           /\ request[r].at = "checkpoint"
           /\ request[r].shard = s
           /\ request[r].state.lastApplied # tracker[s].lastApplied]_vars

(* A client that goes on paging gets every message, with any page size it  *)
(* asks for, 0 and one above the ceiling included (executeFeed).           *)
EveryMessageDelivered ==
  \A n \in Numbers :
    n \in DOMAIN log ~> \E s \in Shards : sync[s].got[n] > 0
=============================================================================
