----------------------- MODULE RocksDBBuilderIndexEE -----------------------
(***************************************************************************)
(* Enterprise/RocksDBEngine/RocksDBBuilderIndexEE.{h,cpp}: an index built  *)
(* in parallel while writes go on, composed of the thread pool that fills  *)
(* it and the changelog that catches the writes.                           *)
(*                                                                         *)
(* One thread owns the builder: it calls fillIndexParallel, applyChangelog *)
(* and atomicSwap in any order and in the end destroys the builder.  Every *)
(* other thread reports one write with bufferWrite, which reads _state     *)
(* before and apart from the append.                                       *)
(*                                                                         *)
(* Partition i of the key space is task i: what it inserts is in the index *)
(* when its result is "true".  Calls that the compare_exchange of _state   *)
(* turns down change nothing and are not steps.                            *)
(***************************************************************************)
EXTENDS IndexBuilderThreadPool, ChangelogBuffer, SequencesExt

CONSTANT BackgroundMode   \* IndexBuilderConfig::backgroundMode

ASSUME BuilderAssumption == BackgroundMode \in BOOLEAN

VARIABLES
  state,         \* _state
  owner,         \* what the owning thread does next
  partitions,    \* how many partitions the key space was cut into
  write,         \* write[e]: the call bufferWrite(e)
  index,         \* the changelog entries the applier put into the index
  early,         \* the entries appended before applyChangelog began
  throws         \* 1 if applyChangelog was left by an exception of the applier

builderVars == <<state, owner, partitions, write, index, early, throws>>
vars == <<poolVars, changelogVars, builderVars>>

Init ==
  /\ PoolInit
  /\ ChangelogInit
  /\ state = "kIdle"
  /\ owner = "ready"
  /\ partitions = 0
  /\ write = [e \in Writes |-> "new"]
  /\ index = <<>>
  /\ early = <<>>
  /\ throws = 0

(* The owning thread goes from "from" to "to"; _state becomes s. *)
Owner(from, to, s) ==
  /\ owner = from
  /\ owner' = to
  /\ state' = s

(***************************************************************************)
(* fillIndexParallel.                                                      *)
(***************************************************************************)

(* An empty key range has no partitions and nothing to wait for. *)
BeginFill ==
  /\ state = "kIdle"
  /\ \E n \in Tasks \cup {0} :
       /\ partitions' = n
       /\ Owner("ready", IF n = 0 THEN "ready" ELSE "submit", "kBuilding")
  /\ UNCHANGED <<poolVars, changelogVars, write, index, early, throws>>

Submitted == {i \in Tasks : result[i] # "none"}

Submit ==
  /\ Owner("submit", "notify", state)
  /\ Enqueue(Cardinality(Submitted) + 1)
  /\ UNCHANGED <<changelogVars, partitions, write, index, early, throws>>

Notify ==
  /\ Owner("notify", IF Cardinality(Submitted) < partitions THEN "submit" ELSE "wait",
           state)
  /\ NotifyOne
  /\ UNCHANGED <<changelogVars, partitions, write, index, early, throws>>

(* Mutated: returns at the first task that failed. *)
EndFillEarly ==
  /\ \/ /\ AllReady
        /\ \A i \in Submitted : result[i] = "true"
        /\ Owner("wait", "ready", state)
     \/ /\ \E i \in Submitted : result[i] = "false"
        /\ Owner("wait", "ready", "kFailed")
  /\ UNCHANGED <<poolVars, changelogVars, partitions, write, index, early, throws>>

(* Every future is waited for, also after one of them failed. *)
EndFill ==
  /\ AllReady
  /\ Owner("wait", "ready",
           IF \A i \in Submitted : result[i] = "true" THEN state ELSE "kFailed")
  /\ UNCHANGED <<poolVars, changelogVars, partitions, write, index, early, throws>>

(***************************************************************************)
(* applyChangelog.                                                         *)
(***************************************************************************)

BeginApply ==
  /\ state = "kBuilding"
  /\ Owner("ready", "forEach", "kApplyingChangelog")
  /\ UNCHANGED <<poolVars, changelogVars, partitions, write, index, early, throws>>

LockChangelog ==
  /\ Owner("forEach", "visit", state)
  /\ BeginForEach
  /\ UNCHANGED <<poolVars, partitions, write, index, early, throws>>

ApplyEntry ==
  /\ Owner("visit", "visit", state)
  /\ Visiting
  /\ VisitNext
  /\ index' = Append(index, entries[cursor])
  /\ UNCHANGED <<poolVars, partitions, write, early, throws>>

(* The applier fails: the remaining entries are not applied. *)
ApplyEntryFails ==
  /\ Owner("visit", "failed", state)
  /\ Visiting
  /\ EndForEach
  /\ UNCHANGED <<poolVars, partitions, write, index, early, throws>>

(* The applier throws: the lock is released on the way out, and nothing     *)
(* else is done.  _state stays kApplyingChangelog.                          *)
ApplierThrows ==
  /\ Owner("visit", "ready", state)
  /\ Visiting
  /\ EndForEach
  /\ throws' = 1
  /\ UNCHANGED <<poolVars, partitions, write, index, early>>

StoreFailed ==
  /\ Owner("failed", "ready", "kFailed")
  /\ UNCHANGED <<poolVars, changelogVars, partitions, write, index, early, throws>>

(* Mutated: the last entry is left out. *)
EndApplyBeforeLast ==
  /\ Owner("visit", "clear", state)
  /\ cursor >= Len(entries)
  /\ EndForEach
  /\ UNCHANGED <<poolVars, partitions, write, index, early, throws>>

EndApply ==
  /\ Owner("visit", "clear", state)
  /\ ~Visiting
  /\ EndForEach
  /\ UNCHANGED <<poolVars, partitions, write, index, early, throws>>

ClearChangelog ==
  /\ Owner("clear", "ready", state)
  /\ Clear
  /\ UNCHANGED <<poolVars, partitions, write, index, early, throws>>

(***************************************************************************)
(* atomicSwap.                                                             *)
(***************************************************************************)

BeginSwap ==
  /\ state = "kApplyingChangelog"
  /\ Owner("ready", "swap", "kSwapping")
  /\ UNCHANGED <<poolVars, changelogVars, partitions, write, index, early, throws>>

(* The callback publishes the index, or throws. *)
EndSwap ==
  /\ \/ Owner("swap", "ready", "kComplete")
     \/ Owner("swap", "ready", "kFailed")
  /\ UNCHANGED <<poolVars, changelogVars, partitions, write, index, early, throws>>

(***************************************************************************)
(* The destructor: shutdown() of the pool.  No bufferWrite is running then *)
(* and none follows.                                                       *)
(***************************************************************************)

BeginDestroy ==
  /\ \A e \in Writes : write[e] # "loaded"
  /\ Owner("ready", "notifyAll", state)
  /\ SetShutdown
  /\ UNCHANGED <<changelogVars, partitions, write, index, early, throws>>

NotifyShutdown ==
  /\ Owner("notifyAll", "join", state)
  /\ NotifyAll
  /\ UNCHANGED <<changelogVars, partitions, write, index, early, throws>>

JoinWorkers ==
  /\ AllExited
  /\ Owner("join", "gone", state)
  /\ UNCHANGED <<poolVars, changelogVars, partitions, write, index, early, throws>>

(***************************************************************************)
(* bufferWrite.                                                            *)
(***************************************************************************)

WriteGoes(e, from, to) ==
  /\ owner \notin {"notifyAll", "join", "gone"}
  /\ write[e] = from
  /\ write' = [write EXCEPT ![e] = to]
  /\ UNCHANGED <<poolVars, state, owner, partitions, index, throws>>

LoadState(e) ==
  /\ WriteGoes(e, "new",
       IF BackgroundMode /\ state = "kBuilding" THEN "loaded" ELSE "false")
  /\ UNCHANGED <<changelogVars, early>>

AppendWrite(e) ==
  /\ WriteGoes(e, "loaded", "true")
  /\ AppendEntry(e)
  /\ early' = IF state = "kBuilding" THEN Append(early, e) ELSE early

RefuseWrite(e) ==
  /\ WriteGoes(e, "loaded", "false")
  /\ RefuseEntry(e)
  /\ UNCHANGED early

----------------------------------------------------------------------------

FillStep == BeginFill \/ Submit \/ Notify \/ EndFill

ApplyStep ==
  \/ BeginApply
  \/ LockChangelog
  \/ ApplyEntry
  \/ ApplyEntryFails
  \/ ApplierThrows
  \/ StoreFailed
  \/ EndApply
  \/ ClearChangelog

SwapStep == BeginSwap \/ EndSwap

DestroyStep == BeginDestroy \/ NotifyShutdown \/ JoinWorkers

WriteStep(e) == LoadState(e) \/ AppendWrite(e) \/ RefuseWrite(e)

Worker(t) == Run(t) /\ UNCHANGED <<changelogVars, builderVars>>

WakeUp(t) == SpuriousWakeup(t) /\ UNCHANGED <<changelogVars, builderVars>>

Next ==
  \/ FillStep
  \/ ApplyStep
  \/ SwapStep
  \/ DestroyStep
  \/ \E e \in Writes : WriteStep(e)
  \/ \E t \in Threads : Worker(t) \/ WakeUp(t)

Spec == Init /\ [][Next]_vars

(***************************************************************************)
(* A call that was begun goes on, and a worker thread runs.  A thread that *)
(* waits for _mutex gets it when it is free again and again: spurious      *)
(* wakeups of the others do not keep it out forever.  Which call the owner *)
(* makes, and whether it makes one at all, is left open.                   *)
(***************************************************************************)
FairSpec ==
  /\ Spec
  /\ SF_vars(owner # "ready" /\ (FillStep \/ ApplyStep \/ SwapStep \/ DestroyStep))
  /\ \A t \in Threads : SF_vars(Worker(t))

(***************************************************************************)
(* Properties.                                                             *)
(***************************************************************************)

TypeOK ==
  /\ PoolTypeOK
  /\ ChangelogTypeOK
  /\ state \in {"kIdle", "kBuilding", "kApplyingChangelog", "kSwapping",
                "kComplete", "kFailed"}
  /\ owner \in {"ready", "submit", "notify", "wait", "forEach", "visit", "failed",
                "clear", "swap", "notifyAll", "join", "gone"}
  /\ partitions \in Tasks \cup {0}
  /\ write \in [Writes -> {"new", "loaded", "true", "false"}]
  /\ index \in Seq(Writes)
  /\ early \in Seq(Writes)
  /\ throws \in {0, 1}

(* No index is published with a hole: when atomicSwap begins, every         *)
(* partition has been filled and every write that was in the changelog when *)
(* applyChangelog began has been applied, in the order of the changelog.    *)
(* Only if the applier has thrown out of applyChangelog, which nothing      *)
(* stores in _state, may the last of these writes be missing.               *)
PublishedIsFilled ==
  state \in {"kSwapping", "kComplete"} =>
    /\ Cardinality(Submitted) = partitions
    /\ \A i \in Submitted : result[i] = "true"
    /\ IsPrefix(early, index) \/ (throws = 1 /\ IsPrefix(index, early))

(* The memory the buffer believes to use is that of its entries, whatever   *)
(* appends run into an apply and a clear.                                   *)
MemoryAccounted ==
  LET used[n \in 0..Len(entries)] ==
        IF n = 0 THEN 0 ELSE used[n - 1] + EntrySize[entries[n]]
  IN  usage = used[Len(entries)]

(* The tasks refer to the arguments of fillIndexParallel: none is queued or *)
(* running outside that call, even when another task has failed.            *)
NoTaskOutlivesFill ==
  owner \notin {"submit", "notify", "wait"} =>
    /\ taskQueue = <<>>
    /\ \A t \in Threads : job[t] = 0

(* fillIndexParallel returns, although each submit wakes at most one thread *)
(* and the thread may be on its way to sleep.                               *)
FillReturns == owner = "submit" ~> owner = "ready"

(* "Apply buffered changelog to the index" (RocksDBBuilderIndexEE.h:86): a  *)
(* write for which bufferWrite returned true is in the published index,     *)
(* if applyChangelog was not left by an exception.                          *)
BufferedIsPublished ==
  state = "kComplete" /\ throws = 0 =>
    \A e \in Writes : write[e] = "true" => \E i \in DOMAIN index : index[i] = e

(* "Gracefully shut down: finish running tasks, reject new ones"            *)
(* (IndexBuilderThreadPool.h:31): the destructor returns.                   *)
ShutdownReturns == owner = "join" ~> owner = "gone"
=============================================================================
