--------------------------- MODULE ChangelogBuffer ---------------------------
(***************************************************************************)
(* Enterprise/RocksDBEngine/ChangelogBuffer.{h,cpp}: the writes that occur *)
(* while an index is built, in order, within a memory budget.  Every       *)
(* operation holds _mutex; forEach holds it across its callbacks.          *)
(*                                                                         *)
(* An entry is an identity with the size that estimateEntrySize gives it.  *)
(***************************************************************************)
EXTENDS Naturals, Sequences

CONSTANTS
  Writes,        \* the changelog entries that can be appended
  EntrySize,     \* EntrySize[e]: the estimated size of e in bytes
  Budget         \* _memoryBudgetBytes

ASSUME ChangelogAssumption ==
  /\ EntrySize \in [Writes -> Nat]
  /\ Budget \in Nat

VARIABLES
  entries,       \* _entries
  usage,         \* _currentMemoryUsage
  cursor         \* the entry forEach visits next; 0 when forEach is not running

changelogVars == <<entries, usage, cursor>>

ChangelogInit ==
  /\ entries = <<>>
  /\ usage = 0
  /\ cursor = 0

ChangelogTypeOK ==
  /\ entries \in Seq(Writes)
  /\ usage \in 0..Budget
  /\ cursor \in 0..(Len(entries) + 1)

Fits(e) == usage + EntrySize[e] <= Budget

AppendEntry(e) ==
  /\ cursor = 0
  /\ Fits(e)
  /\ entries' = Append(entries, e)
  /\ usage' = usage + EntrySize[e]
  /\ UNCHANGED cursor

RefuseEntry(e) ==
  /\ cursor = 0
  /\ ~Fits(e)
  /\ UNCHANGED changelogVars

BeginForEach ==
  /\ cursor = 0
  /\ cursor' = 1
  /\ UNCHANGED <<entries, usage>>

Visiting == cursor \in 1..Len(entries)

VisitNext ==
  /\ cursor' = cursor + 1
  /\ UNCHANGED <<entries, usage>>

EndForEach ==
  /\ cursor' = 0
  /\ UNCHANGED <<entries, usage>>

(* Mutated: the memory of the entries is not given back. *)
ClearEntriesOnly ==
  /\ cursor = 0
  /\ entries' = <<>>
  /\ UNCHANGED <<usage, cursor>>

Clear ==
  /\ cursor = 0
  /\ entries' = <<>>
  /\ usage' = 0
  /\ UNCHANGED cursor
=============================================================================
