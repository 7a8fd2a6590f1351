----------------------- MODULE IResearchOptimizeTopK -----------------------
(***************************************************************************)
(* Top-k queries over a search view: the optimizer rule that turns the     *)
(* early termination on, and the WandIterators of the segments, which      *)
(* skip documents by the k-th best score so far that they share.  The      *)
(* executor and the index are external: the executor asks for the score    *)
(* of each document it gets, once, and sorts what it got; the index knows  *)
(* a score and an upper bound of it for every document.                    *)
(***************************************************************************)
EXTENDS Naturals, Sequences, FiniteSets

CONSTANTS
  Docs,       \* documents, numbered in the order of the index
  SegmentOf,  \* SegmentOf[d]: the segment of document d
  MaxScore    \* bound: scores are 0..MaxScore

VARIABLES
  plan,       \* the query: LIMIT over SORT over the view
  index,      \* index[d]: score and maxScore of document d
  heap,       \* the scores in the ScoreThresholdManager, ascending
  position,   \* position[s]: the document the iterator of s is at
  current,    \* the document the executor has still to score
  delivered   \* the documents that the executor got

topKVars == <<plan, index, heap, position, current, delivered>>

(***************************************************************************)
(* optimizeTopKPatterns.                                                   *)
(***************************************************************************)

(* What the first sort element names: a scorer, an attribute with "bm25"   *)
(* in its name, or another attribute.                                      *)
SortKeys == {"scorer", "attributeNamedBm25", "attribute"}
IsBM25(key) == key \in {"scorer", "attributeNamedBm25"}

(* The pattern, and plans that differ from it in one way. *)
Pattern ==
  [limit : 1..2, offset : {0}, sort : {"scorer"}, ascending : {FALSE}, over : {"view"},
   ties : {"older", "newer"}]

Variants(p) ==
  {[p EXCEPT !.limit = 0], [p EXCEPT !.offset = 1], [p EXCEPT !.ascending = TRUE],
   [p EXCEPT !.over = "collection"]}
    \cup {[p EXCEPT !.sort = key] : key \in SortKeys}

Plans == Pattern \cup UNION {Variants(p) : p \in Pattern}

(* Mutated: the offset of the LIMIT does not matter. *)
WandAtAnyOffset(p) ==
  p.limit # 0 /\ IsBM25(p.sort) /\ ~p.ascending /\ p.over = "view"

WandEnabled(p) ==
  /\ p.offset = 0 /\ p.limit # 0
  /\ IsBM25(p.sort) /\ ~p.ascending
  /\ p.over = "view"

Segments == {SegmentOf[d] : d \in Docs}

Indexes ==
  [Docs -> {e \in [score : 0..MaxScore, maxScore : 0..MaxScore] : e.score <= e.maxScore}]

Init ==
  /\ plan \in Plans
  /\ index \in Indexes
  /\ heap = <<>>
  /\ position = [s \in Segments |-> 0]
  /\ current = 0
  /\ delivered = {}

(***************************************************************************)
(* ScoreThresholdManager.                                                  *)
(***************************************************************************)

Threshold == IF Len(heap) < plan.limit THEN 0 ELSE heap[1]

(* h is ascending, and so is the result. *)
Inserted(h, score) ==
  LET place == CHOOSE n \in 0..Len(h) : \A i \in DOMAIN h : h[i] < score <=> i <= n
  IN  SubSeq(h, 1, place) \o <<score>> \o SubSeq(h, place + 1, Len(h))

AddScore(score) ==
  heap' = CASE Len(heap) < plan.limit -> Inserted(heap, score)
            [] Len(heap) = plan.limit /\ score > Threshold -> Tail(Inserted(heap, score))
            [] OTHER -> heap

(***************************************************************************)
(* WandIterator::next and seek; without wand the iterator is the inner one.*)
(***************************************************************************)

Competitive(d) ==
  WandEnabled(plan) => index[d].maxScore >= Threshold

Remaining(s, from) == {d \in Docs : SegmentOf[d] = s /\ d >= from}

(* The executor moves on in segment s, to the first document from target   *)
(* on that is competitive.                                                 *)
Advance(s, target) ==
  /\ current = 0
  /\ target > position[s]
  /\ \E d \in Remaining(s, target) :
       /\ Competitive(d)
       /\ \A e \in Remaining(s, target) : e < d => ~Competitive(e)
       /\ position' = [position EXCEPT ![s] = d]
       /\ current' = d
       /\ delivered' = delivered \cup {d}
  /\ UNCHANGED <<plan, index, heap>>

NextDoc(s) == Advance(s, position[s] + 1)

(* A seek past documents that the query does not match. *)
Seek(s) ==
  \E target \in position[s] + 2 .. Cardinality(Docs) :
    /\ Remaining(s, position[s] + 1) = Remaining(s, target)
    /\ Advance(s, target)

Score ==
  /\ current # 0
  /\ IF WandEnabled(plan) THEN AddScore(index[current].score) ELSE UNCHANGED heap
  /\ current' = 0
  /\ UNCHANGED <<plan, index, position, delivered>>

Next == Score \/ \E s \in Segments : NextDoc(s) \/ Seek(s)

Spec == Init /\ [][Next]_topKVars

-----------------------------------------------------------------------------
Exhausted ==
  /\ current = 0
  /\ \A s \in Segments : \A d \in Remaining(s, position[s] + 1) : ~Competitive(d)

(* d comes before e in the result: by score, ties by a second sort key. *)
Before(d, e) ==
  \/ IF plan.ascending THEN index[d].score < index[e].score
     ELSE index[d].score > index[e].score
  \/ /\ index[d].score = index[e].score
     /\ IF plan.ties = "older" THEN d < e ELSE d > e

(* The documents of the result, if the executor had got the documents ds. *)
Result(ds) ==
  {d \in ds : Cardinality({e \in ds : Before(e, d)}) \in plan.offset .. plan.offset + plan.limit - 1}

(* A query sorted by a scorer has the result it has without skipping: the  *)
(* best documents of all segments, with ties decided by the sort's second  *)
(* key (skipping is strict, and only for plans without an offset).         *)
TopKIsExact ==
  Exhausted /\ plan.sort = "scorer" => Result(delivered) = Result(Docs)
=============================================================================
