------------------------ MODULE KeySpacePartitioner ------------------------
(***************************************************************************)
(* KeySpacePartitioner: the ranges that the parallel index builder scans,  *)
(* by interpolation between the bounds of an index, and split points by    *)
(* sampling.  A key is a sequence of bytes, and a byte one of few digits.  *)
(***************************************************************************)
EXTENDS Integers, Sequences, SequencesExt, FiniteSetsExt

CONSTANTS
  MaxByte,         \* the largest byte (255 in the code)
  MaxKeyLength,    \* bound: the length of keys and bounds
  MaxPartitions    \* bound: the partitions asked for

VARIABLES
  asked,           \* a call of partition or of computeSplitPoints
  answered,        \* whether it has returned,
  answer           \* and its answer

partitionVars == <<asked, answered, answer>>

Bytes == 0..MaxByte
Keys == BoundedSeq(Bytes, MaxKeyLength)

(* std::string's operator<. *)
Less(k, l) ==
  \/ \E n \in 1..Len(l) :
       /\ n <= Len(k) /\ k[n] < l[n]
       /\ \A m \in 1..(n - 1) : k[m] = l[m]
  \/ IsStrictPrefix(k, l)

LessEq(k, l) == k = l \/ Less(k, l)

ByteAt(key, n) == IF n <= Len(key) THEN key[n] ELSE 0

(* Without trailing zeros, down to one byte. *)
Trimmed(key) ==
  SubSeq(key, 1, Max({1} \cup {n \in 1..Len(key) : key[n] # 0}))

(* Byte by byte lo + (hi - lo) * i / n, cut off to an integer. *)
InterpolateKey(lower, upper, i, n) ==
  Trimmed([m \in 1..Max({Len(lower), Len(upper)}) |->
             (ByteAt(lower, m) * (n - i) + ByteAt(upper, m) * i) \div n])

SplitKey(lower, upper, i, n) ==
  IF upper = <<>> THEN Append(lower, (i * MaxByte) \div n)
  ELSE InterpolateKey(lower, upper, i, n)

(* Mutated: the last range ends at its split point, not at the bound. *)
ForgetUpperBound(lower, upper, n) ==
  [i \in 1..n |->
     [lower |-> IF i = 1 THEN lower ELSE SplitKey(lower, upper, i - 1, n),
      upper |-> SplitKey(lower, upper, i, n)]]

(* An empty upper bound is no bound. *)
Ranges(lower, upper, n) ==
  [i \in 1..n |->
     [lower |-> IF i = 1 THEN lower ELSE SplitKey(lower, upper, i - 1, n),
      upper |-> IF i = n THEN upper ELSE SplitKey(lower, upper, i, n)]]

Partition(lower, upper, n) ==
  IF n = 0 \/ (upper # <<>> /\ LessEq(upper, lower)) THEN <<>> ELSE Ranges(lower, upper, n)

(* The keys of a sorted sample without duplicates, by rank: every size/n-th *)
(* one, or all of a small sample.  i / n * size is computed with rounding,  *)
(* so an index that should be exact may come out one lower.                *)
ComputeSplitPoints(size, n, rounded) ==
  CASE n <= 1 -> <<>>
    [] n > 1 /\ size < n -> [i \in 1..size |-> i]
    [] OTHER -> [i \in 1..(n - 1) |->
         1 + (i * size - (IF i \in rounded THEN 1 ELSE 0)) \div n]

PartitionCalls == [lower : Keys, upper : Keys, n : 0..MaxPartitions]
SampleCalls ==
  [size : 0..(2 * MaxPartitions), n : 0..MaxPartitions, rounded : SUBSET (1..MaxPartitions)]

Init ==
  /\ asked \in PartitionCalls \cup SampleCalls
  /\ answered = FALSE /\ answer = <<>>

Next ==
  /\ ~answered /\ answered' = TRUE
  /\ answer' = IF asked \in PartitionCalls
               THEN Partition(asked.lower, asked.upper, asked.n)
               ELSE ComputeSplitPoints(asked.size, asked.n, asked.rounded)
  /\ UNCHANGED asked

Spec == Init /\ [][Next]_partitionVars

-----------------------------------------------------------------------------
Within(key, range) ==
  LessEq(range.lower, key) /\ (range.upper = <<>> \/ Less(key, range.upper))

(* No byte of the lower bound is above the byte of the upper bound. *)
BytesOrdered ==
  asked.upper = <<>> \/ \A n \in 1..MaxKeyLength : ByteAt(asked.lower, n) <= ByteAt(asked.upper, n)

(* Whatever the bounds, every key between them is scanned by one of the    *)
(* ranges; and by only one if no byte of the bounds is out of order.       *)
RangesCover ==
  \A key \in Keys : asked.n > 0 /\ Within(key, asked) =>
    LET by == {i \in DOMAIN answer : Within(key, answer[i])} IN
    by # {} /\ (BytesOrdered => \E i \in by : by = {i})

(* Split points ascend, and no part has two keys more than its share.      *)
SplitsSpread ==
  LET ends == <<1>> \o answer \o <<asked.size + 1>> IN
  \A i \in 2..Len(ends) :
    /\ ends[i - 1] <= ends[i]
    /\ asked.n \in 1..asked.size => ends[i] - ends[i - 1] <= asked.size \div asked.n + 1

(* The parts that parallel scans work on: nothing is left out, also when   *)
(* the bytes interpolated between the bounds go up and down.               *)
EveryKeyCovered ==
  answered => IF asked \in PartitionCalls THEN RangesCover ELSE SplitsSpread
=============================================================================
