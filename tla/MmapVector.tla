------------------------------ MODULE MmapVector ------------------------------
(***************************************************************************)
(* InternalMmapVector, which holds its elements in whole pages from mmap,   *)
(* with the functions on sorted vectors (sanitizer_common.h).  The runtime  *)
(* keeps thread ids, addresses and texts of reports in such vectors.        *)
(***************************************************************************)
EXTENDS Integers, Sequences, SequencesExt, FiniteSets

CONSTANTS
  Values,     \* the elements, 0 among them
  PageElems,  \* elements on a page
  MaxElems    \* bound: elements of the vector

VARIABLES
  data,    \* data_: every element there is room for
  size,    \* size_
  content  \* the elements that the calls have put in, in their order

vars == <<data, size, content>>

Capacity == Cardinality(DOMAIN data)
RoundUpTo(n, boundary) == ((n + boundary - 1) \div boundary) * boundary
RoundUpToPowerOfTwo(n) ==
  CHOOSE p \in {2 ^ k : k \in 0 .. n} : n <= p /\ p < 2 * n

(* Initialize(0): nothing is mapped. *)
Init == data = [i \in {} |-> 0] /\ size = 0 /\ content = <<>>

(* Realloc: the elements are copied to new pages, which are 0 elsewhere. *)
Realloc(d, n) ==
  [i \in 0 .. RoundUpTo(n, PageElems) - 1 |-> IF i < size THEN d[i] ELSE 0]

(* reserve *)
Reserved(n) == IF n > Capacity THEN Realloc(data, n) ELSE data

PushBack(v) ==
  /\ size < MaxElems
  /\ LET d == IF size = Capacity THEN Realloc(data, RoundUpToPowerOfTwo(size + 1)) ELSE data
     IN  data' = [d EXCEPT ![size] = v]
  /\ size' = size + 1
  /\ content' = Append(content, v)

PopBack ==
  /\ size > 0
  /\ size' = size - 1
  /\ content' = Front(content)
  /\ UNCHANGED data

(* Mutant: what a larger vector gained is left as it was. *)
Resize_Stale(n) ==
  /\ data' = Reserved(n)
  /\ size' = n
  /\ content' = [i \in 1 .. n |-> IF i <= size THEN content[i] ELSE 0]

(* resize, and clear with 0 *)
Resize(n) ==
  /\ data' = [i \in DOMAIN Reserved(n) |->
                IF i \in size .. n - 1 THEN 0 ELSE Reserved(n)[i]]
  /\ size' = n
  /\ content' = [i \in 1 .. n |-> IF i <= size THEN content[i] ELSE 0]

------------------------------------------------------------------------------
(* Sorting *)

Swapped(v, i, j) == [v EXCEPT ![i] = v[j], ![j] = v[i]]

RECURSIVE SiftUp(_, _)
SiftUp(v, j) ==
  LET p == (j - 1) \div 2
  IN  IF j > 0 /\ v[p] < v[j] THEN SiftUp(Swapped(v, j, p), p) ELSE v

(* Mutant: the right child is taken whenever it is larger than the parent. *)
LargestChild_Right(v, j, i) ==
  LET left == 2 * j + 1
      right == 2 * j + 2
  IN  IF right < i /\ v[j] < v[right] THEN right
      ELSE IF left < i /\ v[j] < v[left] THEN left ELSE j

(* The largest of an element and its children before i. *)
LargestChild(v, j, i) ==
  LET left == 2 * j + 1
      right == 2 * j + 2
      larger == IF left < i /\ v[j] < v[left] THEN left ELSE j
  IN  IF right < i /\ v[larger] < v[right] THEN right ELSE larger

RECURSIVE Sink(_, _, _)
Sink(v, j, i) ==
  LET largest == LargestChild(v, j, i)
  IN  IF largest = j THEN v ELSE Sink(Swapped(v, j, largest), largest, i)

(* Sort, by a heap. *)
Sorted(v, n) ==
  LET rest == [i \in 1 .. n - 1 |-> i]
      heap == FoldLeft(SiftUp, v, rest)
  IN  IF n < 2 THEN v
      ELSE FoldLeft(LAMBDA u, i : Sink(Swapped(u, 0, i), 0, i), heap, Reverse(rest))

(* SortAndDedup, with the elements kept so far. *)
SortAndDedup ==
  LET v == Sorted(data, size)
      kept == FoldLeft(LAMBDA u, i : IF u.v[u.last] < u.v[i]
                                     THEN [v |-> [u.v EXCEPT ![u.last + 1] = u.v[i]], last |-> u.last + 1]
                                     ELSE u,
                       [v |-> v, last |-> 0], [i \in 1 .. size - 1 |-> i])
  IN  /\ data' = IF size < 2 THEN v ELSE kept.v
      /\ size' = IF size < 2 THEN size ELSE kept.last + 1
      /\ content' = SetToSortSeq(ToSet(content), LAMBDA a, b : a < b)

RECURSIVE BoundIn(_, _, _, _)
BoundIn(v, val, first, last) ==
  LET mid == (first + last) \div 2
  IN  IF last <= first THEN first
      ELSE IF v[mid] < val THEN BoundIn(v, val, mid + 1, last)
      ELSE BoundIn(v, val, first, mid)
InternalLowerBound(v, n, val) == BoundIn(v, val, 0, n)

Next ==
  \/ \E v \in Values : PushBack(v)
  \/ PopBack
  \/ \E n \in 0 .. MaxElems : Resize(n)
  \/ SortAndDedup

Spec == Init /\ [][Next]_vars

------------------------------------------------------------------------------
(* The vector is the sequence of what was put in: what grows is 0 even where *)
(* larger vectors were before, and what is sorted has every element once.    *)
ContentKept ==
  /\ size <= Capacity
  /\ content = [i \in 1 .. size |-> data[i - 1]]

(* Sort only reorders, and a search in what is sorted finds the place before *)
(* the first element that is not less.                                     *)
SearchInSorted ==
  LET v == Sorted(data, size)
      elems == 0 .. size - 1
  IN  /\ \A i \in elems, j \in elems : i < j => v[i] <= v[j]
      /\ \A x \in Values :
           /\ Cardinality({i \in elems : v[i] = x}) = Cardinality({i \in elems : data[i] = x})
           /\ InternalLowerBound(v, size, x) = Cardinality({i \in elems : v[i] < x})

==============================================================================
