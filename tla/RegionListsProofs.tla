--------------------------- MODULE RegionListsProofs ---------------------------
(***************************************************************************)
(* Proofs of OrderedBothWays and ShadowExact, for any set of regions, any   *)
(* size of their shadow and of pages, and of ImplementsLists, for any       *)
(* finite set of regions.                                                  *)
(*                                                                         *)
(* Links says that next and prev lead to the nearest region in use.  A      *)
(* release deletes only regions that are in use, and each once, because it  *)
(* finds them along the freed list: Freed says what that list is at every   *)
(* turn of a loop, while a refill has taken regions that are still linked.  *)
(* The same places in the list are what ClusterLists counts: Displayed.     *)
(***************************************************************************)
EXTENDS RegionLists, FiniteSetTheorems, SequenceTheorems, TLAPS

ConstantsOK ==
  /\ Region \subseteq Nat \ {0}
  /\ RegionShadow \in Nat \ {0}
  /\ ShadowPage \in Nat \ {0}
  /\ StartSpan \in Nat

Pointer == Region \cup {Null}

TypeOK ==
  /\ head \in Pointer
  /\ next \in [Region -> Pointer] /\ prev \in [Region -> Pointer]
  /\ freedHead \in Pointer
  /\ freedNext \in [Region -> Pointer]
  /\ inFreeList \in [Region -> BOOLEAN]
  /\ status \in [Region -> {0, 1}]
  /\ walk \in {"none", "refill", "release"}
  /\ cur \in Pointer /\ before \in Pointer /\ start \in Pointer
  /\ isCycle \in BOOLEAN

(* n is the nearest region of S above r, p the nearest one below r.  Every  *)
(* region is above nullptr.                                                *)
Above(S, r, n) ==
  IF n = Null THEN \A q \in S : q <= r
              ELSE n \in S /\ r < n /\ \A q \in S : q <= r \/ n <= q
Below(S, r, p) ==
  IF p = Null THEN \A q \in S : r <= q
              ELSE p \in S /\ p < r /\ \A q \in S : q <= p \/ r <= q

Ordered(S, first, up, down) ==
  /\ Above(S, Null, first)
  /\ \A r \in S : Above(S, r, up[r]) /\ Below(S, r, down[r])

Links ==
  /\ Ordered(InUse, head, next, prev)
  /\ \A r \in Region \ InUse : next[r] = Null

(* s[1] to s[n] are the regions that link leads through from first on, and  *)
(* nothing else is in s.                                                   *)
Chain(n, s, first, link) ==
  /\ s \in [Nat -> Pointer]
  /\ \A i \in Nat : s[i] = Null <=> i \notin 1..n
  /\ \A i, j \in 1..n : s[i] = s[j] => i = j
  /\ first = s[1]
  /\ \A i \in 1..n : link[s[i]] = s[i + 1]

(* What in_free_list says: the regions at the places I of s. *)
Listed(s, I) == \A r \in Region : inFreeList[r] <=> \E i \in I : s[i] = r

(* Where the loop in progress is, in a list s of n regions.  A refill that   *)
(* began at a has taken the regions from there to cur, around the end if    *)
(* isCycle.                                                                *)
Walking(n, s) ==
  \/ /\ walk = "none"
     /\ Listed(s, 1..n) /\ freeRegionNum = n
  \/ /\ walk = "release"
     /\ Listed(s, 1..n) /\ freeRegionNum = n
     /\ \E i \in 1..(n + 1) : cur = s[i] /\ before = s[i - 1]
  \/ /\ walk = "refill" /\ ~isCycle
     /\ \E a \in 1..n : \E c \in a..n :
          /\ start = s[a] /\ before = s[a - 1] /\ cur = s[c]
          /\ freeRegionNum = n - (c - a)
          /\ Listed(s, (1..n) \ (a..(c - 1)))
  \/ /\ walk = "refill" /\ isCycle
     /\ \E a \in 1..n : \E c \in 1..(a - 1) :
          /\ start = s[a] /\ before = s[a - 1] /\ cur = s[c]
          /\ freeRegionNum = a - c
          /\ Listed(s, c..(a - 1))

Freed ==
  \E n \in Nat : \E s \in [Nat -> Pointer] :
    /\ Chain(n, s, freedHead, freedNext)
    /\ \A i \in 1..n : s[i] \in InUse
    /\ Walking(n, s)

IInv == TypeOK /\ Links /\ Freed

------------------------------------------------------------------------------
(* Least and greatest numbers *)

LEMMA Least ==
  ASSUME NEW S \in SUBSET Nat, S # {}
  PROVE  \E x \in S : \A y \in S : x <= y
<1>1. PICK b \in S : TRUE
  OBVIOUS
<1> DEFINE T == {0..x : x \in {y \in S : y <= b}}
<1>2. IsWellFoundedOn(StrictSubsetOrdering(0..b), SUBSET (0..b))
  <2>1. b \in Int /\ 0 \in Int
    OBVIOUS
  <2>2. IsFiniteSet(0..b)
    BY <2>1, FS_Interval
  <2>3. FiniteSubsetsOf(0..b) = SUBSET (0..b)
    BY <2>2, FS_FiniteSubsetsOfFinite
  <2> QED
    BY <2>3, FS_StrictSubsetOrderingWellFounded
<1>3. T \subseteq SUBSET (0..b) /\ T # {}
  <2>1. 0..b \in T
    OBVIOUS
  <2> QED
    BY <2>1
<1>4. PICK t \in T : \A u \in T : ~(<<u, t>> \in StrictSubsetOrdering(0..b))
  <2> HIDE DEF T
  <2> QED
    BY <1>2, <1>3, WFMin
<1>5. PICK x \in {y \in S : y <= b} : t = 0..x
  OBVIOUS
<1>6. ASSUME NEW y \in S PROVE x <= y
  <2>1. CASE y > b
    BY <2>1, <1>1
  <2>2. CASE y <= b
    <3>1. 0..y \in T
      BY <2>2
    <3>2. ~(0..y \subseteq t /\ 0..y # t)
      BY <3>1, <1>4, <1>3 DEF StrictSubsetOrdering
    <3>3. y < x => 0..y \subseteq 0..x /\ x \notin 0..y
      OBVIOUS
    <3> QED
      BY <3>2, <3>3, <1>5
  <2> QED
    BY <2>1, <2>2
<1> QED
  BY <1>5, <1>6

LEMMA Greatest ==
  ASSUME NEW S \in SUBSET Nat, S # {}, NEW b \in Nat, \A x \in S : x <= b
  PROVE  \E x \in S : \A y \in S : y <= x
<1> DEFINE T == {b - x : x \in S}
<1>1. T \in SUBSET Nat /\ T # {}
  <2>1. PICK x \in S : TRUE
    OBVIOUS
  <2>2. b - x \in T
    OBVIOUS
  <2>3. \A y \in S : b - y \in Nat
    OBVIOUS
  <2>4. T \subseteq Nat
    BY <2>3
  <2> QED
    BY <2>2, <2>4
<1>2. PICK t \in T : \A u \in T : t <= u
  <2> HIDE DEF T
  <2> QED
    BY <1>1, Least
<1>3. PICK x \in S : t = b - x
  OBVIOUS
<1>4. ASSUME NEW y \in S PROVE y <= x
  <2>1. b - x <= b - y
    BY <1>2, <1>3
  <2> QED
    BY <2>1
<1> QED
  BY <1>4

------------------------------------------------------------------------------
(* Changes of a list *)

Pushed(s, r) == [j \in Nat |-> IF j = 0 THEN Null ELSE IF j = 1 THEN r ELSE s[j - 1]]
Without(s, a, d) == [j \in Nat |-> IF j < a THEN s[j] ELSE s[j + d - a]]
Segment(s, d, m) == [j \in Nat |-> IF j \in 1..m THEN s[j + d - 1] ELSE Null]

(* The first m regions of t are those at the places I of s. *)
Members(t, m, s, I) == \A q : (\E j \in 1..m : t[j] = q) <=> \E i \in I : s[i] = q

(* A region goes in front of the list. *)
LEMMA PushedChain ==
  ASSUME ConstantsOK, NEW n \in Nat, NEW s, NEW first, NEW link \in [Region -> Pointer],
         Chain(n, s, first, link),
         NEW r \in Region, \A i \in 1..n : s[i] # r,
         NEW new, new[r] = first, \A q \in Region : q # r => new[q] = link[q]
  PROVE  /\ Chain(n + 1, Pushed(s, r), r, new)
         /\ \A q : (\E j \in 1..(n + 1) : Pushed(s, r)[j] = q) <=> q = r \/ \E i \in 1..n : s[i] = q
<1> DEFINE t == Pushed(s, r)
<1>1. /\ s \in [Nat -> Pointer]
      /\ \A i \in Nat : s[i] = Null <=> i \notin 1..n
      /\ \A i, j \in 1..n : s[i] = s[j] => i = j
      /\ first = s[1]
      /\ \A i \in 1..n : link[s[i]] = s[i + 1]
  BY DEF Chain
<1>2. r # Null /\ Null \notin Region
  BY DEF ConstantsOK, Null
<1>3. t \in [Nat -> Pointer]
  BY <1>1 DEF Pushed, Pointer
<1>4. t[0] = Null /\ t[1] = r /\ \A j \in Nat : j > 1 => t[j] = s[j - 1]
  BY DEF Pushed
<1>5. \A j \in 1..n : t[j + 1] = s[j]
  BY <1>4
<1> HIDE DEF t
<1>6. \A i \in Nat : t[i] = Null <=> i \notin 1..(n + 1)
  <2> SUFFICES ASSUME NEW i \in Nat PROVE t[i] = Null <=> i \notin 1..(n + 1)
    OBVIOUS
  <2>1. CASE i = 0 \/ i = 1
    BY <2>1, <1>2, <1>4
  <2>2. CASE i > 1
    <3>1. i - 1 \in Nat
      BY <2>2
    <3>2. s[i - 1] = Null <=> i - 1 \notin 1..n
      BY <1>1, <3>1
    <3> QED
      BY <3>2, <2>2, <1>4
  <2> QED
    BY <2>1, <2>2
<1>7. \A i, j \in 1..(n + 1) : t[i] = t[j] => i = j
  <2> SUFFICES ASSUME NEW i \in 1..(n + 1), NEW j \in 1..(n + 1), t[i] = t[j] PROVE i = j
    OBVIOUS
  <2>1. CASE i = 1 /\ j = 1
    BY <2>1
  <2>2. CASE i = 1 /\ j # 1
    <3>1. j - 1 \in 1..n /\ j > 1 /\ j \in Nat
      BY <2>2
    <3> QED
      BY <2>2, <3>1, <1>4
  <2>3. CASE i # 1 /\ j = 1
    <3>1. i - 1 \in 1..n /\ i > 1 /\ i \in Nat
      BY <2>3
    <3> QED
      BY <2>3, <3>1, <1>4
  <2>4. CASE i # 1 /\ j # 1
    <3>1. i - 1 \in 1..n /\ i > 1 /\ i \in Nat /\ j - 1 \in 1..n /\ j > 1 /\ j \in Nat
      BY <2>4
    <3>2. s[i - 1] = s[j - 1]
      BY <3>1, <1>4
    <3>3. i - 1 = j - 1
      BY <3>1, <3>2, <1>1
    <3> QED
      BY <3>3
  <2> QED
    BY <2>1, <2>2, <2>3, <2>4
<1>8. \A i \in 1..(n + 1) : new[t[i]] = t[i + 1]
  <2> SUFFICES ASSUME NEW i \in 1..(n + 1) PROVE new[t[i]] = t[i + 1]
    OBVIOUS
  <2>1. CASE i = 1
    <3>1. t[2] = s[1]
      BY <1>4
    <3> QED
      BY <2>1, <3>1, <1>1, <1>4
  <2>2. CASE i # 1
    <3>1. i - 1 \in 1..n /\ i > 1 /\ i \in Nat
      BY <2>2
    <3>2. t[i] = s[i - 1] /\ t[i + 1] = s[i]
      BY <3>1, <1>4
    <3>3. s[i - 1] # r /\ link[s[i - 1]] = s[i]
      <4>1. (i - 1) + 1 = i
        OBVIOUS
      <4> QED
        BY <3>1, <4>1, <1>1
    <3>4. s[i - 1] \in Region
      BY <1>1, <3>1 DEF Pointer
    <3> QED
      BY <3>2, <3>3, <3>4
  <2> QED
    BY <2>1, <2>2
<1>9. \A q : (\E j \in 1..(n + 1) : t[j] = q) <=> q = r \/ \E i \in 1..n : s[i] = q
  <2> TAKE q
  <2>1. ASSUME NEW j \in 1..(n + 1), t[j] = q PROVE q = r \/ \E i \in 1..n : s[i] = q
    <3>1. CASE j = 1
      BY <3>1, <2>1, <1>4
    <3>2. CASE j # 1
      <4>1. j - 1 \in 1..n /\ j > 1 /\ j \in Nat
        BY <3>2
      <4> QED
        BY <4>1, <2>1, <1>4
    <3> QED
      BY <3>1, <3>2
  <2>2. CASE q = r
    <3>1. 1 \in 1..(n + 1)
      OBVIOUS
    <3> QED
      BY <3>1, <2>2, <1>4
  <2>3. ASSUME NEW i \in 1..n, s[i] = q PROVE \E j \in 1..(n + 1) : t[j] = q
    <3>1. i + 1 \in 1..(n + 1)
      OBVIOUS
    <3> QED
      BY <3>1, <2>3, <1>5
  <2> QED
    BY <2>1, <2>2, <2>3
<1> QED
  BY <1>3, <1>4, <1>6, <1>7, <1>8, <1>9 DEF Chain, t

(* The regions at a to d - 1 leave the list: m stay. *)
LeftOut(n, s, first, link, a, d, m, newFirst, new) ==
  /\ a \in 1..n /\ d \in (a + 1)..(n + 1) /\ m = n - (d - a)
  /\ newFirst = IF a = 1 THEN s[d] ELSE first
  /\ \A i \in 1..n : i < a - 1 \/ i >= d => new[s[i]] = link[s[i]]
  /\ a > 1 => new[s[a - 1]] = s[d]

LEMMA WithoutChain ==
  ASSUME ConstantsOK, NEW n \in Nat, NEW s, NEW first, NEW link, Chain(n, s, first, link),
         NEW a, NEW d, NEW m, NEW newFirst, NEW new,
         LeftOut(n, s, first, link, a, d, m, newFirst, new)
  PROVE  /\ m \in Nat
         /\ Without(s, a, d) \in [Nat -> Pointer]
         /\ Chain(m, Without(s, a, d), newFirst, new)
         /\ Members(Without(s, a, d), m, s, (1..n) \ (a..(d - 1)))
<1> DEFINE t == Without(s, a, d)
<1> USE DEF LeftOut
<1>1. /\ s \in [Nat -> Pointer]
      /\ \A i \in Nat : s[i] = Null <=> i \notin 1..n
      /\ \A i, j \in 1..n : s[i] = s[j] => i = j
      /\ first = s[1]
      /\ \A i \in 1..n : link[s[i]] = s[i + 1]
  BY DEF Chain
<1>2. m \in Nat
  OBVIOUS
<1>3. t \in [Nat -> Pointer]
  BY <1>1 DEF Without
<1>4. /\ \A j \in Nat : j < a => t[j] = s[j]
      /\ \A j \in Nat : j >= a => t[j] = s[j + d - a]
  BY DEF Without
<1>5. \A j \in Nat : j >= a => j + d - a \in Nat /\ j + d - a >= d
  OBVIOUS
<1> HIDE DEF t
<1>6. \A i \in Nat : t[i] = Null <=> i \notin 1..m
  <2> SUFFICES ASSUME NEW i \in Nat PROVE t[i] = Null <=> i \notin 1..m
    OBVIOUS
  <2>1. CASE i < a
    BY <2>1, <1>1, <1>4
  <2>2. CASE i >= a
    <3>1. s[i + d - a] = Null <=> i + d - a \notin 1..n
      BY <2>2, <1>5, <1>1
    <3> QED
      BY <3>1, <2>2, <1>4
  <2> QED
    BY <2>1, <2>2
<1>7. \A i, j \in 1..m : t[i] = t[j] => i = j
  <2> DEFINE old(i) == IF i < a THEN i ELSE i + d - a
  <2>1. \A i \in 1..m : old(i) \in 1..n /\ t[i] = s[old(i)]
    BY <1>4
  <2>2. \A i, j \in 1..m : old(i) = old(j) => i = j
    OBVIOUS
  <2> HIDE DEF old
  <2> QED
    BY <2>1, <2>2, <1>1
<1>8. \A i \in 1..m : new[t[i]] = t[i + 1]
  <2> SUFFICES ASSUME NEW i \in 1..m PROVE new[t[i]] = t[i + 1]
    OBVIOUS
  <2>1. CASE i < a - 1
    <3>1. i \in 1..n /\ t[i] = s[i] /\ t[i + 1] = s[i + 1]
      BY <2>1, <1>4
    <3>2. new[s[i]] = link[s[i]]
      BY <3>1, <2>1
    <3> QED
      BY <3>1, <3>2, <1>1
  <2>2. CASE i = a - 1
    <3>1. t[i] = s[a - 1] /\ t[a] = s[a + d - a] /\ a > 1 /\ a + d - a = d
      BY <2>2, <1>4
    <3>2. i + 1 = a
      BY <2>2
    <3> QED
      BY <3>1, <3>2
  <2>3. CASE i >= a
    <3>1. i + d - a \in 1..n /\ i + d - a >= d
      BY <2>3
    <3>2. t[i] = s[i + d - a] /\ t[i + 1] = s[(i + d - a) + 1]
      <4>1. i + 1 \in Nat /\ i + 1 >= a /\ (i + 1) + d - a = (i + d - a) + 1
        BY <2>3
      <4> QED
        BY <4>1, <2>3, <1>4
    <3>3. new[s[i + d - a]] = link[s[i + d - a]]
      BY <3>1
    <3> QED
      BY <3>1, <3>2, <3>3, <1>1
  <2> QED
    BY <2>1, <2>2, <2>3
<1>9. newFirst = t[1]
  <2>1. CASE a = 1
    <3>1. 1 + d - a = d /\ 1 >= a
      BY <2>1
    <3> QED
      BY <2>1, <3>1, <1>4
  <2>2. CASE a > 1
    BY <2>2, <1>1, <1>4
  <2> QED
    BY <2>1, <2>2
<1>10. Members(t, m, s, (1..n) \ (a..(d - 1)))
  <2> SUFFICES ASSUME NEW q
               PROVE  (\E j \in 1..m : t[j] = q) <=> \E i \in (1..n) \ (a..(d - 1)) : s[i] = q
    BY DEF Members
  <2>1. ASSUME NEW j \in 1..m, t[j] = q PROVE \E i \in (1..n) \ (a..(d - 1)) : s[i] = q
    <3>1. CASE j < a
      <4>1. j \in (1..n) \ (a..(d - 1)) /\ t[j] = s[j]
        BY <3>1, <1>4
      <4> QED
        BY <4>1, <2>1
    <3>2. CASE j >= a
      <4>1. j + d - a \in (1..n) \ (a..(d - 1)) /\ t[j] = s[j + d - a]
        BY <3>2, <1>4
      <4> QED
        BY <4>1, <2>1
    <3> QED
      BY <3>1, <3>2
  <2>2. ASSUME NEW i \in (1..n) \ (a..(d - 1)), s[i] = q PROVE \E j \in 1..m : t[j] = q
    <3>1. CASE i < a
      <4>1. i \in 1..m /\ t[i] = s[i]
        BY <3>1, <1>4
      <4> QED
        BY <4>1, <2>2
    <3>2. CASE i >= d
      <4>1. i - (d - a) \in 1..m /\ i - (d - a) >= a /\ (i - (d - a)) + d - a = i
        BY <3>2
      <4>2. t[i - (d - a)] = s[i]
        BY <4>1, <1>4
      <4> QED
        BY <4>1, <4>2, <2>2
    <3> QED
      BY <3>1, <3>2
  <2> QED
    BY <2>1, <2>2
<1> QED
  BY <1>2, <1>3, <1>6, <1>7, <1>8, <1>9, <1>10 DEF Chain, t

(* Only the m regions from d on stay in the list. *)
LeftIn(n, s, link, d, m, newFirst, new) ==
  /\ m \in Nat /\ d \in 1..n /\ d + m <= n + 1
  /\ newFirst = IF m = 0 THEN Null ELSE s[d]
  /\ \A i \in d..(d + m - 2) : new[s[i]] = link[s[i]]
  /\ m > 0 => new[s[d + m - 1]] = Null

LEMMA SegmentChain ==
  ASSUME ConstantsOK, NEW n \in Nat, NEW s, NEW first, NEW link, Chain(n, s, first, link),
         NEW d, NEW m, NEW newFirst, NEW new, LeftIn(n, s, link, d, m, newFirst, new)
  PROVE  /\ Segment(s, d, m) \in [Nat -> Pointer]
         /\ Chain(m, Segment(s, d, m), newFirst, new)
         /\ Members(Segment(s, d, m), m, s, d..(d + m - 1))
<1> DEFINE t == Segment(s, d, m)
<1> USE DEF LeftIn
<1>1. /\ s \in [Nat -> Pointer]
      /\ \A i \in Nat : s[i] = Null <=> i \notin 1..n
      /\ \A i, j \in 1..n : s[i] = s[j] => i = j
      /\ \A i \in 1..n : link[s[i]] = s[i + 1]
  BY DEF Chain
<1>2. \A j \in 1..m : j + d - 1 \in 1..n /\ j + d - 1 \in d..(d + m - 1)
  OBVIOUS
<1>3. /\ \A j \in 1..m : t[j] = s[j + d - 1]
      /\ \A j \in Nat : j \notin 1..m => t[j] = Null
  BY DEF Segment
<1>4. t \in [Nat -> Pointer]
  BY <1>1 DEF Segment, Pointer
<1> HIDE DEF t
<1>5. \A j \in Nat : t[j] = Null <=> j \notin 1..m
  <2>1. ASSUME NEW j \in 1..m PROVE t[j] # Null
    <3>1. j + d - 1 \in Nat
      BY <1>2
    <3> QED
      BY <3>1, <1>1, <1>2, <1>3
  <2> QED
    BY <2>1, <1>3
<1>6. \A i, j \in 1..m : t[i] = t[j] => i = j
  <2> SUFFICES ASSUME NEW i \in 1..m, NEW j \in 1..m, t[i] = t[j] PROVE i = j
    OBVIOUS
  <2>1. i + d - 1 = j + d - 1
    BY <1>1, <1>2, <1>3
  <2> QED
    BY <2>1
<1>7. \A j \in 1..m : new[t[j]] = t[j + 1]
  <2> SUFFICES ASSUME NEW j \in 1..m PROVE new[t[j]] = t[j + 1]
    OBVIOUS
  <2>1. CASE j = m
    <3>1. t[j] = s[d + m - 1] /\ t[j + 1] = Null
      <4>1. j + d - 1 = d + m - 1 /\ j + 1 \in Nat /\ j + 1 \notin 1..m
        BY <2>1
      <4> QED
        BY <4>1, <1>3
    <3> QED
      BY <3>1, <2>1
  <2>2. CASE j < m
    <3>1. j + d - 1 \in d..(d + m - 2) /\ j + d - 1 \in 1..n
      BY <2>2
    <3>2. t[j] = s[j + d - 1] /\ t[j + 1] = s[(j + d - 1) + 1]
      <4>1. j + 1 \in 1..m /\ (j + 1) + d - 1 = (j + d - 1) + 1
        BY <2>2
      <4> QED
        BY <4>1, <1>3
    <3> QED
      BY <3>1, <3>2, <1>1
  <2> QED
    BY <2>1, <2>2
<1>8. newFirst = t[1]
  <2>1. CASE m = 0
    BY <2>1, <1>3
  <2>2. CASE m > 0
    <3>1. 1 \in 1..m /\ 1 + d - 1 = d
      BY <2>2
    <3> QED
      BY <2>2, <3>1, <1>3
  <2> QED
    BY <2>1, <2>2
<1>9. Members(t, m, s, d..(d + m - 1))
  <2> SUFFICES ASSUME NEW q
               PROVE  (\E j \in 1..m : t[j] = q) <=> \E i \in d..(d + m - 1) : s[i] = q
    BY DEF Members
  <2>1. ASSUME NEW j \in 1..m, t[j] = q PROVE \E i \in d..(d + m - 1) : s[i] = q
    BY <2>1, <1>2, <1>3
  <2>2. ASSUME NEW i \in d..(d + m - 1), s[i] = q PROVE \E j \in 1..m : t[j] = q
    <3>1. i - d + 1 \in 1..m /\ (i - d + 1) + d - 1 = i
      OBVIOUS
    <3>2. t[i - d + 1] = s[i]
      BY <3>1, <1>3
    <3> QED
      BY <3>1, <3>2, <2>2
  <2> QED
    BY <2>1, <2>2
<1> QED
  BY <1>4, <1>5, <1>6, <1>7, <1>8, <1>9 DEF Chain, t

------------------------------------------------------------------------------
(* The loops that walk along links *)

(* insertInOrder stops at the nearest region in use below the new one.      *)
LEMMA NearestBelow ==
  ASSUME ConstantsOK, TypeOK, Links, NEW r \in Region, r \notin InUse, head # Null, head < r
  PROVE  \E p \in InUse : p = Predecessor(r) /\ p < r /\ \A q \in InUse : q <= p \/ r < q
<1> DEFINE Def(f) == [q \in Region |-> IF next[q] # Null /\ next[q] < r THEN f[next[q]] ELSE q]
           reach == CHOOSE f : f = Def(f)
           S == {q \in InUse : q < r}
<1>1. /\ InUse \subseteq Region /\ Region \subseteq Nat /\ r \in Nat
      /\ Null = 0 /\ Null \notin Region
      /\ next \in [Region -> Region \cup {Null}]
  BY DEF ConstantsOK, TypeOK, Pointer, InUse, Null
<1>2. head \in InUse
  BY DEF Links, Ordered, Above
<1>3. \A q \in InUse : \/ next[q] = Null /\ \A p \in InUse : p <= q
                       \/ next[q] \in InUse /\ q < next[q] /\ \A p \in InUse : p <= q \/ next[q] <= p
  BY DEF Links, Ordered, Above
<1>4. PICK m \in S : \A q \in S : q <= m
  <2>1. S \in SUBSET Nat /\ \A x \in S : x <= r
    <3>1. \A x \in S : x \in Nat /\ x <= r
      BY <1>1
    <3> QED
      BY <3>1
  <2>2. S # {}
    BY <1>2
  <2> HIDE DEF S
  <2> QED
    BY <2>1, <2>2, <1>1, Greatest
<1>5. m \in InUse /\ m < r /\ \A q \in InUse : q <= m \/ r < q
  <2>1. \A q \in InUse : q < r => q <= m
    BY <1>4
  <2>2. \A q \in InUse : q < r \/ r < q
    BY <1>1
  <2> QED
    BY <2>1, <2>2
(* Where the recursion ends. *)
<1>6. ASSUME NEW q \in S, ~(next[q] # Null /\ next[q] < r) PROVE q = m
  <2>1. q \in InUse /\ q \in Nat /\ q <= m /\ m \in InUse /\ m \in Nat
    BY <1>1, <1>4, <1>5
  <2>2. PICK p : p = next[q]
    OBVIOUS
  <2>3. CASE p = Null
    <3>1. \A o \in InUse : o <= q
      BY <2>1, <2>2, <2>3, <1>1, <1>3
    <3>2. m <= q
      BY <3>1, <2>1
    <3> QED
      BY <2>1, <3>2
  <2>4. CASE p # Null
    <3>1. p \in InUse /\ \A o \in InUse : o <= q \/ p <= o
      BY <2>1, <2>2, <2>4, <1>3
    <3>2. p \in Nat /\ ~(p < r)
      BY <3>1, <2>2, <2>4, <1>1, <1>6
    <3>3. m <= q \/ p <= m
      BY <3>1, <2>1
    <3> QED
      BY <2>1, <3>2, <3>3, <1>1, <1>5
  <2> QED
    BY <2>3, <2>4
<1>7. ASSUME NEW q \in S, next[q] # Null, next[q] < r PROVE next[q] \in S /\ q < next[q]
  BY <1>3, <1>7
(* A function that satisfies the recursion. *)
<1>8. reach = Def(reach)
  <2> DEFINE f == [q \in Region |-> IF next[q] # Null /\ next[q] < r THEN m ELSE q]
  <2>1. ASSUME NEW q \in Region, next[q] # Null, next[q] < r PROVE f[next[q]] = m
    <3>1. q \in InUse
      BY <2>1 DEF Links
    <3>2. \E p \in InUse : p = next[q] /\ q < p
      BY <3>1, <2>1, <1>3
    <3>3. PICK p \in S : p = next[q]
      BY <3>2, <2>1
    <3>4. f[p] = m
      <4>1. p \in Region
        BY <1>1
      <4>2. ~(next[p] # Null /\ next[p] < r) => p = m
        BY <1>6
      <4> QED
        BY <4>1, <4>2
    <3> QED
      BY <3>3, <3>4
  <2>2. f = Def(f)
    BY <2>1
  <2> HIDE DEF f, Def
  <2> QED
    BY <2>2
(* Every one has the same value on the regions in use below r. *)
<1>9. \A q \in S : reach[q] = m
  <2> DEFINE Bad == {q \in S : reach[q] # m}
  <2> SUFFICES ASSUME Bad # {} PROVE FALSE
    OBVIOUS
  <2>1. PICK q \in Bad : \A p \in Bad : p <= q
    <3>1. Bad \in SUBSET Nat /\ \A x \in Bad : x <= r
      <4>1. \A x \in Bad : x \in Nat /\ x <= r
        BY <1>1
      <4> QED
        BY <4>1
    <3> HIDE DEF Bad
    <3> QED
      BY <3>1, <1>1, Greatest
  <2>2. q \in S /\ q \in Region /\ q \in Nat /\ reach[q] # m
    BY <2>1, <1>1
  <2>3. reach[q] = IF next[q] # Null /\ next[q] < r THEN reach[next[q]] ELSE q
    <3> HIDE DEF reach
    <3> QED
      BY <1>8, <2>2
  <2> HIDE DEF reach
  <2>4. CASE next[q] # Null /\ next[q] < r
    <3>1. PICK p \in S : p = next[q] /\ q < p
      BY <2>2, <2>4, <1>7
    <3>2. p \notin Bad
      <4>1. p \in Nat
        BY <1>1
      <4>2. ~(p <= q)
        BY <4>1, <3>1, <2>2
      <4> QED
        BY <4>2, <2>1
    <3> QED
      BY <3>1, <3>2, <2>2, <2>3, <2>4
  <2>5. CASE ~(next[q] # Null /\ next[q] < r)
    BY <2>2, <2>3, <2>5, <1>6
  <2> QED
    BY <2>4, <2>5
<1>10. Predecessor(r) = reach[head]
  BY DEF Predecessor
<1> HIDE DEF reach
<1>11. Predecessor(r) = m
  BY <1>2, <1>9, <1>10
<1> QED
  BY <1>5, <1>11

(* A refill starts at a region of the freed list. *)
LEMMA NthOfChain ==
  ASSUME ConstantsOK, TypeOK, NEW n \in Nat, NEW s, Chain(n, s, freedHead, freedNext),
         NEW k \in 0..(n - 1)
  PROVE  Nth(k) = s[k + 1]
<1> DEFINE Def(f) == [i \in 0..k |-> IF i = 0 THEN freedHead ELSE freedNext[f[i - 1]]]
           step == CHOOSE f : f = Def(f)
<1>1. /\ freedHead = s[1]
      /\ \A i \in 1..n : freedNext[s[i]] = s[i + 1]
  BY DEF Chain
<1>2. step = Def(step)
  <2> DEFINE f == [i \in 0..k |-> s[i + 1]]
  <2>1. ASSUME NEW i \in 0..k
        PROVE  s[i + 1] = IF i = 0 THEN freedHead ELSE freedNext[f[i - 1]]
    <3>1. CASE i = 0
      BY <3>1, <1>1
    <3>2. CASE i # 0
      <4>1. i - 1 \in 0..k /\ (i - 1) + 1 = i /\ i \in 1..n
        BY <3>2
      <4>2. f[i - 1] = s[i]
        BY <4>1
      <4> QED
        BY <4>1, <4>2, <3>2, <1>1
    <3> QED
      BY <3>1, <3>2
  <2>2. f = Def(f)
    BY <2>1
  <2> HIDE DEF f, Def
  <2> QED
    BY <2>2
<1> HIDE DEF step
<1>3. \A i \in 0..k : step[i] = s[i + 1]
  <2> DEFINE Bad == {i \in 0..k : step[i] # s[i + 1]}
  <2> SUFFICES ASSUME Bad # {} PROVE FALSE
    OBVIOUS
  <2>1. PICK i \in Bad : \A j \in Bad : i <= j
    <3>1. Bad \in SUBSET Nat
      OBVIOUS
    <3> HIDE DEF Bad
    <3> QED
      BY <3>1, Least
  <2>2. i \in 0..k /\ step[i] # s[i + 1]
    BY <2>1
  <2>3. step[i] = IF i = 0 THEN freedHead ELSE freedNext[step[i - 1]]
    BY <1>2, <2>2
  <2>4. i # 0
    BY <2>2, <2>3, <1>1
  <2>5. i - 1 \in 0..k /\ i - 1 \notin Bad /\ (i - 1) + 1 = i /\ i \in 1..n
    BY <2>1, <2>2, <2>4
  <2>6. step[i - 1] = s[i]
    BY <2>5
  <2> QED
    BY <2>2, <2>3, <2>4, <2>5, <2>6, <1>1
<1>4. Nth(k) = step[k]
  BY DEF Nth, step
<1> QED
  BY <1>3, <1>4

------------------------------------------------------------------------------
(* Changes of the list in order *)

LEMMA OrderedAtHead ==
  ASSUME ConstantsOK, NEW S \in SUBSET Nat, S \subseteq Region, NEW first \in Nat,
         NEW up \in [Region -> Nat], NEW down \in [Region -> Nat],
         Ordered(S, first, up, down),
         NEW r \in Nat, r \in Region, r \notin S, first = Null \/ r < first,
         NEW newUp, newUp[r] = first, \A q \in S : newUp[q] = up[q],
         NEW newDown, newDown[r] = Null,
         \A q \in S : newDown[q] = IF q = first THEN r ELSE down[q]
  PROVE  Ordered(S \cup {r}, r, newUp, newDown)
<1> DEFINE T == S \cup {r}
<1>1. /\ Region \subseteq Nat /\ Null = 0 /\ Null \notin Region
      /\ \A q \in S : q \in Region /\ q \in Nat /\ q > 0 /\ q # r
      /\ r \in Nat /\ r > 0
  BY DEF ConstantsOK, Null
<1>2. \/ first = Null /\ \A q \in S : q <= Null
      \/ first # Null /\ first \in S /\ \A q \in S : first <= q
  BY <1>1 DEF Ordered, Above
<1>3. \A q \in S : r < q
  <2> HIDE DEF T
  <2> SUFFICES ASSUME NEW q \in S PROVE r < q
    OBVIOUS
  <2>1. CASE first = Null
    BY <2>1, <1>1, <1>2
  <2>2. CASE first # Null
    <3>1. first \in Nat /\ q \in Nat /\ r \in Nat /\ first <= q
      BY <2>2, <1>1, <1>2
    <3>2. r < first
      BY <2>2
    <3> QED
      BY <3>1, <3>2
  <2> QED
    BY <2>1, <2>2
<1>4. Above(T, Null, r)
  BY <1>1, <1>3 DEF Above
<1>5. ASSUME NEW q \in T PROVE Above(T, q, newUp[q])
  <2>1. CASE q = r
    <3>1. newUp[q] = first
      BY <2>1
    <3> QED
      BY <2>1, <3>1, <1>1, <1>2, <1>3 DEF Above
  <2>2. CASE q # r
    <3>1. q \in S /\ newUp[q] = up[q] /\ Above(S, q, up[q])
      BY <2>2, <1>1 DEF Ordered
    <3> QED
      BY <3>1, <1>1, <1>3 DEF Above
  <2> QED
    BY <2>1, <2>2
<1>6. ASSUME NEW q \in T PROVE Below(T, q, newDown[q])
  <2>1. CASE q = r
    <3>1. newDown[q] = Null
      BY <2>1
    <3> QED
      BY <2>1, <3>1, <1>1, <1>3 DEF Below
  <2>2. CASE q # r /\ q = first
    <3>1. newDown[q] = r /\ q \in S
      BY <2>2, <1>1
    <3> QED
      BY <2>2, <3>1, <1>1, <1>2, <1>3 DEF Below
  <2>3. CASE q # r /\ q # first
    <3>1. q \in S /\ newDown[q] = down[q] /\ Below(S, q, down[q])
      BY <2>3, <1>1 DEF Ordered
    <3>2. first # Null /\ first \in S /\ first < q
      BY <2>3, <3>1, <1>1, <1>2
    <3> QED
      BY <3>1, <3>2, <1>1, <1>3 DEF Below
  <2> QED
    BY <2>1, <2>2, <2>3
<1> QED
  BY <1>4, <1>5, <1>6 DEF Ordered

LEMMA OrderedAfter ==
  ASSUME ConstantsOK, NEW S \in SUBSET Nat, S \subseteq Region, NEW first \in Nat,
         NEW up \in [Region -> Nat], NEW down \in [Region -> Nat],
         Ordered(S, first, up, down),
         NEW r \in Nat, r \in Region, r \notin S,
         NEW p \in S, p < r, \A q \in S : q <= p \/ r < q,
         NEW newUp, newUp[r] = up[p], newUp[p] = r, \A q \in S : q # p => newUp[q] = up[q],
         NEW newDown, newDown[r] = p,
         \A q \in S : newDown[q] = IF q = up[p] THEN r ELSE down[q]
  PROVE  Ordered(S \cup {r}, first, newUp, newDown)
<1> DEFINE T == S \cup {r}
<1>1. /\ Region \subseteq Nat /\ Null = 0 /\ Null \notin Region
      /\ \A q \in S : q \in Region /\ q \in Nat /\ q > 0 /\ q # r
      /\ r \in Nat /\ r > 0
  BY DEF ConstantsOK, Null
<1>2. PICK n : n = up[p]
  OBVIOUS
<1>3. \/ n = Null /\ \A q \in S : q <= p
      \/ n # Null /\ n \in S /\ r < n /\ p < n /\ \A q \in S : q <= p \/ n <= q
  <2>1. Above(S, p, n)
    BY <1>2 DEF Ordered
  <2>2. CASE n = Null
    BY <2>1, <2>2 DEF Above
  <2>3. CASE n # Null
    <3>1. n \in S /\ p < n /\ \A q \in S : q <= p \/ n <= q
      BY <2>1, <2>3 DEF Above
    <3>2. n \in Nat /\ p \in Nat /\ (n <= p \/ r < n)
      BY <3>1, <1>1
    <3> QED
      BY <2>3, <3>1, <3>2
  <2> QED
    BY <2>2, <2>3
<1>4. Above(T, Null, first)
  <2>1. first \in S /\ \A q \in S : first <= q
    BY <1>1 DEF Ordered, Above
  <2>2. first <= p /\ first < r
    BY <2>1, <1>1
  <2>4. first \in Nat /\ first # Null /\ Null < first
    BY <2>1, <1>1
  <2> QED
    BY <2>1, <2>2, <2>4 DEF Above
<1>5. ASSUME NEW q \in T PROVE Above(T, q, newUp[q])
  <2>1. CASE q = r
    <3>1. newUp[q] = n
      BY <2>1, <1>1, <1>2
    <3> QED
      BY <2>1, <3>1, <1>1, <1>3 DEF Above
  <2>2. CASE q = p
    <3>1. newUp[q] = r
      BY <2>2, <1>1
    <3> QED
      BY <2>2, <3>1, <1>1 DEF Above
  <2>3. CASE q # r /\ q # p
    <3>1. q \in S /\ newUp[q] = up[q] /\ Above(S, q, up[q])
      BY <2>3, <1>1 DEF Ordered
    <3>2. q < p \/ r < q
      BY <2>3, <3>1, <1>1
    <3>3. PICK u : u = up[q]
      OBVIOUS
    <3>4. Above(T, q, u)
      BY <3>1, <3>2, <3>3, <1>1 DEF Above
    <3> QED
      BY <3>1, <3>3, <3>4
  <2> QED
    BY <2>1, <2>2, <2>3
<1>6. ASSUME NEW q \in T PROVE Below(T, q, newDown[q])
  <2>1. CASE q = r
    <3>1. newDown[q] = p
      BY <2>1
    <3> QED
      BY <2>1, <3>1, <1>1 DEF Below
  <2>2. CASE q # r /\ q = n
    <3>1. newDown[q] = r /\ q \in S
      BY <2>2, <1>1, <1>2
    <3> QED
      BY <2>2, <3>1, <1>1, <1>3 DEF Below
  <2>3. CASE q # r /\ q # n
    <3>1. q \in S /\ newDown[q] = down[q] /\ Below(S, q, down[q])
      BY <2>3, <1>1, <1>2 DEF Ordered
    <3>2. PICK d : d = down[q]
      OBVIOUS
    <3>3. q \in Nat /\ p \in Nat /\ (q <= p \/ r < q)
      BY <3>1, <1>1
    <3>4. CASE d = Null
      <4>1. \A o \in S : q <= o
        BY <3>1, <3>2, <3>4 DEF Below
      <4>2. q <= p /\ q <= r
        BY <4>1, <3>3, <1>1
      <4> QED
        BY <3>1, <3>2, <3>4, <4>1, <4>2 DEF Below
    <3>5. CASE d # Null
      <4>1. d \in S /\ d < q /\ \A o \in S : o <= d \/ q <= o
        BY <3>1, <3>2, <3>5 DEF Below
      <4>2. d \in Nat /\ (p <= d \/ q <= p) /\ (d <= p \/ r < d)
        BY <4>1, <1>1
      <4>3. r <= d \/ q <= r
        <5>1. CASE q <= p
          BY <5>1, <3>3, <1>1
        <5>2. CASE p <= d /\ r < q
          <6>1. n # Null /\ n \in S /\ r < n /\ (q <= p \/ n <= q)
            BY <5>2, <3>1, <3>3, <1>1, <1>3
          <6>2. n \in Nat /\ (n <= d \/ q <= n)
            BY <6>1, <4>1, <1>1
          <6> QED
            BY <5>2, <6>1, <6>2, <2>3, <3>3, <4>2, <1>1
        <5> QED
          BY <5>1, <5>2, <3>3, <4>2
      <4> QED
        BY <3>1, <3>2, <3>5, <4>1, <4>3 DEF Below
    <3> QED
      BY <3>4, <3>5
  <2> QED
    BY <2>1, <2>2, <2>3
<1> QED
  BY <1>4, <1>5, <1>6 DEF Ordered

(* r leaves the list. *)
Unlinked(S, first, up, down, r, newFirst, newUp, newDown) ==
  /\ r \in S
  /\ newFirst = IF down[r] = Null THEN up[r] ELSE first
  /\ \A q \in S : q # r => newUp[q] = IF q = down[r] THEN up[r] ELSE up[q]
  /\ \A q \in S : q # r => newDown[q] = IF q = up[r] THEN down[r] ELSE down[q]

LEMMA OrderedDeleted ==
  ASSUME ConstantsOK, NEW S \in SUBSET Nat, S \subseteq Region, NEW first \in Nat,
         NEW up \in [Region -> Nat], NEW down \in [Region -> Nat],
         Ordered(S, first, up, down),
         NEW r, NEW newFirst, NEW newUp, NEW newDown,
         Unlinked(S, first, up, down, r, newFirst, newUp, newDown)
  PROVE  Ordered(S \ {r}, newFirst, newUp, newDown)
<1> DEFINE T == S \ {r}
<1> USE DEF Unlinked
<1>1. /\ Region \subseteq Nat /\ Null = 0 /\ Null \notin Region
      /\ \A q \in S : q \in Region /\ q \in Nat /\ q > 0
      /\ r \in Region /\ r \in Nat
  BY DEF ConstantsOK, Null
<1>2. PICK n : n = up[r]
  OBVIOUS
<1>3. PICK p : p = down[r]
  OBVIOUS
<1>4. \/ n = Null /\ \A q \in S : q <= r
      \/ n # Null /\ n \in S /\ r < n /\ \A q \in S : q <= r \/ n <= q
  BY <1>2 DEF Ordered, Above
<1>5. \/ p = Null /\ \A q \in S : r <= q
      \/ p # Null /\ p \in S /\ p < r /\ \A q \in S : q <= p \/ r <= q
  BY <1>3 DEF Ordered, Below
<1>6. Above(T, Null, newFirst)
  <2>1. first \in S /\ \A q \in S : first <= q
    BY <1>1 DEF Ordered, Above
  <2>2. CASE p = Null
    <3>1. newFirst = n
      BY <2>2, <1>2, <1>3
    <3> QED
      BY <2>2, <3>1, <1>1, <1>4, <1>5 DEF Above
  <2>3. CASE p # Null
    <3>1. newFirst = first /\ first # r
      BY <2>1, <2>3, <1>1, <1>3, <1>5
    <3> QED
      BY <2>1, <3>1, <1>1 DEF Above
  <2> QED
    BY <2>2, <2>3
<1>7. ASSUME NEW q \in T PROVE Above(T, q, newUp[q])
  <2>1. CASE q = p
    <3>1. newUp[q] = n
      BY <2>1, <1>1, <1>2, <1>3
    <3>2. p # Null
      BY <2>1, <1>1
    <3> QED
      BY <2>1, <3>1, <3>2, <1>1, <1>4, <1>5 DEF Above
  <2>2. CASE q # p
    <3>1. q \in S /\ q # r /\ newUp[q] = up[q] /\ Above(S, q, up[q])
      BY <2>2, <1>1, <1>3 DEF Ordered
    <3>2. PICK u : u = up[q]
      OBVIOUS
    <3>3. u # r
      <4> SUFFICES ASSUME u = r PROVE FALSE
        OBVIOUS
      <4>1. q \in Nat /\ q < r /\ \A o \in S : o <= q \/ r <= o
        BY <3>1, <3>2, <1>1 DEF Above
      <4>2. p # Null /\ p \in S /\ p < r /\ (q <= p \/ r <= q)
        BY <4>1, <3>1, <1>1, <1>5
      <4>3. p \in Nat /\ p <= q
        BY <4>1, <4>2, <1>1
      <4> QED
        BY <2>2, <4>1, <4>2, <4>3
    <3>4. Above(T, q, u)
      BY <3>1, <3>2, <3>3 DEF Above
    <3> QED
      BY <3>1, <3>2, <3>4
  <2> QED
    BY <2>1, <2>2
<1>8. ASSUME NEW q \in T PROVE Below(T, q, newDown[q])
  <2>1. CASE q = n
    <3>1. newDown[q] = p
      BY <2>1, <1>1, <1>2, <1>3
    <3>2. n # Null
      BY <2>1, <1>1
    <3> QED
      BY <2>1, <3>1, <3>2, <1>1, <1>4, <1>5 DEF Below
  <2>2. CASE q # n
    <3>1. q \in S /\ q # r /\ newDown[q] = down[q] /\ Below(S, q, down[q])
      BY <2>2, <1>1, <1>2 DEF Ordered
    <3>2. PICK d : d = down[q]
      OBVIOUS
    <3>3. d # r
      <4> SUFFICES ASSUME d = r PROVE FALSE
        OBVIOUS
      <4>1. q \in Nat /\ r < q /\ \A o \in S : o <= r \/ q <= o
        BY <3>1, <3>2, <1>1 DEF Below
      <4>2. n # Null /\ n \in S /\ r < n /\ (q <= r \/ n <= q)
        BY <4>1, <3>1, <1>1, <1>4
      <4>3. n \in Nat /\ q <= n
        BY <4>1, <4>2, <1>1
      <4> QED
        BY <2>2, <4>1, <4>2, <4>3, <1>1
    <3>4. Below(T, q, d)
      BY <3>1, <3>2, <3>3 DEF Below
    <3> QED
      BY <3>1, <3>2, <3>4
  <2> QED
    BY <2>1, <2>2
<1> QED
  BY <1>6, <1>7, <1>8 DEF Ordered

------------------------------------------------------------------------------
(* The invariant holds at first and through the operations outside loops *)

LEMMA Types ==
  ASSUME ConstantsOK, TypeOK
  PROVE  /\ Region \subseteq Nat /\ Null = 0 /\ Null \notin Region /\ Pointer \subseteq Nat
         /\ InUse \subseteq Region /\ InUse \subseteq Nat
         /\ next \in [Region -> Nat] /\ prev \in [Region -> Nat] /\ head \in Nat
<1>1. Region \subseteq Nat /\ Null = 0 /\ Null \notin Region /\ Pointer \subseteq Nat
  BY DEF ConstantsOK, Null, Pointer
<1>2. InUse \subseteq Region
  BY DEF InUse
<1> QED
  BY <1>1, <1>2 DEF TypeOK

LEMMA InitIInv == ConstantsOK /\ Init => IInv
<1> SUFFICES ASSUME ConstantsOK, Init PROVE IInv
  OBVIOUS
<1>1. TypeOK
  BY DEF Init, TypeOK, Pointer
<1>2. InUse = {}
  BY DEF Init, InUse
<1>3. Links
  BY <1>2 DEF Links, Ordered, Above, Init
<1>4. Freed
  <2> DEFINE s == [j \in Nat |-> Null]
  <2>1. s \in [Nat -> Pointer]
    BY DEF Pointer
  <2>2. Chain(0, s, freedHead, freedNext)
    BY <2>1 DEF Chain, Init
  <2>3. Walking(0, s)
    BY DEF Walking, Listed, Init
  <2> QED
    BY <2>1, <2>2, <2>3 DEF Freed
<1> QED
  BY <1>1, <1>3, <1>4 DEF IInv

LEMMA NewRegionIInv ==
  ASSUME ConstantsOK, IInv, NEW r \in Region, NewRegion(r) PROVE IInv'
<1>1. TypeOK /\ Links /\ Freed
  BY DEF IInv
<1>2. /\ Region \subseteq Nat /\ Null = 0 /\ Null \notin Region /\ Pointer \subseteq Nat
      /\ InUse \subseteq Region /\ InUse \subseteq Nat
      /\ next \in [Region -> Nat] /\ prev \in [Region -> Nat] /\ head \in Nat
  BY <1>1, Types
<1>3. r \notin InUse /\ InUse' = InUse \cup {r}
  BY <1>1 DEF NewRegion, InUse, TypeOK
<1>4. TypeOK' /\ Links'
  <2>1. Ordered(InUse, head, next, prev) /\ \A q \in Region \ InUse : next[q] = Null
    BY <1>1 DEF Links
  <2>2. CASE head = Null \/ r < head
    <3>1. InsertAtHead(r)
      BY <2>2 DEF NewRegion
    <3>2. Ordered(InUse \cup {r}, r, next', prev')
      <4>1. PICK S, first, up, down, newUp, newDown :
              S = InUse /\ first = head /\ up = next /\ down = prev /\ newUp = next' /\ newDown = prev'
        OBVIOUS
      <4>2. S \in SUBSET Nat /\ S \subseteq Region /\ first \in Nat
        BY <4>1, <1>2
      <4>3. up \in [Region -> Nat] /\ down \in [Region -> Nat]
        BY <4>1, <1>2
      <4>4. Ordered(S, first, up, down) /\ r \in Nat /\ r \notin S /\ (first = Null \/ r < first)
        BY <4>1, <1>2, <1>3, <2>1, <2>2
      <4>5. newUp[r] = first /\ \A q \in S : newUp[q] = up[q]
        BY <4>1, <4>2, <4>3, <4>4, <3>1 DEF InsertAtHead
      <4>6. newDown[r] = Null /\ \A q \in S : newDown[q] = IF q = first THEN r ELSE down[q]
        BY <4>1, <4>2, <4>4, <3>1 DEF InsertAtHead
      <4>7. Ordered(S \cup {r}, r, newUp, newDown)
        BY <4>2, <4>3, <4>4, <4>5, <4>6, OrderedAtHead
      <4> QED
        BY <4>1, <4>7
    <3>3. Ordered(InUse', head', next', prev')
      BY <1>3, <3>1, <3>2 DEF InsertAtHead
    <3>4. \A q \in Region \ InUse' : next'[q] = Null
      BY <1>1, <1>3, <2>1, <3>1 DEF InsertAtHead, TypeOK
    <3>5. TypeOK'
      BY <1>1, <3>1 DEF TypeOK, NewRegion, InsertAtHead, loop, Pointer
    <3> QED
      BY <3>3, <3>4, <3>5 DEF Links
  <2>3. CASE ~(head = Null \/ r < head)
    <3>1. InsertAfter(Predecessor(r), r)
      BY <2>3 DEF NewRegion
    <3>2. head # Null /\ head < r
      <4>1. head \in InUse
        BY <2>1, <2>3 DEF Ordered, Above
      <4> QED
        BY <4>1, <1>2, <1>3, <2>3
    <3>3. PICK p \in InUse : p = Predecessor(r) /\ p < r /\ \A q \in InUse : q <= p \/ r < q
      BY <1>1, <1>3, <3>2, NearestBelow
    <3>5. /\ next' = [next EXCEPT ![r] = next[p], ![p] = r]
          /\ prev' = [q \in Region |-> IF q = r THEN p ELSE IF q = next[p] THEN r ELSE prev[q]]
          /\ head' = head
      BY <3>1, <3>3 DEF InsertAfter
    <3>4. Ordered(InUse \cup {r}, head, next', prev')
      <4>1. PICK S, first, up, down, newUp, newDown :
              S = InUse /\ first = head /\ up = next /\ down = prev /\ newUp = next' /\ newDown = prev'
        OBVIOUS
      <4>2. S \in SUBSET Nat /\ S \subseteq Region /\ first \in Nat
        BY <4>1, <1>2
      <4>3. up \in [Region -> Nat] /\ down \in [Region -> Nat]
        BY <4>1, <1>2
      <4>4. Ordered(S, first, up, down) /\ r \in Nat /\ r \notin S
        BY <4>1, <1>2, <1>3, <2>1
      <4>5. p \in S /\ p < r /\ \A q \in S : q <= p \/ r < q
        BY <4>1, <3>3
      <4>6. newUp[r] = up[p] /\ newUp[p] = r /\ \A q \in S : q # p => newUp[q] = up[q]
        BY <4>1, <4>2, <4>3, <4>4, <4>5, <3>5
      <4>7. newDown[r] = p /\ \A q \in S : newDown[q] = IF q = up[p] THEN r ELSE down[q]
        BY <4>1, <4>2, <4>4, <3>5
      <4>8. Ordered(S \cup {r}, first, newUp, newDown)
        BY <4>2, <4>3, <4>4, <4>5, <4>6, <4>7, OrderedAfter
      <4> QED
        BY <4>1, <4>8
    <3>6. Ordered(InUse', head', next', prev')
      BY <1>3, <3>4, <3>5
    <3>7. \A q \in Region \ InUse' : next'[q] = Null
      BY <1>1, <1>3, <2>1, <3>3, <3>5 DEF TypeOK
    <3>8. TypeOK'
      <4>1. next' \in [Region -> Pointer] /\ prev' \in [Region -> Pointer] /\ head' \in Pointer
        BY <1>1, <1>2, <3>3, <3>5 DEF TypeOK, Pointer
      <4> QED
        BY <1>1, <4>1 DEF TypeOK, NewRegion, loop
    <3> QED
      BY <3>6, <3>7, <3>8 DEF Links
  <2> QED
    BY <2>2, <2>3
<1>5. Freed'
  <2>1. PICK n \in Nat, s \in [Nat -> Pointer] :
          /\ Chain(n, s, freedHead, freedNext)
          /\ \A i \in 1..n : s[i] \in InUse
          /\ Walking(n, s)
    BY <1>1 DEF Freed
  <2>2. walk = "none" /\ Listed(s, 1..n) /\ freeRegionNum = n
    BY <2>1 DEF Walking, NewRegion
  <2>3. ~inFreeList[r]
    BY <1>3, <2>1, <2>2 DEF Listed
  <2>4. inFreeList' = inFreeList
    BY <1>1, <2>3 DEF NewRegion, TypeOK
  <2>5. Chain(n, s, freedHead, freedNext)'
    BY <2>1 DEF NewRegion, Chain
  <2>6. Walking(n, s)'
    BY <2>2, <2>4 DEF NewRegion, Walking, Listed, loop
  <2> QED
    BY <1>3, <2>1, <2>5, <2>6 DEF Freed
<1> QED
  BY <1>4, <1>5 DEF IInv

LEMMA FreeIInv ==
  ASSUME ConstantsOK, IInv, NEW r \in Region, Free(r) PROVE IInv'
<1>1. TypeOK /\ Links /\ Freed
  BY DEF IInv
<1>2. InUse' = InUse /\ r \in InUse
  BY DEF Free, InUse, order
<1>3. TypeOK'
  BY <1>1 DEF TypeOK, Free, order, freed, Pointer
<1>4. Links'
  BY <1>1, <1>2 DEF Links, Free, order
<1>5. PICK n \in Nat, s \in [Nat -> Pointer] :
        /\ Chain(n, s, freedHead, freedNext)
        /\ \A i \in 1..n : s[i] \in InUse
        /\ Walking(n, s)
  BY <1>1 DEF Freed
<1>6. walk = "none" /\ Listed(s, 1..n) /\ freeRegionNum = n
  BY <1>5 DEF Walking, Free
(* The list and what it says; then the walk that may begin.                *)
<1>7. \E m \in Nat : \E t \in [Nat -> Pointer] :
        /\ Chain(m, t, freedHead', freedNext')
        /\ \A i \in 1..m : t[i] \in InUse
        /\ Listed(t, 1..m)'
        /\ freeRegionNum' = m
  <2>1. CASE inFreeList[r]
    <3>1. UNCHANGED freed
      BY <2>1 DEF Free
    <3> QED
      BY <3>1, <1>5, <1>6 DEF freed, Listed
  <2>2. CASE ~inFreeList[r]
    <3>1. \A i \in 1..n : s[i] # r
      BY <2>2, <1>6 DEF Listed
    <3>2. /\ freedNext' = [freedNext EXCEPT ![r] = freedHead]
          /\ freedHead' = r
          /\ inFreeList' = [inFreeList EXCEPT ![r] = TRUE]
          /\ freeRegionNum' = freeRegionNum + 1
      BY <2>2 DEF Free
    <3>3. freedNext \in [Region -> Pointer] /\ inFreeList \in [Region -> BOOLEAN]
      BY <1>1 DEF TypeOK
    <3> DEFINE t == Pushed(s, r)
    <3>4. /\ Chain(n + 1, t, r, freedNext')
          /\ \A q : (\E j \in 1..(n + 1) : t[j] = q) <=> q = r \/ \E i \in 1..n : s[i] = q
      <4>1. PICK first, link, new : first = freedHead /\ link = freedNext /\ new = freedNext'
        OBVIOUS
      <4>2. Chain(n, s, first, link) /\ link \in [Region -> Pointer]
        BY <4>1, <1>5, <3>3
      <4>4. new[r] = first /\ \A q \in Region : q # r => new[q] = link[q]
        BY <4>1, <4>2, <3>2
      <4>3. /\ Chain(n + 1, t, r, new)
            /\ \A q : (\E j \in 1..(n + 1) : t[j] = q) <=> q = r \/ \E i \in 1..n : s[i] = q
        BY <4>2, <4>4, <3>1, PushedChain
      <4> QED
        BY <4>1, <4>3
    <3>5. t \in [Nat -> Pointer]
      BY <3>4 DEF Chain
    <3> HIDE DEF t
    <3>6. \A j \in 1..(n + 1) : t[j] \in InUse
      BY <3>4, <1>2, <1>5
    <3>7. Listed(t, 1..(n + 1))'
      BY <3>2, <3>3, <3>4, <1>6 DEF Listed
    <3> QED
      BY <3>2, <3>4, <3>5, <3>6, <3>7, <1>6
  <2> QED
    BY <2>1, <2>2
<1>8. Freed'
  <2>1. PICK m \in Nat, t \in [Nat -> Pointer] :
          /\ Chain(m, t, freedHead', freedNext')
          /\ \A i \in 1..m : t[i] \in InUse
          /\ Listed(t, 1..m)'
          /\ freeRegionNum' = m
    BY <1>7
  <2>2. t[0] = Null /\ freedHead' = t[1]
    BY <2>1 DEF Chain
  <2>3. CASE walk' = "release" /\ cur' = freedHead' /\ before' = Null
    <3>1. 1 \in 1..(m + 1) /\ cur' = t[1] /\ before' = t[1 - 1]
      BY <2>2, <2>3
    <3>2. Walking(m, t)'
      BY <2>1, <2>3, <3>1 DEF Walking
    <3> QED
      BY <2>1, <3>2, <1>2 DEF Freed
  <2>4. CASE UNCHANGED <<walk, cur, before>>
    <3>1. Walking(m, t)'
      BY <2>1, <2>4, <1>6 DEF Walking
    <3> QED
      BY <2>1, <3>1, <1>2 DEF Freed
  <2> QED
    BY <2>3, <2>4 DEF Free
<1> QED
  BY <1>3, <1>4, <1>8 DEF IInv

------------------------------------------------------------------------------
(* The refill *)

LEMMA SmallerNumber ==
  ASSUME NEW a \in Nat, NEW b \in Nat
  PROVE  Min({a, b}) \in Nat /\ Min({a, b}) <= a
<1> DEFINE m == CHOOSE x \in {a, b} : \A y \in {a, b} : x <= y
<1>1. \E x \in {a, b} : \A y \in {a, b} : x <= y
  BY a <= b \/ b <= a
<1>2. m \in {a, b} /\ \A y \in {a, b} : m <= y
  BY <1>1
<1>3. Min({a, b}) = m
  BY DEF Min
<1> QED
  BY <1>2, <1>3

LEMMA BeginRefillIInv ==
  ASSUME ConstantsOK, IInv, BeginRefill PROVE IInv'
<1>1. TypeOK /\ Links /\ Freed
  BY DEF IInv
<1>2. InUse' = InUse
  BY DEF BeginRefill, InUse, order
<1>3. PICK n \in Nat, s \in [Nat -> Pointer] :
        /\ Chain(n, s, freedHead, freedNext)
        /\ \A i \in 1..n : s[i] \in InUse
        /\ Walking(n, s)
  BY <1>1 DEF Freed
<1>4. walk = "none" /\ Listed(s, 1..n) /\ freeRegionNum = n
  BY <1>3 DEF Walking, BeginRefill
<1>5. PICK k \in 0..(Min({freeRegionNum, StartSpan}) - 1) :
        /\ cur' = Nth(k) /\ start' = Nth(k)
        /\ before' = IF k = 0 THEN Null ELSE Nth(k - 1)
  BY DEF BeginRefill
<1>6. k \in 0..(n - 1)
  <2>1. Min({n, StartSpan}) \in Nat /\ Min({n, StartSpan}) <= n
    BY SmallerNumber DEF ConstantsOK
  <2>2. Min({n, StartSpan}) = Min({freeRegionNum, StartSpan})
    BY <1>4
  <2> QED
    BY <1>5, <2>1, <2>2
<1>7. cur' = s[k + 1] /\ start' = s[k + 1] /\ before' = s[k]
  <2>1. Nth(k) = s[k + 1]
    BY <1>1, <1>3, <1>6, NthOfChain
  <2>2. CASE k = 0
    <3>1. s[0] = Null
      BY <1>3 DEF Chain
    <3> QED
      BY <2>1, <2>2, <3>1, <1>5
  <2>3. CASE k # 0
    <3>1. k - 1 \in 0..(n - 1) /\ (k - 1) + 1 = k
      BY <2>3, <1>6
    <3>2. Nth(k - 1) = s[(k - 1) + 1]
      <4>1. PICK l \in 0..(n - 1) : l = k - 1
        BY <3>1
      <4>2. Nth(l) = s[l + 1]
        BY <1>1, <1>3, NthOfChain
      <4> QED
        BY <4>1, <4>2
    <3> QED
      BY <2>1, <2>3, <3>1, <3>2, <1>5
  <2> QED
    BY <2>2, <2>3
<1>8. TypeOK'
  <2>1. cur' \in Pointer /\ start' \in Pointer /\ before' \in Pointer
    BY <1>6, <1>7
  <2> QED
    BY <1>1, <2>1 DEF TypeOK, BeginRefill, order, freed
<1>9. Links'
  BY <1>1, <1>2 DEF Links, BeginRefill, order
<1>10. Freed'
  <2>1. PICK a \in 1..n : a = k + 1
    BY <1>6
  <2>2. /\ start' = s[a] /\ before' = s[a - 1] /\ cur' = s[a]
        /\ freeRegionNum' = n - (a - a)
    BY <2>1, <1>4, <1>6, <1>7 DEF BeginRefill, freed
  <2>3. Listed(s, (1..n) \ (a..(a - 1)))'
    <3>1. (1..n) \ (a..(a - 1)) = 1..n
      OBVIOUS
    <3> QED
      BY <3>1, <1>4 DEF Listed, BeginRefill, freed
  <2>4. Walking(n, s)'
    <3>1. a \in a..n
      OBVIOUS
    <3> QED
      BY <2>2, <2>3, <3>1 DEF Walking, BeginRefill
  <2>5. Chain(n, s, freedHead', freedNext')
    BY <1>3 DEF BeginRefill, freed
  <2> QED
    BY <1>2, <1>3, <2>4, <2>5 DEF Freed
<1> QED
  BY <1>8, <1>9, <1>10 DEF IInv

(* The end of a refill: what it has not taken is the list, t.                *)
LEMMA EndedFreed ==
  ASSUME ConstantsOK, TypeOK, NEW n \in Nat, NEW s \in [Nat -> Pointer],
         Chain(n, s, freedHead, freedNext),
         \A i \in 1..n : s[i] \in InUse,
         InUse' = InUse, EndLoop,
         NEW I \in SUBSET (1..n), Listed(s, I)',
         NEW m \in Nat, NEW t \in [Nat -> Pointer],
         Chain(m, t, freedHead', freedNext'),
         Members(t, m, s, I),
         freeRegionNum' = m
  PROVE  Freed'
<1>1. \A j \in 1..m : t[j] \in InUse'
  BY DEF Members
<1>2. Listed(t, 1..m)'
  BY DEF Listed, Members
<1>3. Walking(m, t)'
  BY <1>2 DEF Walking, EndLoop
<1> QED
  BY <1>1, <1>3 DEF Freed

(* The list is the first m regions of t from now on. *)
Left(m, t) ==
  \E u : Chain(m, u, freedHead', freedNext') /\ \A j \in 1..m : u[j] = t[j]

LEMMA TakeStraight ==
  ASSUME ConstantsOK, TypeOK, Take, ~isCycle, InUse' = InUse,
         NEW n \in Nat, NEW s \in [Nat -> Pointer],
         Chain(n, s, freedHead, freedNext), \A i \in 1..n : s[i] \in InUse,
         NEW a \in 1..n, NEW c \in a..n,
         start = s[a], before = s[a - 1], cur = s[c],
         freeRegionNum = n - (c - a),
         Listed(s, (1..n) \ (a..(c - 1)))
  PROVE  /\ Freed'
         /\ walk' = "none" => Left(n - (c - a) - 1, Without(s, a, c + 1))
<1>1. /\ \A i \in Nat : s[i] = Null <=> i \notin 1..n
      /\ \A i, j \in 1..n : s[i] = s[j] => i = j
      /\ freedHead = s[1]
      /\ \A i \in 1..n : freedNext[s[i]] = s[i + 1]
  BY DEF Chain
<1>2. Null = 0 /\ Null \notin Region /\ InUse \subseteq Region
  BY Types
<1>3. /\ inFreeList' = [inFreeList EXCEPT ![cur] = FALSE]
      /\ freeRegionNum' = freeRegionNum - 1
      /\ inFreeList \in [Region -> BOOLEAN]
  BY DEF Take, OneLess, TypeOK
<1>4. freedNext[cur] = s[c + 1] /\ c \in 1..n /\ s[c] \in Region
  BY <1>1, <1>2
(* What is listed when cur is taken. *)
<1>5. Listed(s, (1..n) \ (a..c))'
  <2> SUFFICES ASSUME NEW r \in Region
               PROVE  inFreeList'[r] <=> \E i \in (1..n) \ (a..c) : s[i] = r
    BY DEF Listed
  <2>1. CASE r = cur
    <3>1. ASSUME NEW i \in (1..n) \ (a..c), s[i] = r PROVE FALSE
      BY <2>1, <3>1, <1>1, <1>4
    <3> QED
      BY <2>1, <3>1, <1>3
  <2>2. CASE r # cur
    <3>1. inFreeList'[r] = inFreeList[r]
      BY <2>2, <1>3
    <3>2. inFreeList[r] <=> \E i \in (1..n) \ (a..(c - 1)) : s[i] = r
      BY DEF Listed
    <3>3. ASSUME NEW i \in (1..n) \ (a..(c - 1)), s[i] = r PROVE i \in (1..n) \ (a..c)
      <4>1. i # c
        BY <2>2, <3>3
      <4> QED
        BY <4>1
    <3>4. (1..n) \ (a..c) \subseteq (1..n) \ (a..(c - 1))
      OBVIOUS
    <3> QED
      BY <3>1, <3>2, <3>3, <3>4
  <2> QED
    BY <2>1, <2>2
<1>6. CASE c < n
  <2>1. s[c + 1] # Null /\ s[c + 1] # s[a]
    <3>1. c + 1 \in 1..n /\ c + 1 \in Nat /\ c + 1 # a
      BY <1>6
    <3> QED
      BY <3>1, <1>1
  <2>2. Following(cur) = s[c + 1] /\ freedNext[cur] # Null
    BY <2>1, <1>4 DEF Following
  <2>3. CASE /\ cur' = Following(cur) /\ isCycle' = (isCycle \/ freedNext[cur] = Null)
             /\ UNCHANGED <<freedHead, freedNext, walk, before, start>>
    <3>1. PICK e \in a..n : e = c + 1
      BY <1>6
    <3>2. cur' = s[e] /\ ~isCycle' /\ walk' = "refill" /\ start' = s[a] /\ before' = s[a - 1]
      BY <2>2, <2>3, <3>1 DEF Take
    <3>3. freeRegionNum' = n - (e - a)
      BY <3>1, <1>3
    <3>4. Listed(s, (1..n) \ (a..(e - 1)))'
      <4>1. e - 1 = c
        BY <3>1
      <4> QED
        BY <4>1, <1>5
    <3>5. Walking(n, s)'
      BY <3>2, <3>3, <3>4 DEF Walking
    <3>6. Chain(n, s, freedHead', freedNext')
      BY <2>3
    <3> QED
      BY <3>2, <3>5, <3>6 DEF Freed
  <2>4. CASE Relink(Following(cur), isCycle \/ freedNext[cur] = Null) /\ EndLoop
    <3>1. /\ freedNext' = IF before = Null THEN freedNext
                          ELSE [freedNext EXCEPT ![before] = s[c + 1]]
          /\ freedHead' = IF before = Null THEN s[c + 1] ELSE freedHead
      BY <2>2, <2>4 DEF Relink
    <3>2. before = Null <=> a = 1
      BY <1>1
    <3>3. PICK d \in (a + 1)..(n + 1) : d = c + 1
      OBVIOUS
    <3>4. freedNext \in [Region -> Pointer]
      BY DEF TypeOK
    <3>5. PICK new : new = freedNext'
      OBVIOUS
    <3>6. \A i \in 1..n : i < a - 1 \/ i >= d => new[s[i]] = freedNext[s[i]]
      <4> SUFFICES ASSUME NEW i \in 1..n, i < a - 1 \/ i >= d PROVE new[s[i]] = freedNext[s[i]]
        OBVIOUS
      <4>1. CASE a = 1
        BY <4>1, <3>1, <3>2, <3>5
      <4>2. CASE a # 1
        <5>1. a - 1 \in 1..n /\ i # a - 1
          BY <4>2, <3>3
        <5>2. s[i] # before /\ s[i] \in Region
          BY <5>1, <1>1, <1>2
        <5> QED
          BY <4>2, <5>2, <3>1, <3>2, <3>4, <3>5
      <4> QED
        BY <4>1, <4>2
    <3>7. a > 1 => new[s[a - 1]] = s[d]
      <4> SUFFICES ASSUME a > 1 PROVE new[s[a - 1]] = s[d]
        OBVIOUS
      <4>1. a - 1 \in 1..n /\ s[a - 1] \in Region
        BY <1>2
      <4> QED
        BY <4>1, <3>1, <3>2, <3>3, <3>4, <3>5
    <3>8. PICK newFirst : newFirst = freedHead'
      OBVIOUS
    <3>9. newFirst = IF a = 1 THEN s[d] ELSE freedHead
      BY <3>1, <3>2, <3>3, <3>8
    <3>10. PICK m : m = n - (d - a)
      OBVIOUS
    <3> DEFINE t == Without(s, a, d)
    <3>11. /\ m \in Nat
           /\ t \in [Nat -> Pointer]
           /\ Chain(m, t, newFirst, new)
           /\ Members(t, m, s, (1..n) \ (a..(d - 1)))
      <4>1. PICK first, link : first = freedHead /\ link = freedNext
        OBVIOUS
      <4>2. Chain(n, s, first, link) /\ newFirst = IF a = 1 THEN s[d] ELSE first
        BY <4>1, <3>9
      <4>3. \A i \in 1..n : i < a - 1 \/ i >= d => new[s[i]] = link[s[i]]
        BY <4>1, <3>6
      <4> QED
        <5>1. LeftOut(n, s, first, link, a, d, m, newFirst, new)
          BY <4>2, <4>3, <3>3, <3>7, <3>10 DEF LeftOut
        <5>2. m \in Nat /\ Without(s, a, d) \in [Nat -> Pointer] /\ Chain(m, Without(s, a, d), newFirst, new)
          BY <4>2, <5>1, WithoutChain
        <5>3. Members(Without(s, a, d), m, s, (1..n) \ (a..(d - 1)))
          BY <4>2, <5>1, WithoutChain
        <5> QED
          BY <5>2, <5>3
    <3> HIDE DEF t
    <3>12. PICK I \in SUBSET (1..n) : I = (1..n) \ (a..(d - 1))
      OBVIOUS
    <3>13. Listed(s, I)'
      <4>1. d - 1 = c
        BY <3>3
      <4> QED
        BY <4>1, <3>12, <1>5
    <3>14. freeRegionNum' = m
      BY <3>3, <3>10, <1>3
    <3>15. Chain(m, t, freedHead', freedNext')
      BY <3>5, <3>8, <3>11
    <3>16. Members(t, m, s, I)
      BY <3>11, <3>12
    <3>17. Freed'
      BY <2>4, <3>11, <3>13, <3>14, <3>15, <3>16, EndedFreed
    <3>18. Left(m, Without(s, a, d))
      BY <3>15 DEF Left, t
    <3>19. m = n - (c - a) - 1 /\ d = c + 1
      BY <3>3, <3>10
    <3> QED
      BY <3>17, <3>18, <3>19
  <2> QED
    BY <2>1, <2>2, <2>3, <2>4 DEF Take
<1>7. CASE c = n
  <2>1. Following(cur) = s[1] /\ freedNext[cur] = Null
    <3>1. s[c + 1] = Null
      BY <1>7, <1>1
    <3> QED
      BY <3>1, <1>1, <1>4 DEF Following
  <2>2. CASE a = 1
    <3>1. Following(cur) = start
      BY <2>1, <2>2
    <3>2. freedHead' = Null /\ EndLoop /\ UNCHANGED freedNext
      BY <3>1 DEF Take
    <3> DEFINE t == [j \in Nat |-> Null]
    <3>3. t \in [Nat -> Pointer]
      BY DEF Pointer
    <3>4. Chain(0, t, freedHead', freedNext')
      BY <3>2, <3>3 DEF Chain
    <3>5. Listed(s, {})'
      <4>1. (1..n) \ (a..c) = {}
        BY <1>7, <2>2
      <4> QED
        BY <4>1, <1>5
    <3>6. freeRegionNum' = 0
      BY <1>3, <1>7, <2>2
    <3>7. Members(t, 0, s, {})
      BY DEF Members
    <3> HIDE DEF t
    <3>8. 0 \in Nat /\ {} \in SUBSET (1..n)
      OBVIOUS
    <3>9. Freed'
      BY <3>2, <3>3, <3>4, <3>5, <3>6, <3>7, <3>8, EndedFreed
    <3>10. Left(0, Without(s, a, c + 1))
      BY <3>4 DEF Left
    <3>11. n - (c - a) - 1 = 0
      BY <1>7, <2>2
    <3> QED
      BY <3>9, <3>10, <3>11
  <2>3. CASE a > 1
    <3>1. s[1] # s[a]
      BY <2>3, <1>1
    <3>2. CASE /\ cur' = Following(cur) /\ isCycle' = (isCycle \/ freedNext[cur] = Null)
               /\ UNCHANGED <<freedHead, freedNext, walk, before, start>>
      <4>1. 1 \in 1..(a - 1)
        BY <2>3
      <4>2. cur' = s[1] /\ isCycle' /\ walk' = "refill" /\ start' = s[a] /\ before' = s[a - 1]
        BY <2>1, <3>2 DEF Take
      <4>3. freeRegionNum' = a - 1
        BY <1>3, <1>7
      <4>4. Listed(s, 1..(a - 1))'
        <5>1. (1..n) \ (a..c) = 1..(a - 1)
          BY <1>7
        <5> QED
          BY <5>1, <1>5
      <4>5. Walking(n, s)'
        BY <4>1, <4>2, <4>3, <4>4 DEF Walking
      <4>6. Chain(n, s, freedHead', freedNext')
        BY <3>2
      <4> QED
        BY <4>2, <4>5, <4>6 DEF Freed
    <3>3. CASE Relink(Following(cur), isCycle \/ freedNext[cur] = Null) /\ EndLoop
      <4>1. before # Null /\ before = s[a - 1]
        BY <2>3, <1>1
      <4>2. /\ freedNext' = [freedNext EXCEPT ![before] = Null]
            /\ freedHead' = s[1]
        BY <2>1, <3>3, <4>1 DEF Relink
      <4>3. PICK m \in Nat : m = a - 1
        BY <2>3
      <4>4. PICK new, first, link, newFirst :
              new = freedNext' /\ first = freedHead /\ link = freedNext /\ newFirst = freedHead'
        OBVIOUS
      <4>5. link \in [Region -> Pointer] /\ Chain(n, s, first, link)
        BY <4>4 DEF TypeOK
      <4>6. \A i \in 1..(1 + m - 2) : new[s[i]] = link[s[i]]
        <5> SUFFICES ASSUME NEW i \in 1..(1 + m - 2) PROVE new[s[i]] = link[s[i]]
          OBVIOUS
        <5>1. i \in 1..n /\ a - 1 \in 1..n /\ i # a - 1
          BY <4>3
        <5>2. s[i] # before
          BY <5>1, <4>1, <1>1
        <5>3. s[i] \in Region
          BY <5>1, <1>2
        <5> QED
          BY <5>2, <5>3, <4>2, <4>4, <4>5
      <4>7. m > 0 => new[s[1 + m - 1]] = Null
        <5>1. 1 + m - 1 = a - 1 /\ before \in Region
          BY <4>1, <4>3, <1>2, <2>3
        <5> QED
          BY <5>1, <4>1, <4>2, <4>4, <4>5
      <4>8. newFirst = IF m = 0 THEN Null ELSE s[1]
        BY <2>3, <4>2, <4>3, <4>4
      <4> DEFINE t == Segment(s, 1, m)
      <4>9. /\ t \in [Nat -> Pointer]
            /\ Chain(m, t, newFirst, new)
            /\ Members(t, m, s, 1..(1 + m - 1))
        <5>1. 1 \in 1..n /\ 1 + m <= n + 1
          BY <4>3
        <5>2. LeftIn(n, s, link, 1, m, newFirst, new)
          BY <5>1, <4>3, <4>6, <4>7, <4>8 DEF LeftIn
        <5> QED
          BY <5>2, <4>5, SegmentChain
      <4>13. \A j \in 1..m : t[j] = Without(s, a, c + 1)[j]
        <5> SUFFICES ASSUME NEW j \in 1..m PROVE t[j] = Without(s, a, c + 1)[j]
          OBVIOUS
        <5>1. t[j] = s[j + 1 - 1] /\ j + 1 - 1 = j /\ j < a
          BY <4>3 DEF Segment
        <5> QED
          BY <5>1 DEF Without
      <4> HIDE DEF t
      <4>10. PICK I \in SUBSET (1..n) : I = 1..(1 + m - 1)
        BY <4>3
      <4>11. Listed(s, I)'
        <5>1. (1..n) \ (a..c) = I
          BY <4>3, <4>10, <1>7
        <5> QED
          BY <5>1, <1>5
      <4>12. freeRegionNum' = m
        BY <4>3, <1>3, <1>7
      <4>14. Freed'
        BY <3>3, <4>4, <4>9, <4>10, <4>11, <4>12, EndedFreed
      <4>15. Left(m, Without(s, a, c + 1))
        BY <4>4, <4>9, <4>13 DEF Left
      <4>16. m = n - (c - a) - 1
        BY <4>3, <1>7
      <4> QED
        BY <4>14, <4>15, <4>16
    <3> QED
      BY <2>1, <3>1, <3>2, <3>3 DEF Take
  <2> QED
    BY <2>2, <2>3
<1> QED
  BY <1>6, <1>7

LEMMA TakeAround ==
  ASSUME ConstantsOK, TypeOK, Take, isCycle, InUse' = InUse,
         NEW n \in Nat, NEW s \in [Nat -> Pointer],
         Chain(n, s, freedHead, freedNext), \A i \in 1..n : s[i] \in InUse,
         NEW a \in 1..n, NEW c \in 1..(a - 1),
         start = s[a], before = s[a - 1], cur = s[c],
         freeRegionNum = a - c,
         Listed(s, c..(a - 1))
  PROVE  /\ Freed'
         /\ walk' = "none" => Left(a - c - 1, Segment(s, c + 1, a - c - 1))
<1>1. /\ \A i \in Nat : s[i] = Null <=> i \notin 1..n
      /\ \A i, j \in 1..n : s[i] = s[j] => i = j
      /\ freedHead = s[1]
      /\ \A i \in 1..n : freedNext[s[i]] = s[i + 1]
  BY DEF Chain
<1>2. Null = 0 /\ Null \notin Region /\ InUse \subseteq Region
  BY Types
<1>3. /\ inFreeList' = [inFreeList EXCEPT ![cur] = FALSE]
      /\ freeRegionNum' = freeRegionNum - 1
      /\ inFreeList \in [Region -> BOOLEAN]
  BY DEF Take, OneLess, TypeOK
<1>4. freedNext[cur] = s[c + 1] /\ c \in 1..n /\ s[c] \in Region
  BY <1>1, <1>2
<1>5. Following(cur) = s[c + 1] /\ freedNext[cur] # Null
  <2>1. c + 1 \in 1..n /\ c + 1 \in Nat
    OBVIOUS
  <2> QED
    BY <2>1, <1>1, <1>4 DEF Following
<1>6. Listed(s, (c + 1)..(a - 1))'
  <2> SUFFICES ASSUME NEW r \in Region
               PROVE  inFreeList'[r] <=> \E i \in (c + 1)..(a - 1) : s[i] = r
    BY DEF Listed
  <2>1. CASE r = cur
    <3>1. ASSUME NEW i \in (c + 1)..(a - 1), s[i] = r PROVE FALSE
      <4>1. i \in 1..n /\ i # c
        OBVIOUS
      <4> QED
        BY <2>1, <3>1, <4>1, <1>1, <1>4
    <3> QED
      BY <2>1, <3>1, <1>3
  <2>2. CASE r # cur
    <3>1. inFreeList'[r] = inFreeList[r]
      BY <2>2, <1>3
    <3>2. inFreeList[r] <=> \E i \in c..(a - 1) : s[i] = r
      BY DEF Listed
    <3>3. ASSUME NEW i \in c..(a - 1), s[i] = r PROVE i \in (c + 1)..(a - 1)
      <4>1. i # c
        BY <2>2, <3>3
      <4> QED
        BY <4>1
    <3>4. (c + 1)..(a - 1) \subseteq c..(a - 1)
      OBVIOUS
    <3> QED
      BY <3>1, <3>2, <3>3, <3>4
  <2> QED
    BY <2>1, <2>2
<1>7. CASE c + 1 = a
  <2>1. Following(cur) = start
    BY <1>5, <1>7
  <2>2. freedHead' = Null /\ EndLoop /\ UNCHANGED freedNext
    BY <2>1 DEF Take
  <2> DEFINE t == [j \in Nat |-> Null]
  <2>3. t \in [Nat -> Pointer]
    BY DEF Pointer
  <2>4. Chain(0, t, freedHead', freedNext')
    BY <2>2, <2>3 DEF Chain
  <2>5. Listed(s, {})'
    <3>1. (c + 1)..(a - 1) = {}
      BY <1>7
    <3> QED
      BY <3>1, <1>6
  <2>6. freeRegionNum' = 0
    BY <1>3, <1>7
  <2>7. Members(t, 0, s, {})
    BY DEF Members
  <2> HIDE DEF t
  <2>8. 0 \in Nat /\ {} \in SUBSET (1..n)
    OBVIOUS
  <2>9. Freed'
    BY <2>2, <2>3, <2>4, <2>5, <2>6, <2>7, <2>8, EndedFreed
  <2>10. Left(0, Segment(s, c + 1, a - c - 1))
    BY <2>4 DEF Left
  <2>11. a - c - 1 = 0
    BY <1>7
  <2> QED
    BY <2>9, <2>10, <2>11
<1>8. CASE c + 1 < a
  <2>1. Following(cur) # start
    <3>1. c + 1 \in 1..n /\ c + 1 # a
      BY <1>8
    <3> QED
      BY <3>1, <1>1, <1>5
  <2>2. CASE /\ cur' = Following(cur) /\ isCycle' = (isCycle \/ freedNext[cur] = Null)
             /\ UNCHANGED <<freedHead, freedNext, walk, before, start>>
    <3>1. PICK e \in 1..(a - 1) : e = c + 1
      BY <1>8
    <3>2. cur' = s[e] /\ isCycle' /\ walk' = "refill" /\ start' = s[a] /\ before' = s[a - 1]
      BY <2>2, <3>1, <1>5 DEF Take
    <3>3. freeRegionNum' = a - e
      BY <3>1, <1>3
    <3>4. Listed(s, e..(a - 1))'
      BY <3>1, <1>6
    <3>5. Walking(n, s)'
      BY <3>2, <3>3, <3>4 DEF Walking
    <3>6. Chain(n, s, freedHead', freedNext')
      BY <2>2
    <3> QED
      BY <3>2, <3>5, <3>6 DEF Freed
  <2>3. CASE Relink(Following(cur), isCycle \/ freedNext[cur] = Null) /\ EndLoop
    <3>1. before # Null /\ before = s[a - 1] /\ a - 1 \in 1..n
      BY <1>1
    <3>2. /\ freedNext' = [freedNext EXCEPT ![before] = Null]
          /\ freedHead' = s[c + 1]
      BY <2>3, <3>1, <1>5 DEF Relink
    <3>3. PICK m \in Nat : m = a - (c + 1)
      BY <1>8
    <3>4. PICK d \in 1..n : d = c + 1
      BY <1>8
    <3>5. PICK new, first, link, newFirst :
            new = freedNext' /\ first = freedHead /\ link = freedNext /\ newFirst = freedHead'
      OBVIOUS
    <3>6. link \in [Region -> Pointer] /\ Chain(n, s, first, link)
      BY <3>5 DEF TypeOK
    <3>7. \A i \in d..(d + m - 2) : new[s[i]] = link[s[i]]
      <4> SUFFICES ASSUME NEW i \in d..(d + m - 2) PROVE new[s[i]] = link[s[i]]
        OBVIOUS
      <4>1. i \in 1..n /\ i # a - 1
        BY <3>3, <3>4
      <4>2. s[i] # before
        BY <3>1, <4>1, <1>1
      <4>3. s[i] \in Region
        BY <4>1, <1>2
      <4> QED
        BY <3>2, <3>5, <3>6, <4>2, <4>3
    <3>8. m > 0 => new[s[d + m - 1]] = Null
      <4>1. d + m - 1 = a - 1 /\ before \in Region
        BY <3>1, <3>3, <3>4, <1>2
      <4> QED
        BY <3>1, <3>2, <3>5, <3>6, <4>1
    <3>9. newFirst = IF m = 0 THEN Null ELSE s[d]
      BY <1>8, <3>2, <3>3, <3>4, <3>5
    <3> DEFINE t == Segment(s, d, m)
    <3>10. /\ t \in [Nat -> Pointer]
           /\ Chain(m, t, newFirst, new)
           /\ Members(t, m, s, d..(d + m - 1))
      <4>1. d \in 1..n /\ d + m <= n + 1
        BY <3>3, <3>4
      <4>2. LeftIn(n, s, link, d, m, newFirst, new)
        BY <3>3, <3>7, <3>8, <3>9, <4>1 DEF LeftIn
      <4>3. Segment(s, d, m) \in [Nat -> Pointer] /\ Chain(m, Segment(s, d, m), newFirst, new)
        BY <3>6, <4>2, SegmentChain
      <4>4. Members(Segment(s, d, m), m, s, d..(d + m - 1))
        BY <3>6, <4>2, SegmentChain
      <4> QED
        BY <4>3, <4>4
    <3> HIDE DEF t
    <3>11. PICK I \in SUBSET (1..n) : I = d..(d + m - 1)
      BY <3>3, <3>4
    <3>12. Listed(s, I)'
      <4>1. (c + 1)..(a - 1) = I
        BY <3>3, <3>4, <3>11
      <4> QED
        BY <4>1, <1>6
    <3>13. freeRegionNum' = m
      BY <3>3, <1>3
    <3>14. Chain(m, t, freedHead', freedNext')
      BY <3>5, <3>10
    <3>15. Members(t, m, s, I)
      BY <3>10, <3>11
    <3>16. Freed'
      BY <2>3, <3>3, <3>10, <3>11, <3>12, <3>13, <3>14, <3>15, EndedFreed
    <3>17. Left(m, Segment(s, d, m))
      BY <3>14 DEF Left, t
    <3>18. m = a - c - 1 /\ d = c + 1
      BY <3>3, <3>4
    <3> QED
      BY <3>16, <3>17, <3>18
  <2> QED
    BY <2>1, <2>2, <2>3 DEF Take
<1> QED
  BY <1>7, <1>8

LEMMA TakeIInv ==
  ASSUME ConstantsOK, IInv, Take PROVE IInv'
<1>1. TypeOK /\ Links /\ Freed
  BY DEF IInv
<1>2. InUse' = InUse
  BY DEF Take, InUse, order
<1>3. PICK n \in Nat, s \in [Nat -> Pointer] :
        /\ Chain(n, s, freedHead, freedNext)
        /\ \A i \in 1..n : s[i] \in InUse
        /\ Walking(n, s)
  BY <1>1 DEF Freed
<1>4. Freed' /\ cur \in Region
  <2>1. walk = "refill"
    BY DEF Take
  <2>2. \A i \in 1..n : s[i] \in Region
    BY <1>3 DEF InUse
  <2>3. CASE ~isCycle
    <3>4. PICK a \in 1..n : \E c \in a..n :
            /\ start = s[a] /\ before = s[a - 1] /\ cur = s[c]
            /\ freeRegionNum = n - (c - a)
            /\ Listed(s, (1..n) \ (a..(c - 1)))
      BY <2>1, <2>3, <1>3 DEF Walking
    <3>1. PICK c \in a..n :
            /\ start = s[a] /\ before = s[a - 1] /\ cur = s[c]
            /\ freeRegionNum = n - (c - a)
            /\ Listed(s, (1..n) \ (a..(c - 1)))
      BY <3>4
    <3>2. Freed'
      BY <2>3, <3>1, <1>1, <1>2, <1>3, TakeStraight
    <3>3. c \in 1..n
      OBVIOUS
    <3> QED
      BY <2>2, <3>1, <3>2, <3>3
  <2>4. CASE isCycle
    <3>4. PICK a \in 1..n : \E c \in 1..(a - 1) :
            /\ start = s[a] /\ before = s[a - 1] /\ cur = s[c]
            /\ freeRegionNum = a - c
            /\ Listed(s, c..(a - 1))
      BY <2>1, <2>4, <1>3 DEF Walking
    <3>1. PICK c \in 1..(a - 1) :
            /\ start = s[a] /\ before = s[a - 1] /\ cur = s[c]
            /\ freeRegionNum = a - c
            /\ Listed(s, c..(a - 1))
      BY <3>4
    <3>2. Freed'
      BY <2>4, <3>1, <1>1, <1>2, <1>3, TakeAround
    <3>3. c \in 1..n
      OBVIOUS
    <3> QED
      BY <2>2, <3>1, <3>2, <3>3
  <2> QED
    BY <2>3, <2>4
<1>5. TypeOK'
  <2>1. freedNext \in [Region -> Pointer] /\ freedHead \in Pointer /\ Null \in Pointer
    BY <1>1 DEF TypeOK, Pointer
  <2>2. freedNext[cur] \in Pointer /\ Following(cur) \in Pointer
    BY <2>1, <1>4 DEF Following
  <2>3. freedNext' \in [Region -> Pointer] /\ freedHead' \in Pointer
    BY <2>1, <2>2 DEF Take, Relink
  <2>4. /\ cur' \in Pointer /\ before' \in Pointer /\ start' \in Pointer
        /\ walk' \in {"none", "refill", "release"} /\ isCycle' \in BOOLEAN
    BY <1>1, <2>1, <2>2 DEF TypeOK, Take, EndLoop
  <2>5. inFreeList' \in [Region -> BOOLEAN]
    BY <1>1 DEF TypeOK, Take
  <2> QED
    BY <1>1, <2>3, <2>4, <2>5 DEF TypeOK, Take, order
<1>6. Links'
  BY <1>1, <1>2 DEF Links, Take, order
<1> QED
  BY <1>4, <1>5, <1>6 DEF IInv

------------------------------------------------------------------------------
(* The release *)

LEMMA DropLinks ==
  ASSUME ConstantsOK, TypeOK, Links, Drop, cur \in InUse
  PROVE  Links' /\ InUse' = InUse \ {cur}
<1>1. /\ Region \subseteq Nat /\ Null = 0 /\ Null \notin Region /\ Pointer \subseteq Nat
      /\ InUse \subseteq Region /\ InUse \subseteq Nat
      /\ next \in [Region -> Nat] /\ prev \in [Region -> Nat] /\ head \in Nat
  BY Types
<1>2. InUse' = InUse \ {cur}
  BY DEF Drop, InUse, TypeOK
<1>3. PICK S, first, up, down, r, newFirst, newUp, newDown :
        /\ S = InUse /\ first = head /\ up = next /\ down = prev /\ r = cur
        /\ newFirst = head' /\ newUp = next' /\ newDown = prev'
  OBVIOUS
<1>4. S \in SUBSET Nat /\ S \subseteq Region /\ first \in Nat /\ r \in S
  BY <1>1, <1>3
<1>5. up \in [Region -> Nat] /\ down \in [Region -> Nat] /\ Ordered(S, first, up, down)
  BY <1>1, <1>3 DEF Links
<1>6. newFirst = IF down[r] = Null THEN up[r] ELSE first
  BY <1>3 DEF Drop, DeleteFromList
<1>7. \A q \in S : q # r => newUp[q] = IF q = down[r] THEN up[r] ELSE up[q]
  BY <1>3, <1>4 DEF Drop, DeleteFromList
<1>8. \A q \in S : q # r => newDown[q] = IF q = up[r] THEN down[r] ELSE down[q]
  BY <1>3, <1>4 DEF Drop, DeleteFromList
<1>9. Ordered(S \ {r}, newFirst, newUp, newDown)
  <2>1. Unlinked(S, first, up, down, r, newFirst, newUp, newDown)
    BY <1>4, <1>6, <1>7, <1>8 DEF Unlinked
  <2> QED
    BY <1>4, <1>5, <2>1, OrderedDeleted
<1>10. \A q \in Region \ InUse' : next'[q] = Null
  <2> SUFFICES ASSUME NEW q \in Region \ InUse' PROVE next'[q] = Null
    OBVIOUS
  <2>1. next'[q] = IF q = cur THEN Null ELSE IF q = prev[cur] THEN next[cur] ELSE next[q]
    BY DEF Drop, DeleteFromList
  <2>2. CASE q = cur
    BY <2>1, <2>2
  <2>3. CASE q # cur
    <3>1. q \notin InUse /\ next[q] = Null
      BY <2>3, <1>2 DEF Links
    <3>2. prev[cur] = Null \/ prev[cur] \in InUse
      BY DEF Links, Ordered, Below
    <3>3. q # prev[cur]
      BY <3>1, <3>2, <1>1
    <3> QED
      BY <2>1, <2>3, <3>1, <3>3
  <2> QED
    BY <2>2, <2>3
<1> QED
  BY <1>2, <1>3, <1>9, <1>10 DEF Links

(* The freed list loses the region at a. *)
LEMMA DropChain ==
  ASSUME ConstantsOK, TypeOK, Drop, NEW n \in Nat, NEW s \in [Nat -> Pointer],
         Chain(n, s, freedHead, freedNext), \A i \in 1..n : s[i] \in InUse,
         NEW a \in 1..n, cur = s[a], before = s[a - 1],
         NEW d, d = a + 1, NEW m, m = n - 1
  PROVE  /\ m \in Nat
         /\ Without(s, a, d) \in [Nat -> Pointer]
         /\ Chain(m, Without(s, a, d), freedHead', freedNext')
         /\ Members(Without(s, a, d), m, s, (1..n) \ (a..(d - 1)))
<1>1. /\ \A i \in Nat : s[i] = Null <=> i \notin 1..n
      /\ \A i, j \in 1..n : s[i] = s[j] => i = j
      /\ freedHead = s[1]
      /\ \A i \in 1..n : freedNext[s[i]] = s[i + 1]
  BY DEF Chain
<1>2. cur \in Region /\ Null \notin Region /\ InUse \subseteq Region
  BY Types
<1>3. freedNext[cur] = s[d]
  BY <1>1
<1>4. PICK new, first, link, newFirst :
        new = freedNext' /\ first = freedHead /\ link = freedNext /\ newFirst = freedHead'
  OBVIOUS
<1>5. before = Null <=> a = 1
  BY <1>1
<1>6. newFirst = IF a = 1 THEN s[d] ELSE first
  BY <1>1, <1>3, <1>4, <1>5 DEF Drop
<1>7. \A i \in 1..n : i < a - 1 \/ i >= d => new[s[i]] = link[s[i]]
  <2> SUFFICES ASSUME NEW i \in 1..n, i < a - 1 \/ i >= d PROVE new[s[i]] = link[s[i]]
    OBVIOUS
  <2>1. s[i] \in Region /\ s[i] # cur
    <3>1. i # a
      OBVIOUS
    <3> QED
      BY <3>1, <1>1, <1>2
  <2>2. s[i] # before
    <3>1. CASE a = 1
      BY <2>1, <3>1, <1>2, <1>5
    <3>2. CASE a # 1
      <4>1. a - 1 \in 1..n /\ i # a - 1
        BY <3>2
      <4> QED
        BY <4>1, <1>1
    <3> QED
      BY <3>1, <3>2
  <2> QED
    BY <2>1, <2>2, <1>4 DEF Drop
<1>8. a > 1 => new[s[a - 1]] = s[d]
  <2> SUFFICES ASSUME a > 1 PROVE new[s[a - 1]] = s[d]
    OBVIOUS
  <2>1. a - 1 \in 1..n /\ a - 1 # a
    OBVIOUS
  <2>2. s[a - 1] \in Region /\ s[a - 1] # cur
    BY <2>1, <1>1, <1>2
  <2> QED
    BY <2>2, <1>3, <1>4 DEF Drop
<1>9. LeftOut(n, s, first, link, a, d, m, newFirst, new)
  <2>1. a \in 1..n /\ d \in (a + 1)..(n + 1) /\ m = n - (d - a)
    OBVIOUS
  <2> QED
    BY <2>1, <1>6, <1>7, <1>8 DEF LeftOut
<1>10. Chain(n, s, first, link)
  BY <1>4
<1>11. /\ m \in Nat /\ Without(s, a, d) \in [Nat -> Pointer]
       /\ Chain(m, Without(s, a, d), newFirst, new)
  BY <1>9, <1>10, WithoutChain
<1>12. Members(Without(s, a, d), m, s, (1..n) \ (a..(d - 1)))
  BY <1>9, <1>10, WithoutChain
<1> QED
  BY <1>4, <1>11, <1>12

LEMMA DropIInv ==
  ASSUME ConstantsOK, IInv, Drop PROVE IInv' /\ cur \in InUse
<1>1. TypeOK /\ Links /\ Freed
  BY DEF IInv
<1>2. PICK n \in Nat, s \in [Nat -> Pointer] :
        /\ Chain(n, s, freedHead, freedNext)
        /\ \A i \in 1..n : s[i] \in InUse
        /\ Walking(n, s)
  BY <1>1 DEF Freed
<1>3. Listed(s, 1..n) /\ freeRegionNum = n
  BY <1>2 DEF Walking, Drop
<1>4. PICK a \in 1..(n + 1) : cur = s[a] /\ before = s[a - 1]
  BY <1>2 DEF Walking, Drop
<1>5. /\ \A i \in Nat : s[i] = Null <=> i \notin 1..n
      /\ \A i, j \in 1..n : s[i] = s[j] => i = j
      /\ freedHead = s[1]
      /\ \A i \in 1..n : freedNext[s[i]] = s[i + 1]
  BY <1>2 DEF Chain
<1>6. a \in 1..n
  <2>1. cur # Null
    BY DEF Drop
  <2> QED
    BY <2>1, <1>4, <1>5
<1>7. cur \in InUse /\ cur \in Region /\ Null \notin Region /\ InUse \subseteq Region
  BY <1>1, <1>2, <1>4, <1>6, Types
<1>8. Links' /\ InUse' = InUse \ {cur}
  BY <1>1, <1>7, DropLinks
<1>9. freedNext[cur] = s[a + 1]
  BY <1>4, <1>5, <1>6
<1>10. TypeOK'
  <2>1. freedNext \in [Region -> Pointer] /\ freedHead \in Pointer /\ Null \in Pointer
    BY <1>1 DEF TypeOK, Pointer
  <2>2. freedNext' \in [Region -> Pointer] /\ freedHead' \in Pointer /\ cur' \in Pointer
    BY <2>1, <1>7 DEF Drop
  <2>3. next \in [Region -> Pointer] /\ prev \in [Region -> Pointer] /\ head \in Pointer
    BY <1>1 DEF TypeOK
  <2>4. next' \in [Region -> Pointer] /\ prev' \in [Region -> Pointer] /\ head' \in Pointer
    BY <2>1, <2>3, <1>7 DEF Drop, DeleteFromList
  <2>5. inFreeList' \in [Region -> BOOLEAN] /\ status' \in [Region -> {0, 1}]
    BY <1>1 DEF TypeOK, Drop
  <2> QED
    BY <1>1, <2>2, <2>4, <2>5 DEF TypeOK, Drop
<1>11. Freed'
  <2>1. PICK d, m : d = a + 1 /\ m = n - 1
    OBVIOUS
  <2> DEFINE t == Without(s, a, d)
  <2>8. /\ m \in Nat /\ t \in [Nat -> Pointer]
        /\ Chain(m, t, freedHead', freedNext')
    BY <2>1, <1>1, <1>2, <1>4, <1>6, DropChain
  <2>9. Members(t, m, s, (1..n) \ (a..(d - 1)))
    BY <2>1, <1>1, <1>2, <1>4, <1>6, DropChain
  <2>10. t[a] = s[a + 1] /\ t[a - 1] = s[a - 1]
    <3>1. a + d - a = a + 1
      BY <2>1
    <3> QED
      BY <3>1 DEF Without
  <2> HIDE DEF t
  <2>11. Chain(m, t, freedHead', freedNext')
    BY <2>8
  <2>12. \A i \in (1..n) \ (a..(d - 1)) : i \in 1..n /\ i # a
    BY <2>1
  <2>13. \A j \in 1..m : t[j] \in InUse'
    <3> SUFFICES ASSUME NEW j \in 1..m PROVE t[j] \in InUse'
      OBVIOUS
    <3>1. PICK i \in (1..n) \ (a..(d - 1)) : s[i] = t[j]
      BY <2>9 DEF Members
    <3>2. i \in 1..n /\ i # a
      BY <2>12
    <3>3. s[i] \in InUse /\ s[i] # s[a]
      BY <3>2, <1>2, <1>5, <1>6
    <3> QED
      BY <3>1, <3>3, <1>4, <1>8
  <2>14. Listed(t, 1..m)'
    <3> SUFFICES ASSUME NEW r \in Region
                 PROVE  inFreeList'[r] <=> \E j \in 1..m : t[j] = r
      BY DEF Listed
    <3>1. inFreeList' = [inFreeList EXCEPT ![cur] = FALSE] /\ inFreeList \in [Region -> BOOLEAN]
      BY <1>1 DEF Drop, TypeOK
    <3>2. inFreeList[r] <=> \E i \in 1..n : s[i] = r
      BY <1>3 DEF Listed
    <3>3. CASE r = cur
      <4>1. ASSUME NEW i \in (1..n) \ (a..(d - 1)), s[i] = r PROVE FALSE
        BY <3>3, <4>1, <2>12, <1>4, <1>5, <1>6
      <4> QED
        BY <3>1, <3>3, <4>1, <2>9 DEF Members
    <3>4. CASE r # cur
      <4>1. ASSUME NEW i \in 1..n, s[i] = r PROVE i \in (1..n) \ (a..(d - 1))
        <5>1. i # a
          BY <3>4, <4>1, <1>4
        <5> QED
          BY <5>1, <2>1
      <4>2. (\E i \in 1..n : s[i] = r) <=> \E i \in (1..n) \ (a..(d - 1)) : s[i] = r
        BY <4>1
      <4>3. inFreeList'[r] = inFreeList[r]
        BY <3>1, <3>4
      <4> QED
        BY <3>2, <4>2, <4>3, <2>9 DEF Members
    <3> QED
      BY <3>3, <3>4
  <2>15. freeRegionNum' = m
    BY <2>1, <1>3 DEF Drop, OneLess
  <2>16. Walking(m, t)'
    <3>1. a \in 1..(m + 1)
      BY <2>1, <1>6
    <3>2. cur' = t[a] /\ before' = t[a - 1] /\ walk' = "release"
      BY <2>10, <1>4, <1>9 DEF Drop
    <3> QED
      BY <2>14, <2>15, <3>1, <3>2 DEF Walking
  <2> QED
    BY <2>8, <2>11, <2>13, <2>16 DEF Freed
<1> QED
  BY <1>7, <1>8, <1>10, <1>11 DEF IInv

LEMMA PassIInv ==
  ASSUME ConstantsOK, IInv, Pass PROVE IInv'
<1>1. TypeOK /\ Links /\ Freed
  BY DEF IInv
<1>2. InUse' = InUse
  BY DEF Pass, InUse, order
<1>3. PICK n \in Nat, s \in [Nat -> Pointer] :
        /\ Chain(n, s, freedHead, freedNext)
        /\ \A i \in 1..n : s[i] \in InUse
        /\ Walking(n, s)
  BY <1>1 DEF Freed
<1>4. Listed(s, 1..n) /\ freeRegionNum = n
  BY <1>3 DEF Walking, Pass
<1>5. PICK a \in 1..(n + 1) : cur = s[a] /\ before = s[a - 1]
  BY <1>3 DEF Walking, Pass
<1>6. a \in 1..n /\ freedNext[s[a]] = s[a + 1]
  <2>1. cur # Null
    BY DEF Pass
  <2> QED
    BY <2>1, <1>3, <1>5 DEF Chain
<1>7. Freed'
  <2>1. PICK b \in 1..(n + 1) : b = a + 1
    BY <1>6
  <2>2. cur' = s[b] /\ before' = s[b - 1]
    BY <2>1, <1>5, <1>6 DEF Pass
  <2>3. Walking(n, s)'
    BY <2>2, <1>4 DEF Walking, Listed, Pass, freed
  <2>4. Chain(n, s, freedHead', freedNext')
    BY <1>3 DEF Pass, freed
  <2> QED
    BY <2>3, <2>4, <1>2, <1>3 DEF Freed
<1>8. TypeOK'
  <2>1. cur \in Region /\ freedNext \in [Region -> Pointer]
    BY <1>1, <1>3, <1>5, <1>6 DEF InUse, TypeOK
  <2>2. cur' \in Pointer /\ before' \in Pointer
    BY <2>1, <1>1 DEF TypeOK, Pass
  <2> QED
    BY <2>2, <1>1 DEF TypeOK, Pass, order, freed
<1>9. Links'
  BY <1>1, <1>2 DEF Links, Pass, order
<1> QED
  BY <1>7, <1>8, <1>9 DEF IInv

LEMMA EndIInv ==
  ASSUME ConstantsOK, IInv, End PROVE IInv'
<1>1. TypeOK /\ Links /\ Freed
  BY DEF IInv
<1>2. InUse' = InUse
  BY DEF End, InUse, order
<1>3. PICK n \in Nat, s \in [Nat -> Pointer] :
        /\ Chain(n, s, freedHead, freedNext)
        /\ \A i \in 1..n : s[i] \in InUse
        /\ Walking(n, s)
  BY <1>1 DEF Freed
<1>4. Listed(s, 1..n) /\ freeRegionNum = n
  BY <1>3 DEF Walking, End
<1>5. Freed'
  <2>1. Walking(n, s)'
    BY <1>4 DEF Walking, Listed, End, EndLoop, freed
  <2>2. Chain(n, s, freedHead', freedNext')
    BY <1>3 DEF End, freed
  <2> QED
    BY <2>1, <2>2, <1>2, <1>3 DEF Freed
<1>6. TypeOK'
  BY <1>1 DEF TypeOK, End, EndLoop, order, freed, Pointer
<1>7. Links'
  BY <1>1, <1>2 DEF Links, End, order
<1> QED
  BY <1>5, <1>6, <1>7 DEF IInv

LEMMA StutterIInv ==
  ASSUME IInv, UNCHANGED vars PROVE IInv'
<1>1. InUse' = InUse
  BY DEF InUse, vars, order
<1>2. TypeOK' /\ Links'
  BY <1>1 DEF IInv, TypeOK, Links, vars, order, freed, loop
<1>3. Freed'
  BY <1>1 DEF IInv, Freed, Walking, Listed, vars, freed, loop
<1> QED
  BY <1>2, <1>3 DEF IInv

LEMMA StepIInv == ConstantsOK /\ IInv /\ [Next]_vars => IInv'
<1> SUFFICES ASSUME ConstantsOK, IInv, [Next]_vars PROVE IInv'
  OBVIOUS
<1>1. CASE \E r \in Region : NewRegion(r)
  BY <1>1, NewRegionIInv
<1>2. CASE \E r \in Region : Free(r)
  BY <1>2, FreeIInv
<1>3. CASE BeginRefill
  BY <1>3, BeginRefillIInv
<1>4. CASE Take
  BY <1>4, TakeIInv
<1>5. CASE Drop
  BY <1>5, DropIInv
<1>6. CASE Pass
  BY <1>6, PassIInv
<1>7. CASE End
  BY <1>7, EndIInv
<1>8. CASE UNCHANGED vars
  BY <1>8, StutterIInv
<1> QED
  BY <1>1, <1>2, <1>3, <1>4, <1>5, <1>6, <1>7, <1>8 DEF Next

------------------------------------------------------------------------------
(* The order of the links *)

LEMMA LeastIs ==
  ASSUME NEW S \in SUBSET Nat, NEW x \in S, \A y \in S : x <= y
  PROVE  Min(S) = x
<1> DEFINE m == CHOOSE z \in S : \A y \in S : z <= y
<1>1. m \in S /\ \A y \in S : m <= y
  OBVIOUS
<1>2. m = x
  <2> HIDE DEF m
  <2>1. m \in Nat /\ x \in Nat /\ m <= x /\ x <= m
    BY <1>1
  <2> QED
    BY <2>1
<1> QED
  BY <1>2 DEF Min

LEMMA GreatestIs ==
  ASSUME NEW S \in SUBSET Nat, NEW x \in S, \A y \in S : y <= x
  PROVE  Max(S) = x
<1> DEFINE m == CHOOSE z \in S : \A y \in S : z >= y
<1>1. m \in S /\ \A y \in S : m >= y
  OBVIOUS
<1>2. m = x
  <2> HIDE DEF m
  <2>1. m \in Nat /\ x \in Nat /\ m <= x /\ x <= m
    BY <1>1
  <2> QED
    BY <2>1
<1> QED
  BY <1>2 DEF Max

LEMMA InvOrdered ==
  ConstantsOK /\ IInv => OrderedBothWays
<1> SUFFICES ASSUME ConstantsOK, IInv PROVE OrderedBothWays
  OBVIOUS
<1>1. /\ Null = 0 /\ Null \notin Region /\ InUse \subseteq Region /\ InUse \subseteq Nat
      /\ Ordered(InUse, head, next, prev)
  BY Types DEF IInv, Links
<1>2. head = IF InUse = {} THEN Null ELSE Min(InUse)
  <2>1. Above(InUse, Null, head)
    BY <1>1 DEF Ordered
  <2>2. CASE head = Null
    <3>1. ASSUME NEW q \in InUse PROVE FALSE
      <4>1. q \in Nat /\ q # 0 /\ q <= Null
        BY <2>1, <2>2, <1>1 DEF Above
      <4> QED
        BY <4>1, <1>1
    <3> QED
      BY <2>2, <3>1
  <2>3. CASE head # Null
    <3>1. PICK S, x : S = InUse /\ x = head
      OBVIOUS
    <3>2. x \in S /\ S \in SUBSET Nat
      BY <2>1, <2>3, <3>1, <1>1 DEF Above
    <3>3. ASSUME NEW y \in S PROVE x <= y
      <4>1. y \in Nat /\ y # 0 /\ (y <= Null \/ x <= y)
        BY <2>1, <2>3, <3>1, <1>1 DEF Above
      <4> QED
        BY <4>1, <1>1
    <3>4. Min(S) = x
      BY <3>2, <3>3, LeastIs
    <3> QED
      BY <3>1, <3>2, <3>4
  <2> QED
    BY <2>2, <2>3
<1>3. ASSUME NEW r \in InUse
      PROVE  next[r] = IF {q \in InUse : q > r} = {} THEN Null ELSE Min({q \in InUse : q > r})
  <2>1. PICK S, x : S = {q \in InUse : q > r} /\ x = next[r]
    OBVIOUS
  <2>2. Above(InUse, r, x) /\ r \in Nat
    BY <2>1, <1>1 DEF Ordered
  <2>3. CASE x = Null
    <3>1. ASSUME NEW q \in S PROVE FALSE
      <4>1. q \in Nat /\ q > r /\ q <= r
        BY <2>1, <2>2, <2>3, <1>1 DEF Above
      <4> QED
        BY <4>1, <2>2
    <3>2. S = {}
      BY <3>1
    <3> QED
      BY <2>1, <2>3, <3>2
  <2>4. CASE x # Null
    <3>1. x \in InUse /\ r < x /\ \A q \in InUse : q <= r \/ x <= q
      BY <2>2, <2>4 DEF Above
    <3>2. x \in S /\ S \in SUBSET Nat
      BY <2>1, <2>2, <3>1, <1>1
    <3>3. ASSUME NEW y \in S PROVE x <= y
      <4>1. y \in Nat /\ y > r /\ (y <= r \/ x <= y)
        BY <2>1, <3>1, <1>1
      <4> QED
        BY <4>1, <2>2
    <3>4. Min(S) = x
      BY <3>2, <3>3, LeastIs
    <3>5. S # {}
      BY <3>2
    <3> QED
      BY <2>1, <3>4, <3>5
  <2> QED
    BY <2>3, <2>4
<1>4. ASSUME NEW r \in InUse
      PROVE  prev[r] = IF {q \in InUse : q < r} = {} THEN Null ELSE Max({q \in InUse : q < r})
  <2>1. PICK S, x : S = {q \in InUse : q < r} /\ x = prev[r]
    OBVIOUS
  <2>2. Below(InUse, r, x) /\ r \in Nat
    BY <2>1, <1>1 DEF Ordered
  <2>3. CASE x = Null
    <3>1. ASSUME NEW q \in S PROVE FALSE
      <4>1. q \in Nat /\ q < r /\ r <= q
        BY <2>1, <2>2, <2>3, <1>1 DEF Below
      <4> QED
        BY <4>1, <2>2
    <3>2. S = {}
      BY <3>1
    <3> QED
      BY <2>1, <2>3, <3>2
  <2>4. CASE x # Null
    <3>1. x \in InUse /\ x < r /\ \A q \in InUse : q <= x \/ r <= q
      BY <2>2, <2>4 DEF Below
    <3>2. x \in S /\ S \in SUBSET Nat
      BY <2>1, <2>2, <3>1, <1>1
    <3>3. ASSUME NEW y \in S PROVE y <= x
      <4>1. y \in Nat /\ y < r /\ (y <= x \/ r <= y)
        BY <2>1, <3>1, <1>1
      <4> QED
        BY <4>1, <2>2
    <3>4. Max(S) = x
      BY <3>2, <3>3, GreatestIs
    <3>5. S # {}
      BY <3>2
    <3> QED
      BY <2>1, <3>4, <3>5
  <2> QED
    BY <2>3, <2>4
<1> QED
  BY <1>2, <1>3, <1>4 DEF OrderedBothWays

(* The links of SuperPoolsRegionList lead to the nearest region in use, both *)
(* ways (insertInOrder, deleteFromList), whatever a refill or a release has  *)
(* done to the other list meanwhile.                                       *)
THEOREM OrderedBothWaysAlways ==
  ASSUME ConstantsOK PROVE Spec => []OrderedBothWays
<1>1. Init => IInv
  BY InitIInv
<1>2. IInv /\ [Next]_vars => IInv'
  BY StepIInv
<1>3. IInv => OrderedBothWays
  BY InvOrdered
<1> QED
  BY <1>1, <1>2, <1>3, PTL DEF Spec

------------------------------------------------------------------------------
(* The shadow that is given back *)

LEMMA Division ==
  ASSUME NEW n \in Nat, NEW d \in Nat \ {0}
  PROVE  /\ n \div d \in Nat
         /\ d * (n \div d) <= n
         /\ n < d * (n \div d) + d
<1>1. n \in Int /\ d \in Int /\ d > 0
  OBVIOUS
<1>2. n = d * (n \div d) + (n % d)
  BY <1>1, Z3
<1>3. n % d \in 0..(d - 1) /\ n \div d \in Int
  BY <1>1
<1>4. n \div d >= 0
  BY <1>1, Z3
<1> QED
  BY <1>2, <1>3, <1>4

(* A quotient is determined by the multiples around the number. *)
LEMMA Multiples ==
  ASSUME NEW a \in Nat, NEW b \in Nat, NEW d \in Nat \ {0}, d * a < d * b + d
  PROVE  a <= b
<1> SUFFICES ASSUME a > b PROVE FALSE
  OBVIOUS
<1>1. PICK e \in Nat : a = b + 1 + e
  <2>1. a - b - 1 \in Nat /\ a = b + 1 + (a - b - 1)
    OBVIOUS
  <2> QED
    BY <2>1
<1>2. d * a = d * b + d + d * e
  BY <1>1
<1>3. d * e \in Nat /\ d * b \in Nat
  OBVIOUS
<1> QED
  BY <1>2, <1>3

LEMMA Smaller ==
  ASSUME NEW a \in Nat, NEW b \in Nat, NEW d \in Nat \ {0}, a <= b
  PROVE  a \div d <= b \div d
<1>1. PICK q : q = a \div d
  OBVIOUS
<1>2. PICK p : p = b \div d
  OBVIOUS
<1>3. q \in Nat /\ d * q <= a
  BY <1>1, Division
<1>4. p \in Nat /\ b < d * p + d
  BY <1>2, Division
<1>5. d * q \in Nat /\ d * p \in Nat
  BY <1>3, <1>4
<1>6. d * q < d * p + d
  BY <1>3, <1>4, <1>5
<1>7. q <= p
  BY <1>3, <1>4, <1>6, Multiples
<1> QED
  BY <1>1, <1>2, <1>7

LEMMA Shadow ==
  ASSUME ConstantsOK, NEW r \in Nat
  PROVE  /\ ShadowBegin(r) \in Nat /\ ShadowEnd(r) \in Nat /\ ShadowBegin(r) < ShadowEnd(r)
         /\ FirstPage(r) \in Nat /\ LastPage(r) \in Nat /\ FirstPage(r) <= LastPage(r)
         /\ ShadowPage * FirstPage(r) <= ShadowBegin(r)
         /\ ShadowBegin(r) < ShadowPage * FirstPage(r) + ShadowPage
         /\ ShadowPage * LastPage(r) <= ShadowEnd(r) - 1
         /\ ShadowEnd(r) - 1 < ShadowPage * LastPage(r) + ShadowPage
         /\ ShadowPage * FirstPage(r) = FirstPage(r) * ShadowPage
         /\ (LastPage(r) + 1) * ShadowPage = ShadowPage * LastPage(r) + ShadowPage
<1>1. RegionShadow \in Nat \ {0} /\ ShadowPage \in Nat \ {0}
  BY DEF ConstantsOK
<1>2. PICK b \in Nat : b = r * RegionShadow
  BY <1>1
<1>3. (r + 1) * RegionShadow = b + RegionShadow
  BY <1>1, <1>2
<1>4. ShadowBegin(r) = b /\ ShadowEnd(r) = b + RegionShadow
  BY <1>2, <1>3 DEF ShadowBegin, ShadowEnd
<1>5. PICK e \in Nat : e = b + RegionShadow - 1
  BY <1>1
<1>6. FirstPage(r) = b \div ShadowPage /\ LastPage(r) = e \div ShadowPage
  <2>1. ShadowEnd(r) - 1 = e
    BY <1>1, <1>4, <1>5
  <2> QED
    BY <2>1, <1>4 DEF FirstPage, LastPage
<1>7. PICK f : f = FirstPage(r)
  OBVIOUS
<1>8. PICK l : l = LastPage(r)
  OBVIOUS
<1>9. f \in Nat /\ ShadowPage * f <= b /\ b < ShadowPage * f + ShadowPage
  BY <1>1, <1>6, <1>7, Division
<1>10. l \in Nat /\ ShadowPage * l <= e /\ e < ShadowPage * l + ShadowPage
  BY <1>1, <1>6, <1>8, Division
<1>11. f <= l
  <2>1. b <= e
    BY <1>1, <1>5
  <2> QED
    BY <2>1, <1>1, <1>6, <1>7, <1>8, Smaller
<1>12. ShadowPage * f = f * ShadowPage /\ (l + 1) * ShadowPage = ShadowPage * l + ShadowPage
  BY <1>1, <1>9, <1>10
<1>13. b < b + RegionShadow /\ b + RegionShadow \in Nat /\ e = (b + RegionShadow) - 1
  BY <1>1, <1>5
<1> QED
  BY <1>4, <1>7, <1>8, <1>9, <1>10, <1>11, <1>12, <1>13

LEMMA ShadowsInOrder ==
  ASSUME ConstantsOK, NEW q \in Nat, NEW r \in Nat, q < r
  PROVE  ShadowEnd(q) <= ShadowBegin(r)
<1>1. RegionShadow \in Nat \ {0}
  BY DEF ConstantsOK
<1>2. PICK e \in Nat : r = q + 1 + e
  <2>1. r - q - 1 \in Nat /\ r = q + 1 + (r - q - 1)
    OBVIOUS
  <2> QED
    BY <2>1
<1>3. r * RegionShadow = (q + 1) * RegionShadow + e * RegionShadow
  BY <1>1, <1>2
<1>4. e * RegionShadow \in Nat /\ (q + 1) * RegionShadow \in Nat
  BY <1>1
<1> QED
  BY <1>3, <1>4 DEF ShadowEnd, ShadowBegin

LEMMA PagesAre ==
  ASSUME ConstantsOK, NEW r \in Nat
  PROVE  PagesOf(r) = FirstPage(r)..LastPage(r)
<1>1. RegionShadow \in Nat \ {0} /\ ShadowPage \in Nat \ {0}
  BY DEF ConstantsOK
<1>2. PICK b, e, f, l : b = ShadowBegin(r) /\ e = ShadowEnd(r) /\ f = FirstPage(r) /\ l = LastPage(r)
  OBVIOUS
<1>3. /\ b \in Nat /\ e \in Nat /\ f \in Nat /\ l \in Nat /\ b < e
      /\ b < ShadowPage * f + ShadowPage
      /\ ShadowPage * l <= e - 1
      /\ f = b \div ShadowPage /\ l = (e - 1) \div ShadowPage
  BY <1>2, Shadow DEF FirstPage, LastPage
<1>4. ASSUME NEW x \in b..(e - 1) PROVE x \div ShadowPage \in f..l
  <2>1. x \in Nat /\ b <= x /\ x <= e - 1 /\ e - 1 \in Nat
    BY <1>3
  <2>2. x \div ShadowPage \in Nat
    BY <2>1, <1>1, Division
  <2>3. f <= x \div ShadowPage
    BY <2>1, <1>1, <1>3, Smaller
  <2>4. x \div ShadowPage <= l
    <3>1. PICK y \in Nat : y = e - 1
      BY <2>1
    <3>2. x \div ShadowPage <= y \div ShadowPage
      BY <2>1, <3>1, <1>1, Smaller
    <3> QED
      BY <3>1, <3>2, <1>3
  <2> QED
    BY <2>2, <2>3, <2>4, <1>3
<1>5. ASSUME NEW g \in f..l PROVE \E x \in b..(e - 1) : g = x \div ShadowPage
  <2>1. CASE g = f
    BY <2>1, <1>3
  <2>2. CASE g # f
    <3>1. g \in Nat /\ f + 1 <= g /\ g <= l
      BY <2>2, <1>3
    <3>2. PICK x \in Nat : x = ShadowPage * g
      BY <3>1, <1>1
    <3>3. b <= x
      <4>1. PICK k \in Nat : g = f + 1 + k
        <5>1. g - f - 1 \in Nat /\ g = f + 1 + (g - f - 1)
          BY <3>1, <1>3
        <5> QED
          BY <5>1
      <4>2. x = ShadowPage * f + ShadowPage + ShadowPage * k
        BY <3>2, <4>1, <1>1, <1>3
      <4>3. ShadowPage * k \in Nat /\ ShadowPage * f \in Nat
        BY <4>1, <1>1, <1>3
      <4> QED
        BY <4>2, <4>3, <1>1, <1>3
    <3>4. x <= e - 1
      <4>1. PICK k \in Nat : l = g + k
        <5>1. l - g \in Nat /\ l = g + (l - g)
          BY <3>1, <1>3
        <5> QED
          BY <5>1
      <4>2. ShadowPage * l = x + ShadowPage * k
        BY <3>1, <3>2, <4>1, <1>1
      <4>3. ShadowPage * k \in Nat
        BY <4>1, <1>1
      <4> QED
        BY <4>2, <4>3, <3>2, <1>3
    <3>5. PICK h : h = x \div ShadowPage
      OBVIOUS
    <3>6. h \in Nat /\ ShadowPage * h <= x /\ x < ShadowPage * h + ShadowPage
      BY <3>5, <1>1, Division
    <3>7. h <= g
      <4>1. ShadowPage * h < ShadowPage * g + ShadowPage
        BY <3>1, <3>2, <3>6, <1>1
      <4> QED
        BY <4>1, <3>1, <3>6, <1>1, Multiples
    <3>8. g <= h
      <4>1. ShadowPage * g < ShadowPage * h + ShadowPage
        BY <3>2, <3>6
      <4> QED
        BY <4>1, <3>1, <3>6, <1>1, Multiples
    <3>9. g = h
      BY <3>1, <3>6, <3>7, <3>8
    <3> QED
      BY <3>3, <3>4, <3>5, <3>9, <1>3
  <2> QED
    BY <2>1, <2>2
<1>6. PagesOf(r) = {x \div ShadowPage : x \in b..(e - 1)}
  BY <1>2 DEF PagesOf
<1>7. PagesOf(r) = f..l
  BY <1>4, <1>5, <1>6
<1> QED
  BY <1>2, <1>7

(* CTReleaseShadowMemory for r between its nearest neighbours p and n in S.  *)
LEMMA ReleasedExact ==
  ASSUME ConstantsOK, NEW S \in SUBSET Nat, 0 \notin S, NEW r \in S,
         NEW p, NEW n, Below(S, r, p), Above(S, r, n)
  PROVE  /\ \A q \in S \ {r} : ShadowReleased(r, p, n) \cap PagesOf(q) = {}
         /\ (\A q \in S \ {r} : PagesOf(q) \cap PagesOf(r) = {})
              => ShadowReleased(r, p, n) = PagesOf(r)
<1>1. ShadowPage \in Nat \ {0} /\ Null = 0
  BY DEF ConstantsOK, Null
<1>2. \A q \in S : q \in Nat
  OBVIOUS
<1>3. PICK f, l : f = FirstPage(r) /\ l = LastPage(r)
  OBVIOUS
<1>4. /\ f \in Nat /\ l \in Nat /\ f <= l /\ PagesOf(r) = f..l
      /\ ShadowPage * f = f * ShadowPage
      /\ (l + 1) * ShadowPage = ShadowPage * l + ShadowPage
  BY <1>3, Shadow, PagesAre
<1>5. ASSUME NEW q \in S \ {r}, NEW g \in ShadowReleased(r, p, n) \cap PagesOf(q) PROVE FALSE
  <2>1. /\ p = Null \/ ShadowEnd(p) <= ShadowPage * f
        /\ n = Null \/ ShadowBegin(n) >= ShadowPage * l + ShadowPage
        /\ g \in f..l
    BY <1>3, <1>4 DEF ShadowReleased
  <2>2. PICK fq, lq : fq = FirstPage(q) /\ lq = LastPage(q)
    OBVIOUS
  <2>3. /\ ShadowBegin(q) \in Nat /\ ShadowEnd(q) \in Nat /\ fq \in Nat /\ lq \in Nat
        /\ ShadowPage * lq <= ShadowEnd(q) - 1
        /\ ShadowBegin(q) < ShadowPage * fq + ShadowPage
        /\ g \in fq..lq
    BY <2>2, <1>2, Shadow, PagesAre
  <2>4. CASE q < r
    <3>1. p # Null /\ p \in S /\ q <= p
      BY <2>4, <1>2 DEF Below
    <3>2. ShadowEnd(q) <= ShadowEnd(p) /\ ShadowEnd(p) \in Nat
      <4>1. CASE q = p
        BY <4>1, <2>3
      <4>2. CASE q # p
        <5>1. q \in Nat /\ p \in Nat /\ q < p
          BY <3>1, <4>2, <1>2
        <5>2. ShadowEnd(q) <= ShadowBegin(p)
          BY <5>1, ShadowsInOrder
        <5>3. ShadowBegin(p) \in Nat /\ ShadowEnd(p) \in Nat /\ ShadowBegin(p) < ShadowEnd(p)
          BY <5>1, Shadow
        <5> QED
          BY <5>2, <5>3, <2>3
      <4> QED
        BY <4>1, <4>2
    <3>3. ShadowPage * lq < ShadowPage * f
      <4>1. ShadowPage * lq \in Nat /\ ShadowPage * f \in Nat
        BY <2>3, <1>1, <1>4
      <4> QED
        BY <4>1, <3>1, <3>2, <2>1, <2>3
    <3>4. PICK k \in Nat : lq = f + k
      <4>1. lq - f \in Nat /\ lq = f + (lq - f)
        BY <2>1, <2>3, <1>4
      <4> QED
        BY <4>1
    <3>5. ShadowPage * lq = ShadowPage * f + ShadowPage * k /\ ShadowPage * k \in Nat
      BY <3>4, <1>1, <1>4
    <3>6. ShadowPage * f \in Nat
      BY <1>1, <1>4
    <3> QED
      BY <3>3, <3>5, <3>6
  <2>5. CASE r < q
    <3>1. n # Null /\ n \in S /\ n <= q
      BY <2>5, <1>2 DEF Above
    <3>2. ShadowBegin(n) <= ShadowBegin(q) /\ ShadowBegin(n) \in Nat
      <4>1. CASE q = n
        BY <4>1, <2>3
      <4>2. CASE q # n
        <5>1. q \in Nat /\ n \in Nat /\ n < q
          BY <3>1, <4>2, <1>2
        <5>2. ShadowEnd(n) <= ShadowBegin(q)
          BY <5>1, ShadowsInOrder
        <5>3. ShadowBegin(n) \in Nat /\ ShadowEnd(n) \in Nat /\ ShadowBegin(n) < ShadowEnd(n)
          BY <5>1, Shadow
        <5> QED
          BY <5>2, <5>3, <2>3
      <4> QED
        BY <4>1, <4>2
    <3>3. ShadowPage * (l + 1) < ShadowPage * fq + ShadowPage
      <4>1. ShadowPage * (l + 1) = ShadowPage * l + ShadowPage /\ ShadowPage * l \in Nat
        BY <1>1, <1>4
      <4>2. ShadowPage * fq \in Nat
        BY <2>3, <1>1
      <4> QED
        BY <4>1, <4>2, <3>1, <3>2, <2>1, <2>3, <1>1
    <3>4. l + 1 <= fq
      <4>1. l + 1 \in Nat
        BY <1>4
      <4> QED
        BY <4>1, <3>3, <2>3, <1>1, Multiples
    <3> QED
      BY <3>4, <2>1, <2>3, <1>4
  <2> QED
    BY <2>4, <2>5, <1>2
<1>6. ASSUME \A q \in S \ {r} : PagesOf(q) \cap PagesOf(r) = {}
      PROVE  ShadowReleased(r, p, n) = PagesOf(r)
  <2>1. ShadowBegin(r) \in Nat /\ ShadowEnd(r) \in Nat /\ ShadowBegin(r) < ShadowEnd(r)
    BY Shadow
  <2>2. ASSUME p # Null, ~(ShadowEnd(p) <= ShadowPage * f) PROVE FALSE
    <3>1. p \in S /\ p \in Nat /\ p < r
      BY <2>2, <1>2 DEF Below
    <3>2. PICK fp, lp, e : fp = FirstPage(p) /\ lp = LastPage(p) /\ e = ShadowEnd(p) - 1
      OBVIOUS
    <3>3. /\ fp \in Nat /\ lp \in Nat /\ fp <= lp /\ PagesOf(p) = fp..lp
          /\ ShadowEnd(p) \in Nat /\ e \in Nat /\ e < ShadowPage * lp + ShadowPage
          /\ lp = e \div ShadowPage
      <4>1. /\ fp \in Nat /\ lp \in Nat /\ fp <= lp
            /\ ShadowEnd(p) \in Nat /\ ShadowBegin(p) \in Nat /\ ShadowBegin(p) < ShadowEnd(p)
            /\ e < ShadowPage * lp + ShadowPage
        BY <3>1, <3>2, Shadow
      <4>2. e \in Nat
        BY <4>1, <3>2
      <4>3. PagesOf(p) = fp..lp
        BY <3>1, <3>2, PagesAre
      <4>4. lp = e \div ShadowPage
        BY <3>2 DEF LastPage
      <4> QED
        BY <4>1, <4>2, <4>3, <4>4
    <3>4. e <= ShadowBegin(r)
      BY <3>1, <3>2, <3>3, <2>1, ShadowsInOrder
    <3>5. lp <= f
      BY <3>3, <3>4, <2>1, <1>1, <1>3, Smaller DEF FirstPage
    <3>6. f <= lp
      <4>1. ShadowPage * f \in Nat
        BY <1>1, <1>4
      <4>2. ShadowPage * f < ShadowPage * lp + ShadowPage
        <5>1. ShadowPage * lp \in Nat
          BY <3>3, <1>1
        <5> QED
          BY <4>1, <5>1, <3>2, <3>3, <2>2, <1>1
      <4> QED
        BY <4>2, <3>3, <1>1, <1>4, Multiples
    <3>7. lp \in PagesOf(p) \cap PagesOf(r)
      BY <3>3, <3>5, <3>6, <1>4
    <3> QED
      BY <3>1, <3>7, <1>6
  <2>3. ASSUME n # Null, ~(ShadowBegin(n) >= ShadowPage * l + ShadowPage) PROVE FALSE
    <3>1. n \in S /\ n \in Nat /\ r < n
      BY <2>3, <1>2 DEF Above
    <3>2. PICK fn, ln, e : fn = FirstPage(n) /\ ln = LastPage(n) /\ e = ShadowEnd(r) - 1
      OBVIOUS
    <3>3. /\ fn \in Nat /\ ln \in Nat /\ fn <= ln /\ PagesOf(n) = fn..ln
          /\ ShadowBegin(n) \in Nat /\ ShadowPage * fn <= ShadowBegin(n)
          /\ fn = ShadowBegin(n) \div ShadowPage
      BY <3>1, <3>2, Shadow, PagesAre DEF FirstPage
    <3>4. e \in Nat /\ e <= ShadowBegin(n) /\ l = e \div ShadowPage
      BY <3>1, <3>2, <3>3, <2>1, <1>3, ShadowsInOrder DEF LastPage
    <3>5. l <= fn
      BY <3>3, <3>4, <1>1, Smaller
    <3>6. fn <= l
      <4>1. ShadowPage * l \in Nat /\ ShadowPage * fn \in Nat
        BY <3>3, <1>1, <1>4
      <4>2. ShadowPage * fn < ShadowPage * l + ShadowPage
        BY <4>1, <3>3, <2>3, <1>1
      <4> QED
        BY <4>2, <3>3, <1>1, <1>4, Multiples
    <3>7. fn \in PagesOf(n) \cap PagesOf(r)
      BY <3>3, <3>5, <3>6, <1>4
    <3> QED
      BY <3>1, <3>7, <1>6
  <2> QED
    BY <2>2, <2>3, <1>3, <1>4 DEF ShadowReleased
<1> QED
  BY <1>5, <1>6

LEMMA StepShadow ==
  ConstantsOK /\ IInv /\ [Next]_vars =>
    [/\ \A r \in InUse' : advised' \cap PagesOf(r) = {}
     /\ \A r \in InUse \ InUse' :
          (\A q \in InUse' : PagesOf(q) \cap PagesOf(r) = {}) => advised' = PagesOf(r)]_vars
<1> SUFFICES ASSUME ConstantsOK, IInv, Next
             PROVE  /\ \A r \in InUse' : advised' \cap PagesOf(r) = {}
                    /\ \A r \in InUse \ InUse' :
                         (\A q \in InUse' : PagesOf(q) \cap PagesOf(r) = {})
                           => advised' = PagesOf(r)
  OBVIOUS
<1>1. TypeOK /\ Links
  BY DEF IInv
<1>2. CASE Drop
  <2>1. cur \in InUse
    BY <1>2, DropIInv
  <2>2. InUse' = InUse \ {cur}
    BY <2>1, <1>1, <1>2, DropLinks
  <2>3. PICK S, r, p, n : S = InUse /\ r = cur /\ p = prev[cur] /\ n = next[cur]
    OBVIOUS
  <2>4. S \in SUBSET Nat /\ 0 \notin S /\ r \in S
    BY <2>1, <2>3, <1>1, Types
  <2>5. Below(S, r, p) /\ Above(S, r, n)
    BY <2>1, <2>3, <1>1 DEF Links, Ordered
  <2>6. /\ \A q \in S \ {r} : ShadowReleased(r, p, n) \cap PagesOf(q) = {}
        /\ (\A q \in S \ {r} : PagesOf(q) \cap PagesOf(r) = {})
             => ShadowReleased(r, p, n) = PagesOf(r)
    BY <2>4, <2>5, ReleasedExact
  <2>7. advised' = ShadowReleased(r, p, n)
    BY <2>3, <1>2 DEF Drop
  <2>8. InUse' = S \ {r} /\ \A q \in InUse \ InUse' : q = r
    BY <2>2, <2>3
  <2> QED
    BY <2>6, <2>7, <2>8
<1>3. CASE ~Drop
  <2>1. advised' = {}
    BY <1>3 DEF Next, NewRegion, Free, BeginRefill, Take, Pass, End
  <2>2. \A r \in Region : status[r] = 1 => status'[r] = 1
    <3>1. CASE \E r \in Region : NewRegion(r)
      <4>1. PICK r \in Region : status[r] = 0 /\ status' = [status EXCEPT ![r] = 1]
        BY <3>1 DEF NewRegion
      <4> QED
        BY <4>1, <1>1 DEF TypeOK
    <3>2. CASE ~\E r \in Region : NewRegion(r)
      BY <3>2, <1>3 DEF Next, Free, BeginRefill, Take, Pass, End, order
    <3> QED
      BY <3>1, <3>2
  <2>3. InUse \ InUse' = {}
    BY <2>2 DEF InUse
  <2> QED
    BY <2>1, <2>3
<1> QED
  BY <1>2, <1>3

(* No shadow of a region in use is given back, and that of a region that     *)
(* goes is, if nobody else has a part of its pages: CTReleaseShadowMemory    *)
(* need look at no more than the two neighbours.                           *)
THEOREM ShadowExactAlways ==
  ASSUME ConstantsOK PROVE Spec => ShadowExact
<1>1. Init => IInv
  BY InitIInv
<1>2. IInv /\ [Next]_vars => IInv'
  BY StepIInv
<1>3. IInv /\ [Next]_vars =>
        [/\ \A r \in InUse' : advised' \cap PagesOf(r) = {}
         /\ \A r \in InUse \ InUse' :
              (\A q \in InUse' : PagesOf(q) \cap PagesOf(r) = {}) => advised' = PagesOf(r)]_vars
  BY StepShadow
<1> QED
  BY <1>1, <1>2, <1>3, PTL DEF Spec, ShadowExact

------------------------------------------------------------------------------
(* The pointers as lists *)

(* The first m regions of s, as a list. *)
Leading(s, m) == [i \in 1..m |-> s[i]]

LEMMA FrontIs ==
  ASSUME NEW m \in Nat, NEW s \in [Nat -> Pointer]
  PROVE  /\ Leading(s, m) \in Seq(Pointer) /\ Len(Leading(s, m)) = m
         /\ DOMAIN Leading(s, m) = 1..m
         /\ \A i \in 1..m : Leading(s, m)[i] = s[i]
<1>1. Leading(s, m) \in [1..m -> Pointer]
  BY DEF Leading
<1>2. Leading(s, m) \in Seq(Pointer)
  BY <1>1, IsASeq
<1> QED
  BY <1>1, <1>2, LenProperties DEF Leading

LEMMA SameFront ==
  ASSUME NEW m \in Nat, NEW s \in [Nat -> Pointer], NEW l \in Seq(Pointer),
         Len(l) = m, \A i \in 1..m : l[i] = s[i]
  PROVE  l = Leading(s, m)
<1>1. PICK k \in Seq(Pointer) : k = Leading(s, m)
  BY FrontIs
<1>2. Len(k) = m /\ \A i \in 1..m : k[i] = s[i]
  BY <1>1, FrontIs
<1>3. l = k
  BY <1>2, SeqEqual
<1> QED
  BY <1>1, <1>3

(* A list of pointers is the chain that they make. *)
LEMMA LinkedIs ==
  ASSUME ConstantsOK, IsFiniteSet(Region), NEW n \in Nat, NEW s, NEW first, NEW link,
         Chain(n, s, first, link)
  PROVE  Linked(first, link) = Leading(s, n)
<1> DEFINE N == Cardinality(Region)
           Def(f) == [i \in 1..(N + 1) |->
                        IF i = 1 THEN first ELSE IF f[i - 1] = Null THEN Null ELSE link[f[i - 1]]]
           at == CHOOSE f : f = Def(f)
<1>1. /\ s \in [Nat -> Pointer]
      /\ \A i \in Nat : s[i] = Null <=> i \notin 1..n
      /\ \A i, j \in 1..n : s[i] = s[j] => i = j
      /\ first = s[1]
      /\ \A i \in 1..n : link[s[i]] = s[i + 1]
  BY DEF Chain
<1>2. N \in Nat /\ n <= N
  <2> DEFINE g == [i \in 1..n |-> s[i]]
  <2>1. \A i \in 1..n : s[i] \in Region
    BY <1>1 DEF Pointer
  <2>2. g \in Injection(1..n, Region)
    BY <1>1, <2>1 DEF Injection, IsInjective
  <2>3. Cardinality(1..n) <= N
    BY <2>2, FS_Injection
  <2>4. Cardinality(1..n) = n
    <3>1. 1 \in Int /\ n \in Int
      OBVIOUS
    <3>2. Cardinality(1..n) = IF 1 > n THEN 0 ELSE n - 1 + 1
      BY <3>1, FS_Interval
    <3> QED
      BY <3>2
  <2> QED
    BY <2>3, <2>4, FS_CardinalityType
<1>3. PICK b \in Nat : b = N
  BY <1>2
<1>4. at = Def(at)
  <2> DEFINE f == [i \in 1..(N + 1) |-> s[i]]
  <2>1. ASSUME NEW i \in 1..(N + 1)
        PROVE  s[i] = IF i = 1 THEN first ELSE IF f[i - 1] = Null THEN Null ELSE link[f[i - 1]]
    <3>1. CASE i = 1
      BY <3>1, <1>1
    <3>2. CASE i # 1
      <4>1. i - 1 \in 1..(N + 1) /\ i - 1 \in Nat /\ (i - 1) + 1 = i /\ i \in Nat
        BY <3>2, <1>3
      <4>2. f[i - 1] = s[i - 1]
        BY <4>1
      <4>3. CASE i - 1 \in 1..n
        <5>1. s[i - 1] # Null /\ link[s[i - 1]] = s[i]
          BY <4>1, <4>3, <1>1
        <5> QED
          BY <3>2, <4>2, <5>1
      <4>4. CASE i - 1 \notin 1..n
        <5>1. i \notin 1..n
          BY <4>1, <4>4, <3>2
        <5>2. s[i - 1] = Null /\ s[i] = Null
          BY <4>1, <4>4, <5>1, <1>1
        <5> QED
          BY <3>2, <4>2, <5>2
      <4> QED
        BY <4>3, <4>4
    <3> QED
      BY <3>1, <3>2
  <2>2. f = Def(f)
    BY <2>1
  <2> HIDE DEF f, Def
  <2> QED
    BY <2>2
<1>5. Linked(first, link) =
        [i \in 1..Cardinality({i \in DOMAIN at : at[i] # Null}) |-> at[i]]
  BY DEF Linked
<1> HIDE DEF at
<1>6. \A i \in 1..(N + 1) : at[i] = s[i]
  <2> DEFINE Bad == {i \in 1..(N + 1) : at[i] # s[i]}
  <2> SUFFICES ASSUME Bad # {} PROVE FALSE
    OBVIOUS
  <2>1. PICK i \in Bad : \A j \in Bad : i <= j
    <3>1. Bad \in SUBSET Nat
      OBVIOUS
    <3> HIDE DEF Bad
    <3> QED
      BY <3>1, Least
  <2>2. i \in 1..(N + 1) /\ at[i] # s[i]
    BY <2>1
  <2>3. at[i] = IF i = 1 THEN first ELSE IF at[i - 1] = Null THEN Null ELSE link[at[i - 1]]
    BY <1>4, <2>2
  <2>4. i # 1
    BY <2>2, <2>3, <1>1
  <2>5. i - 1 \in 1..(N + 1) /\ i - 1 \notin Bad /\ i - 1 \in Nat /\ (i - 1) + 1 = i /\ i \in Nat
    BY <2>1, <2>2, <2>4, <1>3
  <2>6. at[i - 1] = s[i - 1]
    BY <2>5
  <2>7. CASE i - 1 \in 1..n
    <3>1. s[i - 1] # Null /\ link[s[i - 1]] = s[i]
      BY <2>5, <2>7, <1>1
    <3> QED
      BY <2>2, <2>3, <2>4, <2>6, <3>1
  <2>8. CASE i - 1 \notin 1..n
    <3>1. i \notin 1..n
      BY <2>5, <2>8, <2>4
    <3>2. s[i - 1] = Null /\ s[i] = Null
      BY <2>5, <2>8, <3>1, <1>1
    <3> QED
      BY <2>2, <2>3, <2>4, <2>6, <3>2
  <2> QED
    BY <2>7, <2>8
<1>7. {i \in DOMAIN at : at[i] # Null} = 1..n
  <2>1. DOMAIN at = 1..(N + 1)
    BY <1>4
  <2>2. \A i \in 1..(N + 1) : at[i] # Null <=> i \in 1..n
    <3> SUFFICES ASSUME NEW i \in 1..(N + 1) PROVE at[i] # Null <=> i \in 1..n
      OBVIOUS
    <3>1. i \in Nat
      BY <1>3
    <3> QED
      BY <3>1, <1>1, <1>6
  <2>3. 1..n \subseteq 1..(N + 1)
    BY <1>2
  <2> HIDE DEF N
  <2> QED
    BY <2>1, <2>2, <2>3
<1>8. Cardinality(1..n) = n
  <2>1. 1 \in Int /\ n \in Int
    OBVIOUS
  <2>2. Cardinality(1..n) = IF 1 > n THEN 0 ELSE n - 1 + 1
    BY <2>1, FS_Interval
  <2> QED
    BY <2>2
<1>9. Linked(first, link) = [i \in 1..n |-> at[i]]
  BY <1>5, <1>7, <1>8
<1>10. \A i \in 1..n : at[i] = s[i]
  BY <1>2, <1>6
<1> QED
  BY <1>9, <1>10 DEF Leading

LEMMA PlaceIs ==
  ASSUME NEW m \in Nat, NEW t \in [Nat -> Pointer], NEW k \in 1..m,
         \A i \in 1..m : t[i] = t[k] => i = k
  PROVE  Place(Leading(t, m), t[k]) = k
<1> DEFINE j == CHOOSE i \in 1..m : Leading(t, m)[i] = t[k]
<1>1. \A i \in 1..m : Leading(t, m)[i] = t[i]
  BY FrontIs
<1>2. j \in 1..m /\ Leading(t, m)[j] = t[k]
  BY <1>1
<1>3. Place(Leading(t, m), t[k]) = j
  BY FrontIs DEF Place
<1> HIDE DEF j
<1> QED
  BY <1>1, <1>2, <1>3

(* A list without its regions from a on up to the one before c. *)
LEMMA CutOut ==
  ASSUME NEW n \in Nat, NEW s \in [Nat -> Pointer], NEW a \in 1..n, NEW c \in a..(n + 1)
  PROVE  SubSeq(Leading(s, n), 1, a - 1) \o SubSeq(Leading(s, n), c, n)
           = Leading(Without(s, a, c), n - (c - a))
<1> DEFINE F == Leading(s, n)
           t == Without(s, a, c)
           l == SubSeq(F, 1, a - 1)
           r == SubSeq(F, c, n)
<1>1. /\ F \in Seq(Pointer) /\ Len(F) = n
      /\ \A i \in 1..n : F[i] = s[i] /\ F[i] \in Pointer
  BY FrontIs
<1>2. /\ l \in Seq(Pointer) /\ Len(l) = a - 1
      /\ \A i \in 1..(a - 1) : l[i] = s[i]
  <2> HIDE DEF F
  <2>1. 1 \in Int /\ a - 1 \in Int /\ \A i \in 1..(a - 1) : F[i] \in Pointer
    BY <1>1
  <2>2. /\ SubSeq(F, 1, a - 1) \in Seq(Pointer)
        /\ Len(SubSeq(F, 1, a - 1)) = IF 1 <= a - 1 THEN (a - 1) - 1 + 1 ELSE 0
        /\ \A i \in 1..((a - 1) - 1 + 1) : SubSeq(F, 1, a - 1)[i] = F[1 + i - 1]
    BY <2>1, SubSeqProperties
  <2> QED
    BY <2>2, <1>1
<1>3. /\ r \in Seq(Pointer) /\ Len(r) = n - c + 1
      /\ \A i \in 1..(n - c + 1) : r[i] = s[c + i - 1]
  <2> HIDE DEF F
  <2>1. c \in Int /\ n \in Int /\ \A i \in c..n : F[i] \in Pointer
    BY <1>1
  <2>2. /\ SubSeq(F, c, n) \in Seq(Pointer)
        /\ Len(SubSeq(F, c, n)) = IF c <= n THEN n - c + 1 ELSE 0
        /\ \A i \in 1..(n - c + 1) : SubSeq(F, c, n)[i] = F[c + i - 1]
    BY <2>1, SubSeqProperties
  <2> QED
    BY <2>2, <1>1
<1> HIDE DEF l, r
<1>4. /\ l \o r \in Seq(Pointer) /\ Len(l \o r) = n - (c - a)
      /\ \A i \in 1..(n - (c - a)) : (l \o r)[i] = IF i <= a - 1 THEN l[i] ELSE r[i - (a - 1)]
  <2>1. /\ l \o r \in Seq(Pointer)
        /\ Len(l \o r) = Len(l) + Len(r)
        /\ \A i \in 1..(Len(l) + Len(r)) :
             (l \o r)[i] = IF i <= Len(l) THEN l[i] ELSE r[i - Len(l)]
    BY <1>2, <1>3, ConcatProperties
  <2>2. Len(l) + Len(r) = n - (c - a)
    BY <1>2, <1>3
  <2> QED
    BY <2>1, <2>2, <1>2
<1>5. t \in [Nat -> Pointer]
  <2>1. \A j \in Nat : j >= a => j + c - a \in Nat
    OBVIOUS
  <2> QED
    BY <2>1 DEF Without
<1>6. ASSUME NEW i \in 1..(n - (c - a)) PROVE (l \o r)[i] = t[i]
  <2>1. CASE i <= a - 1
    <3>1. (l \o r)[i] = l[i] /\ l[i] = s[i]
      BY <2>1, <1>2, <1>4
    <3>2. t[i] = s[i]
      BY <2>1 DEF Without
    <3> QED
      BY <3>1, <3>2
  <2>2. CASE i > a - 1
    <3>1. i - (a - 1) \in 1..(n - c + 1) /\ c + (i - (a - 1)) - 1 = i + c - a
      BY <2>2
    <3>2. (l \o r)[i] = r[i - (a - 1)] /\ r[i - (a - 1)] = s[i + c - a]
      BY <2>2, <3>1, <1>3, <1>4
    <3>3. t[i] = s[i + c - a]
      BY <2>2 DEF Without
    <3> QED
      BY <3>2, <3>3
  <2>3. i <= a - 1 \/ i > a - 1
    OBVIOUS
  <2> QED
    BY <2>1, <2>2, <2>3, Zenon
<1>7. n - (c - a) \in Nat
  OBVIOUS
<1>8. PICK m \in Nat : m = n - (c - a)
  BY <1>7
<1> HIDE DEF t
<1>9. l \o r = Leading(t, m)
  BY <1>4, <1>5, <1>6, <1>8, SameFront
<1> QED
  BY <1>8, <1>9 DEF l, r, t

(* What of a list is between c and a. *)
LEMMA Between ==
  ASSUME NEW n \in Nat, NEW s \in [Nat -> Pointer], NEW a \in 1..n, NEW c \in 1..(a - 1)
  PROVE  SubSeq(Leading(s, n), c, a - 1) = Leading(Segment(s, c, a - c), a - c)
<1> DEFINE F == Leading(s, n)
           t == Segment(s, c, a - c)
<1>1. \A i \in 1..n : F[i] = s[i] /\ F[i] \in Pointer
  BY FrontIs
<1>2. /\ SubSeq(F, c, a - 1) \in Seq(Pointer) /\ Len(SubSeq(F, c, a - 1)) = a - c
      /\ \A i \in 1..(a - c) : SubSeq(F, c, a - 1)[i] = s[c + i - 1]
  <2> HIDE DEF F
  <2>1. c \in Int /\ a - 1 \in Int /\ \A i \in c..(a - 1) : F[i] \in Pointer
    BY <1>1
  <2>2. /\ SubSeq(F, c, a - 1) \in Seq(Pointer)
        /\ Len(SubSeq(F, c, a - 1)) = IF c <= a - 1 THEN (a - 1) - c + 1 ELSE 0
        /\ \A i \in 1..((a - 1) - c + 1) : SubSeq(F, c, a - 1)[i] = F[c + i - 1]
    BY <2>1, SubSeqProperties
  <2>3. (a - 1) - c + 1 = a - c /\ c <= a - 1
    OBVIOUS
  <2>4. \A i \in 1..(a - c) : c + i - 1 \in 1..n
    OBVIOUS
  <2> QED
    BY <2>2, <2>3, <2>4, <1>1
<1>3. t \in [Nat -> Pointer]
  <2>1. \A j \in 1..(a - c) : j + c - 1 \in Nat
    OBVIOUS
  <2> QED
    BY <2>1 DEF Segment, Pointer
<1>4. \A i \in 1..(a - c) : t[i] = s[c + i - 1]
  <2>1. \A i \in 1..(a - c) : i + c - 1 = c + i - 1 /\ i \in Nat
    OBVIOUS
  <2> QED
    BY <2>1 DEF Segment
<1>5. PICK m \in Nat : m = a - c
  OBVIOUS
<1> HIDE DEF t, F
<1>6. SubSeq(F, c, a - 1) = Leading(t, m)
  <2>1. PICK l \in Seq(Pointer) : l = SubSeq(F, c, a - 1)
    BY <1>2
  <2>2. Len(l) = m /\ \A i \in 1..m : l[i] = t[i]
    BY <2>1, <1>2, <1>4, <1>5
  <2>3. l = Leading(t, m)
    BY <2>2, <1>3, SameFront
  <2> QED
    BY <2>1, <2>3
<1> QED
  BY <1>5, <1>6 DEF t, F

(* The freed list of ClusterLists is l, the loop over it is at k. *)
Shows(l, k) == FreedList = l /\ Cursor = k

(* What ClusterLists has when the pointers lead through s[1] to s[n]: all of   *)
(* it, or what a refill from a to c has not taken yet.                     *)
Displayed(n, s) ==
  /\ walk = "none" => Shows(Leading(s, n), 0)
  /\ \A i \in 1..(n + 1) : walk = "release" /\ cur = s[i] => Shows(Leading(s, n), i)
  /\ \A a \in 1..n : \A c \in a..n :
       walk = "refill" /\ ~isCycle /\ start = s[a] /\ cur = s[c]
         => Shows(Leading(Without(s, a, c), n - (c - a)), a)
  /\ \A a \in 1..n : \A c \in 1..(a - 1) :
       walk = "refill" /\ isCycle /\ start = s[a] /\ cur = s[c]
         => Shows(Leading(Segment(s, c, a - c), a - c), 1)

LEMMA DisplayedIs ==
  ConstantsOK /\ IsFiniteSet(Region)
    => \A n \in Nat : \A s : Chain(n, s, freedHead, freedNext) => Displayed(n, s)
<1> SUFFICES ASSUME ConstantsOK, IsFiniteSet(Region), NEW n \in Nat, NEW s,
                    Chain(n, s, freedHead, freedNext)
             PROVE  Displayed(n, s)
  OBVIOUS
<1>1. /\ s \in [Nat -> Pointer]
      /\ \A i \in Nat : s[i] = Null <=> i \notin 1..n
      /\ \A i, j \in 1..n : s[i] = s[j] => i = j
  BY DEF Chain
<1>2. Linked(freedHead, freedNext) = Leading(s, n)
  <2>1. PICK first, link : first = freedHead /\ link = freedNext
    OBVIOUS
  <2> QED
    BY <2>1, LinkedIs
<1>3. \A k \in 1..n : Place(Leading(s, n), s[k]) = k
  <2> SUFFICES ASSUME NEW k \in 1..n PROVE Place(Leading(s, n), s[k]) = k
    OBVIOUS
  <2>1. \A i \in 1..n : s[i] = s[k] => i = k
    BY <1>1
  <2> QED
    BY <1>1, <2>1, PlaceIs
<1>4. Len(Leading(s, n)) = n
  BY <1>1, FrontIs
<1>5. walk = "none" => Shows(Leading(s, n), 0)
  BY <1>2 DEF Shows, FreedList, Cursor
<1>6. ASSUME NEW i \in 1..(n + 1), walk = "release", cur = s[i] PROVE Shows(Leading(s, n), i)
  <2>1. FreedList = Leading(s, n)
    BY <1>2, <1>6 DEF FreedList
  <2>2. CASE i \in 1..n
    <3>1. cur # Null
      BY <2>2, <1>1, <1>6
    <3>2. Cursor = Place(Leading(s, n), s[i])
      BY <2>1, <3>1, <1>6 DEF Cursor
    <3> QED
      BY <2>1, <2>2, <3>2, <1>3 DEF Shows
  <2>3. CASE i \notin 1..n
    <3>1. cur = Null /\ i = n + 1
      BY <2>3, <1>1, <1>6
    <3>2. Cursor = Len(Leading(s, n)) + 1
      BY <2>1, <3>1, <1>6 DEF Cursor
    <3> QED
      BY <2>1, <3>1, <3>2, <1>4 DEF Shows
  <2> QED
    BY <2>2, <2>3
<1>7. ASSUME NEW a \in 1..n, NEW c \in a..n,
             walk = "refill", ~isCycle, start = s[a], cur = s[c]
      PROVE  Shows(Leading(Without(s, a, c), n - (c - a)), a)
  <2> DEFINE t == Without(s, a, c)
  <2>1. PICK m \in Nat : m = n - (c - a) /\ a \in 1..m
    OBVIOUS
  <2>2. Place(Leading(s, n), cur) = c /\ Place(Leading(s, n), start) = a
    BY <1>3, <1>7
  <2>3. FreedList = SubSeq(Leading(s, n), 1, a - 1) \o SubSeq(Leading(s, n), c, n)
    BY <1>2, <1>4, <1>7, <2>2 DEF FreedList
  <2>4. FreedList = Leading(t, m)
    <3>1. PICK d \in a..(n + 1) : d = c
      OBVIOUS
    <3>2. SubSeq(Leading(s, n), 1, a - 1) \o SubSeq(Leading(s, n), d, n)
            = Leading(Without(s, a, d), n - (d - a))
      BY <1>1, CutOut
    <3> QED
      BY <3>1, <3>2, <2>1, <2>3
  <2>5. t \in [Nat -> Pointer]
    <3>1. \A j \in Nat : j >= a => j + c - a \in Nat
      OBVIOUS
    <3> QED
      BY <3>1, <1>1 DEF Without
  <2>6. t[a] = s[c]
    <3>1. a + c - a = c /\ a \in Nat
      OBVIOUS
    <3> QED
      BY <3>1 DEF Without
  <2>7. \A i \in 1..m : t[i] = t[a] => i = a
    <3> SUFFICES ASSUME NEW i \in 1..m, t[i] = s[c] PROVE i = a
      BY <2>6
    <3>1. CASE i < a
      <4>1. t[i] = s[i]
        BY <3>1 DEF Without
      <4>2. i \in 1..n /\ c \in 1..n
        BY <3>1
      <4>3. i = c
        BY <4>1, <4>2, <1>1
      <4> QED
        BY <4>3, <3>1
    <3>2. CASE i >= a
      <4>1. t[i] = s[i + c - a]
        BY <3>2 DEF Without
      <4>2. i + c - a \in 1..n /\ c \in 1..n
        BY <2>1, <3>2
      <4>3. i + c - a = c
        BY <4>1, <4>2, <1>1
      <4> QED
        BY <4>3
    <3> QED
      BY <3>1, <3>2
  <2> HIDE DEF t
  <2>8. Place(Leading(t, m), t[a]) = a
    BY <2>1, <2>5, <2>7, PlaceIs
  <2>9. cur # Null
    <3>1. c \in 1..n
      OBVIOUS
    <3> QED
      BY <3>1, <1>1, <1>7
  <2>10. Cursor = a
    BY <2>4, <2>6, <2>8, <2>9, <1>7 DEF Cursor
  <2> QED
    BY <2>1, <2>4, <2>10 DEF Shows, t
<1>8. ASSUME NEW a \in 1..n, NEW c \in 1..(a - 1),
             walk = "refill", isCycle, start = s[a], cur = s[c]
      PROVE  Shows(Leading(Segment(s, c, a - c), a - c), 1)
  <2> DEFINE t == Segment(s, c, a - c)
  <2>1. PICK m \in Nat : m = a - c /\ 1 \in 1..m
    OBVIOUS
  <2>2. Place(Leading(s, n), cur) = c /\ Place(Leading(s, n), start) = a
    <3>1. c \in 1..n
      OBVIOUS
    <3> QED
      BY <3>1, <1>3, <1>8
  <2>3. FreedList = SubSeq(Leading(s, n), c, a - 1)
    BY <1>2, <1>8, <2>2 DEF FreedList
  <2>4. FreedList = Leading(t, m)
    BY <2>1, <2>3, <1>1, Between
  <2>5. t \in [Nat -> Pointer]
    <3>1. \A j \in 1..(a - c) : j + c - 1 \in Nat
      OBVIOUS
    <3> QED
      BY <3>1, <1>1 DEF Segment, Pointer
  <2>6. t[1] = s[c]
    <3>1. 1 + c - 1 = c /\ 1 \in Nat
      OBVIOUS
    <3> QED
      BY <3>1, <2>1 DEF Segment
  <2>7. \A i \in 1..m : t[i] = t[1] => i = 1
    <3> SUFFICES ASSUME NEW i \in 1..m, t[i] = s[c] PROVE i = 1
      BY <2>6
    <3>1. t[i] = s[i + c - 1]
      BY <2>1 DEF Segment
    <3>2. i + c - 1 \in 1..n /\ c \in 1..n
      BY <2>1
    <3>3. i + c - 1 = c
      BY <3>1, <3>2, <1>1
    <3> QED
      BY <3>3
  <2> HIDE DEF t
  <2>8. Place(Leading(t, m), t[1]) = 1
    BY <2>1, <2>5, <2>7, PlaceIs
  <2>9. cur # Null
    <3>1. c \in 1..n
      OBVIOUS
    <3> QED
      BY <3>1, <1>1, <1>8
  <2>10. Cursor = 1
    BY <2>4, <2>6, <2>8, <2>9, <1>8 DEF Cursor
  <2> QED
    BY <2>1, <2>4, <2>10 DEF Shows, t
<1> QED
  BY <1>5, <1>6, <1>7, <1>8 DEF Displayed

(* The same after a step. *)
LEMMA DisplayedNext ==
  (ConstantsOK /\ IsFiniteSet(Region)
    => \A n \in Nat : \A s : Chain(n, s, freedHead, freedNext) => Displayed(n, s))'
BY DisplayedIs, PTL

(* head and next lead to the regions in use. *)
LEMMA RegionListIs == ConstantsOK /\ TypeOK /\ Links => RegionList = InUse
<1> SUFFICES ASSUME ConstantsOK, TypeOK, Links PROVE RegionList = InUse
  OBVIOUS
<1>1. Region \subseteq Nat /\ Null = 0 /\ Null \notin Region /\ InUse \subseteq Region
  BY Types
<1>2. Above(InUse, Null, head) /\ \A r \in InUse : Above(InUse, r, next[r]) /\ Below(InUse, r, prev[r])
  BY DEF Links, Ordered
<1>3. ASSUME NEW r \in Region, r = head \/ \E q \in Region : next[q] = r PROVE r \in InUse
  <2>1. CASE r = head
    BY <2>1, <1>1, <1>2 DEF Above
  <2>2. ASSUME NEW q \in Region, next[q] = r PROVE r \in InUse
    <3>1. q \in InUse
      BY <2>2, <1>1 DEF Links
    <3>2. Above(InUse, q, r)
      BY <2>2, <3>1, <1>2
    <3> QED
      BY <3>2, <1>1 DEF Above
  <2> QED
    BY <2>1, <2>2, <1>3
<1>4. ASSUME NEW r \in InUse, r # head PROVE \E q \in Region : next[q] = r
  <2>1. PICK p : p = prev[r]
    OBVIOUS
  <2>2. Below(InUse, r, p) /\ r \in Nat
    BY <2>1, <1>1, <1>2
  <2>3. head \in InUse /\ head <= r
    BY <1>1, <1>2 DEF Above
  <2>4. p # Null
    <3> SUFFICES ASSUME p = Null PROVE FALSE
      OBVIOUS
    <3>1. r <= head
      BY <2>2, <2>3 DEF Below
    <3> QED
      BY <2>3, <3>1, <1>1, <1>4
  <2>5. p \in InUse /\ p < r /\ \A q \in InUse : q <= p \/ r <= q
    BY <2>2, <2>4 DEF Below
  <2>6. PICK m : m = next[p]
    OBVIOUS
  <2>7. Above(InUse, p, m) /\ p \in Nat
    BY <2>5, <2>6, <1>1, <1>2
  <2>8. m # Null
    BY <2>2, <2>5, <2>7 DEF Above
  <2>9. m \in InUse /\ p < m /\ (r <= p \/ m <= r)
    BY <2>7, <2>8 DEF Above
  <2>10. m = r
    <3>1. m \in Nat /\ (m <= p \/ r <= m)
      BY <2>5, <2>9, <1>1
    <3> QED
      BY <2>2, <2>5, <2>7, <2>9, <3>1
  <2> QED
    BY <2>5, <2>6, <2>10, <1>1
<1> QED
  BY <1>1, <1>3, <1>4 DEF RegionList

LEMMA RegionListNext == (ConstantsOK /\ TypeOK /\ Links => RegionList = InUse)'
BY RegionListIs, PTL

------------------------------------------------------------------------------
(* The steps of the lists *)

LEMMA WithoutIs ==
  ASSUME NEW s \in [Nat -> Pointer], NEW a \in Nat \ {0}, NEW d \in Nat, a <= d
  PROVE  Without(s, a, d) \in [Nat -> Pointer]
<1>1. \A j \in Nat : j >= a => j + d - a \in Nat
  OBVIOUS
<1> QED
  BY <1>1 DEF Without

LEMMA RemovedFront ==
  ASSUME NEW n \in Nat, NEW s \in [Nat -> Pointer], NEW a \in 1..n,
         NEW m, m = n - 1, NEW t \in [Nat -> Pointer],
         \A j \in 1..m : t[j] = IF j < a THEN s[j] ELSE s[j + 1]
  PROVE  Lists!RemoveAt(Leading(s, n), a) = Leading(t, m)
<1>1. PICK c \in a..(n + 1) : c = a + 1
  OBVIOUS
<1>2. SubSeq(Leading(s, n), 1, a - 1) \o SubSeq(Leading(s, n), c, n)
        = Leading(Without(s, a, c), n - (c - a))
  BY CutOut
<1>3. Lists!RemoveAt(Leading(s, n), a) = Leading(Without(s, a, c), m)
  <2>1. Len(Leading(s, n)) = n /\ n - (c - a) = m
    BY <1>1, FrontIs
  <2> QED
    BY <1>1, <1>2, <2>1 DEF Lists!RemoveAt
<1>4. \A j \in 1..m : Without(s, a, c)[j] = t[j]
  <2> SUFFICES ASSUME NEW j \in 1..m PROVE Without(s, a, c)[j] = t[j]
    OBVIOUS
  <2>1. j + c - a = j + 1 /\ j \in Nat
    BY <1>1
  <2> QED
    BY <2>1 DEF Without
<1> QED
  BY <1>3, <1>4 DEF Leading

LEMMA NewRegionLists ==
  ASSUME ConstantsOK, IInv, IInv', NEW r \in Region, NewRegion(r)
  PROVE  Lists!NewRegion(r)
<1>1. RegionList = InUse /\ RegionList' = InUse'
  BY RegionListIs, RegionListNext DEF IInv
<1>2. r \notin InUse /\ InUse' = InUse \cup {r}
  BY DEF NewRegion, InUse, IInv, TypeOK
<1>3. walk = "none" /\ UNCHANGED <<freedHead, freedNext, walk, cur, start, isCycle>>
  BY DEF NewRegion, loop
<1>4. FreedList' = FreedList /\ Cursor' = Cursor
  BY <1>3 DEF FreedList, Cursor
<1> QED
  BY <1>1, <1>2, <1>3, <1>4 DEF Lists!NewRegion

LEMMA FreeLists ==
  ASSUME ConstantsOK, IsFiniteSet(Region), IInv, IInv', NEW r \in Region, Free(r)
  PROVE  Lists!Free(r)
<1>1. /\ RegionList = InUse /\ RegionList' = InUse'
      /\ InUse' = InUse /\ r \in InUse
  BY RegionListIs, RegionListNext DEF IInv, Free, InUse, order
<1>2. PICK n \in Nat, s \in [Nat -> Pointer] :
        /\ Chain(n, s, freedHead, freedNext)
        /\ \A i \in 1..n : s[i] \in InUse
        /\ Walking(n, s)
  BY DEF IInv, Freed
<1>3. walk = "none" /\ Listed(s, 1..n)
  BY <1>2 DEF Walking, Free
<1>4. FreedList = Leading(s, n) /\ Cursor = 0
  BY <1>2, <1>3, DisplayedIs DEF Displayed, Shows
<1>5. r \in Lists!Range(FreedList) <=> inFreeList[r]
  <2>1. \A i \in 1..n : FreedList[i] = s[i]
    BY <1>4, FrontIs
  <2>2. DOMAIN FreedList = 1..n
    BY <1>4, FrontIs
  <2> QED
    BY <2>1, <2>2, <1>3 DEF Lists!Range, Listed
<1>6. \E m \in Nat : \E t \in [Nat -> Pointer] :
        /\ Chain(m, t, freedHead', freedNext')
        /\ Leading(t, m) = IF r \in Lists!Range(FreedList) THEN FreedList ELSE <<r>> \o FreedList
  <2>1. CASE inFreeList[r]
    <3>1. UNCHANGED freed
      BY <2>1 DEF Free
    <3> QED
      BY <2>1, <3>1, <1>2, <1>4, <1>5 DEF freed
  <2>2. CASE ~inFreeList[r]
    <3>1. \A i \in 1..n : s[i] # r
      BY <2>2, <1>3 DEF Listed
    <3>2. freedNext' = [freedNext EXCEPT ![r] = freedHead] /\ freedHead' = r
      BY <2>2 DEF Free
    <3>3. freedNext \in [Region -> Pointer]
      BY DEF IInv, TypeOK
    <3> DEFINE t == Pushed(s, r)
    <3>4. Chain(n + 1, t, freedHead', freedNext')
      <4>1. PICK first, link, new : first = freedHead /\ link = freedNext /\ new = freedNext'
        OBVIOUS
      <4>2. Chain(n, s, first, link) /\ link \in [Region -> Pointer]
        BY <4>1, <1>2, <3>3
      <4>3. new[r] = first /\ \A q \in Region : q # r => new[q] = link[q]
        BY <4>1, <4>2, <3>2
      <4>4. Chain(n + 1, t, r, new)
        BY <4>2, <4>3, <3>1, PushedChain
      <4> QED
        BY <4>1, <4>4, <3>2
    <3>5. t \in [Nat -> Pointer] /\ n + 1 \in Nat
      BY <3>4 DEF Chain
    <3>6. t[1] = r /\ \A i \in 2..(n + 1) : t[i] = s[i - 1]
      BY DEF Pushed
    <3> HIDE DEF t
    <3>7. <<r>> \o FreedList = Leading(t, n + 1)
      <4>1. FreedList \in Seq(Pointer) /\ Len(FreedList) = n /\ \A i \in 1..n : FreedList[i] = s[i]
        BY <1>4, FrontIs
      <4>2. <<r>> \in Seq(Pointer) /\ Len(<<r>>) = 1 /\ <<r>>[1] = r
        BY DEF Pointer
      <4>3. PICK l \in Seq(Pointer) : l = <<r>> \o FreedList
        BY <4>1, <4>2, ConcatProperties
      <4>4. Len(l) = 1 + n /\ \A i \in 1..(1 + n) : l[i] = IF i <= 1 THEN <<r>>[i] ELSE FreedList[i - 1]
        <5>1. /\ Len(<<r>> \o FreedList) = Len(<<r>>) + Len(FreedList)
              /\ \A i \in 1..(Len(<<r>>) + Len(FreedList)) :
                   (<<r>> \o FreedList)[i]
                     = IF i <= Len(<<r>>) THEN <<r>>[i] ELSE FreedList[i - Len(<<r>>)]
          BY <4>1, <4>2, ConcatProperties
        <5> QED
          BY <5>1, <4>1, <4>2, <4>3
      <4>5. ASSUME NEW i \in 1..(n + 1) PROVE l[i] = t[i]
        <5>1. CASE i = 1
          <6>1. 1 \in 1..(1 + n) /\ 1 <= 1
            OBVIOUS
          <6> QED
            BY <5>1, <6>1, <4>2, <4>4, <3>6
        <5>2. CASE i # 1
          <6>1. i \in 2..(n + 1) /\ i - 1 \in 1..n /\ ~(i <= 1) /\ i \in 1..(1 + n)
            BY <5>2
          <6>2. l[i] = FreedList[i - 1]
            BY <6>1, <4>4
          <6> QED
            BY <6>1, <6>2, <4>1, <3>6
        <5> QED
          BY <5>1, <5>2
      <4>6. Len(l) = n + 1
        BY <4>4
      <4>7. l = Leading(t, n + 1)
        BY <3>5, <4>5, <4>6, SameFront
      <4> QED
        BY <4>3, <4>7
    <3> QED
      BY <2>2, <3>4, <3>5, <3>7, <1>5
  <2> QED
    BY <2>1, <2>2
<1>7. PICK m \in Nat, t \in [Nat -> Pointer] :
        /\ Chain(m, t, freedHead', freedNext')
        /\ Leading(t, m) = IF r \in Lists!Range(FreedList) THEN FreedList ELSE <<r>> \o FreedList
  BY <1>6
<1>8. Displayed(m, t)'
  BY <1>7, DisplayedNext
<1>9. freedHead' = t[1] /\ 1 \in 1..(m + 1)
  BY <1>7 DEF Chain
<1>10. CASE walk' = "release" /\ cur' = freedHead'
  <2>1. FreedList' = Leading(t, m) /\ Cursor' = 1
    BY <1>8, <1>9, <1>10 DEF Displayed, Shows
  <2> QED
    BY <2>1, <1>1, <1>3, <1>7, <1>10 DEF Lists!Free
<1>11. CASE UNCHANGED <<walk, cur, before>>
  <2>1. FreedList' = Leading(t, m) /\ Cursor' = 0
    BY <1>3, <1>8, <1>11 DEF Displayed, Shows
  <2> QED
    BY <2>1, <1>1, <1>3, <1>4, <1>7, <1>11 DEF Lists!Free
<1> QED
  BY <1>10, <1>11 DEF Free

LEMMA BeginRefillLists ==
  ASSUME ConstantsOK, IsFiniteSet(Region), IInv, IInv', BeginRefill
  PROVE  Lists!BeginRefill
<1>1. RegionList = InUse /\ RegionList' = InUse' /\ InUse' = InUse
  BY RegionListIs, RegionListNext DEF IInv, BeginRefill, InUse, order
<1>2. PICK n \in Nat, s \in [Nat -> Pointer] :
        /\ Chain(n, s, freedHead, freedNext)
        /\ \A i \in 1..n : s[i] \in InUse
        /\ Walking(n, s)
  BY DEF IInv, Freed
<1>3. walk = "none" /\ freeRegionNum = n
  BY <1>2 DEF Walking, BeginRefill
<1>4. FreedList = Leading(s, n) /\ Cursor = 0
  BY <1>2, <1>3, DisplayedIs DEF Displayed, Shows
<1>5. PICK k \in 0..(Min({freeRegionNum, StartSpan}) - 1) : cur' = Nth(k) /\ start' = Nth(k)
  BY DEF BeginRefill
<1>6. k \in 0..(n - 1) /\ k + 1 <= StartSpan
  <2>1. Min({n, StartSpan}) \in Nat /\ Min({n, StartSpan}) <= n
    BY SmallerNumber DEF ConstantsOK
  <2>2. Min({StartSpan, n}) <= StartSpan /\ {StartSpan, n} = {n, StartSpan}
    BY SmallerNumber DEF ConstantsOK
  <2>3. Min({n, StartSpan}) <= StartSpan
    BY <2>2
  <2>4. k \in 0..(Min({n, StartSpan}) - 1) /\ StartSpan \in Nat
    BY <1>3, <1>5 DEF ConstantsOK
  <2> QED
    BY <2>1, <2>3, <2>4
<1>7. PICK a \in 1..n : a = k + 1
  BY <1>6
<1>8. cur' = s[a] /\ start' = s[a]
  <2>1. Nth(k) = s[k + 1]
    BY <1>2, <1>6, NthOfChain DEF IInv
  <2> QED
    BY <2>1, <1>5, <1>7
<1>9. walk' = "refill" /\ ~isCycle' /\ Chain(n, s, freedHead', freedNext')
  BY <1>2 DEF BeginRefill, freed
<1>10. Displayed(n, s)'
  BY <1>2, <1>9, DisplayedNext
<1>11. FreedList' = Leading(s, n) /\ Cursor' = a
  <2>1. a \in a..n
    OBVIOUS
  <2>2. Shows(Leading(Without(s, a, a), n - (a - a)), a)'
    BY <2>1, <1>8, <1>9, <1>10 DEF Displayed
  <2>3. \A j \in 1..n : Without(s, a, a)[j] = s[j]
    <3>1. \A j \in 1..n : j + a - a = j /\ j \in Nat
      OBVIOUS
    <3> QED
      BY <3>1 DEF Without
  <2>4. n - (a - a) = n /\ Leading(Without(s, a, a), n) = Leading(s, n)
    BY <2>3 DEF Leading
  <2> QED
    BY <2>2, <2>4 DEF Shows
<1>12. a \in DOMAIN FreedList /\ a <= StartSpan
  BY <1>2, <1>4, <1>6, <1>7, FrontIs
<1> QED
  BY <1>1, <1>3, <1>4, <1>9, <1>11, <1>12 DEF Lists!BeginRefill

(* A refill that ends leaves the list t. *)
LEMMA LeftShows ==
  ASSUME ConstantsOK, IsFiniteSet(Region), NEW m \in Nat, NEW t, Left(m, t), walk' = "none"
  PROVE  FreedList' = Leading(t, m) /\ Cursor' = 0
<1>1. PICK u : Chain(m, u, freedHead', freedNext') /\ \A j \in 1..m : u[j] = t[j]
  BY DEF Left
<1>2. Displayed(m, u)'
  BY <1>1, DisplayedNext
<1>3. FreedList' = Leading(u, m) /\ Cursor' = 0
  BY <1>2 DEF Displayed, Shows
<1> QED
  BY <1>1, <1>3 DEF Leading

LEMMA TakeStraightLists ==
  ASSUME ConstantsOK, IsFiniteSet(Region), Take, ~isCycle,
         NEW n \in Nat, NEW s \in [Nat -> Pointer],
         Chain(n, s, freedHead, freedNext),
         NEW a \in 1..n, NEW c \in a..n, start = s[a], cur = s[c],
         walk' = "none" => Left(n - (c - a) - 1, Without(s, a, c + 1))
  PROVE  /\ FreedList' = Lists!RemoveAt(FreedList, Cursor)
         /\ \/ /\ FreedList' # <<>>
               /\ Cursor' = IF Cursor > Len(FreedList') THEN 1 ELSE Cursor
               /\ walk' = walk
            \/ walk' = "none" /\ Cursor' = 0
<1>1. /\ \A i \in Nat : s[i] = Null <=> i \notin 1..n
      /\ freedHead = s[1]
      /\ \A i \in 1..n : freedNext[s[i]] = s[i + 1]
  BY DEF Chain
<1>2. walk = "refill"
  BY DEF Take
<1>3. PICK e \in (a + 1)..(n + 1) : e = c + 1
  OBVIOUS
<1>4. PICK m \in Nat : m = n - (c - a) - 1
  OBVIOUS
<1>5. PICK t : t = Without(s, a, e)
  OBVIOUS
<1>6. t \in [Nat -> Pointer] /\ Without(s, a, c) \in [Nat -> Pointer]
  BY <1>3, <1>5, WithoutIs
<1>7. FreedList = Leading(Without(s, a, c), n - (c - a)) /\ Cursor = a
  BY <1>2, DisplayedIs DEF Displayed, Shows
<1>8. Lists!RemoveAt(FreedList, a) = Leading(t, m)
  <2>1. PICK k \in Nat : k = n - (c - a) /\ a \in 1..k /\ m = k - 1
    BY <1>4
  <2>2. PICK u \in [Nat -> Pointer] : u = Without(s, a, c)
    BY <1>6
  <2>3. \A j \in 1..m : t[j] = IF j < a THEN u[j] ELSE u[j + 1]
    <3> SUFFICES ASSUME NEW j \in 1..m PROVE t[j] = IF j < a THEN u[j] ELSE u[j + 1]
      OBVIOUS
    <3>1. j \in Nat /\ j + 1 \in Nat /\ j + e - a = (j + 1) + c - a
      BY <1>3
    <3>2. CASE j < a
      BY <3>1, <3>2, <2>2, <1>5 DEF Without
    <3>3. CASE ~(j < a)
      <4>1. ~(j + 1 < a)
        BY <3>3
      <4>2. t[j] = s[j + e - a] /\ u[j + 1] = s[(j + 1) + c - a]
        BY <3>1, <3>3, <4>1, <2>2, <1>5 DEF Without
      <4> QED
        BY <3>1, <3>3, <4>2
    <3> QED
      BY <3>2, <3>3
  <2>4. Lists!RemoveAt(Leading(u, k), a) = Leading(t, m)
    BY <2>1, <2>2, <2>3, <1>6, RemovedFront
  <2> QED
    BY <2>1, <2>2, <2>4, <1>7
<1>9. Len(Leading(t, m)) = m /\ (m > 0 => Leading(t, m) # <<>>)
  <2>1. Len(Leading(t, m)) = m
    BY <1>6, FrontIs
  <2> QED
    BY <2>1
<1>10. CASE walk' = "none"
  <2>1. Left(m, t)
    BY <1>3, <1>4, <1>5, <1>10
  <2>2. FreedList' = Leading(t, m) /\ Cursor' = 0
    BY <2>1, <1>10, LeftShows
  <2> QED
    BY <2>2, <1>7, <1>8, <1>10
<1>11. CASE walk' # "none"
  <2>1. /\ Following(cur) # start
        /\ cur' = Following(cur) /\ isCycle' = (isCycle \/ freedNext[cur] = Null)
        /\ UNCHANGED <<freedHead, freedNext, walk, before, start>>
    BY <1>11 DEF Take, EndLoop
  <2>2. Displayed(n, s)'
    <3>1. Chain(n, s, freedHead', freedNext')
      BY <2>1
    <3> QED
      BY <3>1, DisplayedNext
  <2>3. freedNext[cur] = s[c + 1] /\ c \in 1..n /\ c + 1 \in Nat
    BY <1>1
  <2>4. CASE c < n
    <3>1. PICK d \in a..n : d = c + 1
      BY <2>4
    <3>2. s[c + 1] # Null
      BY <3>1, <1>1
    <3>3. cur' = s[d] /\ ~isCycle' /\ walk' = "refill" /\ start' = s[a]
      BY <2>1, <2>3, <3>1, <3>2, <1>2 DEF Following
    <3>4. Shows(Leading(Without(s, a, d), n - (d - a)), a)'
      BY <2>2, <3>3 DEF Displayed
    <3>5. n - (d - a) = m /\ d = e /\ m > 0 /\ ~(a > m)
      BY <3>1, <2>4, <1>3, <1>4
    <3>6. FreedList' = Leading(t, m) /\ Cursor' = a
      BY <3>4, <3>5, <1>5 DEF Shows
    <3> QED
      BY <2>1, <3>5, <3>6, <1>7, <1>8, <1>9
  <2>5. CASE c = n
    <3>1. s[c + 1] = Null
      BY <2>3, <2>5, <1>1
    <3>2. Following(cur) = s[1] /\ freedNext[cur] = Null
      BY <2>3, <3>1, <1>1 DEF Following
    <3>3. a > 1
      <4>1. a # 1
        BY <2>1, <3>2
      <4> QED
        BY <4>1
    <3>4. PICK d \in 1..(a - 1) : d = 1
      BY <3>3
    <3>5. cur' = s[d] /\ isCycle' /\ walk' = "refill" /\ start' = s[a]
      BY <2>1, <3>2, <3>4, <1>2
    <3>6. Shows(Leading(Segment(s, d, a - d), a - d), 1)'
      BY <2>2, <3>5 DEF Displayed
    <3>7. a - d = m /\ m > 0 /\ a > m /\ e = n + 1
      BY <3>3, <3>4, <2>5, <1>3, <1>4
    <3>8. \A j \in 1..m : Segment(s, d, m)[j] = t[j]
      <4> SUFFICES ASSUME NEW j \in 1..m PROVE Segment(s, d, m)[j] = t[j]
        OBVIOUS
      <4>1. j + d - 1 = j /\ j < a /\ j \in Nat
        BY <3>4, <3>7
      <4> QED
        BY <4>1, <1>5 DEF Segment, Without
    <3>9. FreedList' = Leading(t, m) /\ Cursor' = 1
      BY <3>6, <3>7, <3>8 DEF Shows, Leading
    <3> QED
      BY <2>1, <3>7, <3>9, <1>7, <1>8, <1>9
  <2> QED
    BY <2>4, <2>5
<1> QED
  BY <1>10, <1>11

LEMMA TakeAroundLists ==
  ASSUME ConstantsOK, IsFiniteSet(Region), Take, isCycle,
         NEW n \in Nat, NEW s \in [Nat -> Pointer],
         Chain(n, s, freedHead, freedNext),
         NEW a \in 1..n, NEW c \in 1..(a - 1), start = s[a], cur = s[c],
         walk' = "none" => Left(a - c - 1, Segment(s, c + 1, a - c - 1))
  PROVE  /\ FreedList' = Lists!RemoveAt(FreedList, Cursor)
         /\ \/ /\ FreedList' # <<>>
               /\ Cursor' = IF Cursor > Len(FreedList') THEN 1 ELSE Cursor
               /\ walk' = walk
            \/ walk' = "none" /\ Cursor' = 0
<1>1. /\ \A i \in Nat : s[i] = Null <=> i \notin 1..n
      /\ freedHead = s[1]
      /\ \A i \in 1..n : freedNext[s[i]] = s[i + 1]
  BY DEF Chain
<1>2. walk = "refill"
  BY DEF Take
<1>3. PICK e \in 2..n : e = c + 1
  OBVIOUS
<1>4. PICK m \in Nat : m = a - c - 1
  OBVIOUS
<1>5. PICK t : t = Segment(s, e, m)
  OBVIOUS
<1>6. PICK u : u = Segment(s, c, a - c)
  OBVIOUS
<1>7. t \in [Nat -> Pointer] /\ u \in [Nat -> Pointer]
  <2>1. \A j \in 1..m : j + e - 1 \in Nat
    BY <1>3
  <2>2. \A j \in 1..(a - c) : j + c - 1 \in Nat
    OBVIOUS
  <2> QED
    BY <2>1, <2>2, <1>5, <1>6 DEF Segment, Pointer
<1>8. FreedList = Leading(u, a - c) /\ Cursor = 1
  BY <1>2, <1>6, DisplayedIs DEF Displayed, Shows
<1>9. Lists!RemoveAt(FreedList, 1) = Leading(t, m)
  <2>1. PICK k \in Nat : k = a - c /\ 1 \in 1..k /\ m = k - 1
    BY <1>4
  <2>2. \A j \in 1..m : t[j] = IF j < 1 THEN u[j] ELSE u[j + 1]
    <3> SUFFICES ASSUME NEW j \in 1..m PROVE t[j] = u[j + 1]
      OBVIOUS
    <3>1. j \in Nat /\ j + 1 \in Nat /\ j + 1 \in 1..(a - c) /\ j + e - 1 = (j + 1) + c - 1
      BY <1>3, <1>4
    <3>2. t[j] = s[j + e - 1] /\ u[j + 1] = s[(j + 1) + c - 1]
      BY <3>1, <1>5, <1>6 DEF Segment
    <3> QED
      BY <3>1, <3>2
  <2>3. PICK i \in 1..k : i = 1
    BY <2>1
  <2>4. \A j \in 1..m : t[j] = IF j < i THEN u[j] ELSE u[j + 1]
    BY <2>2, <2>3
  <2>5. Lists!RemoveAt(Leading(u, k), i) = Leading(t, m)
    BY <2>1, <2>4, <1>7, RemovedFront
  <2> QED
    BY <2>1, <2>3, <2>5, <1>8
<1>10. Len(Leading(t, m)) = m /\ (m > 0 => Leading(t, m) # <<>>)
  <2>1. Len(Leading(t, m)) = m
    BY <1>7, FrontIs
  <2> QED
    BY <2>1
<1>11. CASE walk' = "none"
  <2>1. Left(m, t)
    BY <1>3, <1>4, <1>5, <1>11
  <2>2. FreedList' = Leading(t, m) /\ Cursor' = 0
    BY <2>1, <1>11, LeftShows
  <2> QED
    BY <2>2, <1>8, <1>9, <1>11
<1>12. CASE walk' # "none"
  <2>1. /\ Following(cur) # start
        /\ cur' = Following(cur) /\ isCycle' = (isCycle \/ freedNext[cur] = Null)
        /\ UNCHANGED <<freedHead, freedNext, walk, before, start>>
    BY <1>12 DEF Take, EndLoop
  <2>2. Displayed(n, s)'
    <3>1. Chain(n, s, freedHead', freedNext')
      BY <2>1
    <3> QED
      BY <3>1, DisplayedNext
  <2>3. freedNext[cur] = s[e] /\ s[e] # Null
    <3>1. c \in 1..n /\ e \in Nat /\ e \in 1..n
      BY <1>3
    <3> QED
      BY <3>1, <1>1, <1>3
  <2>4. Following(cur) = s[e]
    BY <2>3 DEF Following
  <2>5. e # a
    BY <2>1, <2>4
  <2>6. PICK d \in 1..(a - 1) : d = e
    BY <2>5, <1>3
  <2>7. cur' = s[d] /\ isCycle' /\ walk' = "refill" /\ start' = s[a]
    BY <2>1, <2>4, <2>6, <1>2
  <2>8. Shows(Leading(Segment(s, d, a - d), a - d), 1)'
    BY <2>2, <2>7 DEF Displayed
  <2>9. a - d = m /\ m > 0 /\ ~(1 > m)
    BY <2>6, <1>3, <1>4
  <2>10. FreedList' = Leading(t, m) /\ Cursor' = 1
    BY <2>6, <2>8, <2>9, <1>5 DEF Shows
  <2> QED
    BY <2>1, <2>9, <2>10, <1>8, <1>9, <1>10
<1> QED
  BY <1>11, <1>12

LEMMA TakeLists ==
  ASSUME ConstantsOK, IsFiniteSet(Region), IInv, IInv', Take PROVE Lists!Take
<1>1. RegionList = InUse /\ RegionList' = InUse' /\ InUse' = InUse
  BY RegionListIs, RegionListNext DEF IInv, Take, InUse, order
<1>2. PICK n \in Nat, s \in [Nat -> Pointer] :
        /\ Chain(n, s, freedHead, freedNext)
        /\ \A i \in 1..n : s[i] \in InUse
        /\ Walking(n, s)
  BY DEF IInv, Freed
<1>3. TypeOK /\ walk = "refill"
  BY DEF IInv, Take
<1>4. /\ FreedList' = Lists!RemoveAt(FreedList, Cursor)
      /\ \/ /\ FreedList' # <<>>
            /\ Cursor' = IF Cursor > Len(FreedList') THEN 1 ELSE Cursor
            /\ walk' = walk
         \/ walk' = "none" /\ Cursor' = 0
  <2>1. CASE ~isCycle
    <3>1. PICK a \in 1..n : \E c \in a..n :
            /\ start = s[a] /\ before = s[a - 1] /\ cur = s[c]
            /\ freeRegionNum = n - (c - a)
            /\ Listed(s, (1..n) \ (a..(c - 1)))
      BY <2>1, <1>2, <1>3 DEF Walking
    <3>2. PICK c \in a..n :
            /\ start = s[a] /\ before = s[a - 1] /\ cur = s[c]
            /\ freeRegionNum = n - (c - a)
            /\ Listed(s, (1..n) \ (a..(c - 1)))
      BY <3>1
    <3>3. walk' = "none" => Left(n - (c - a) - 1, Without(s, a, c + 1))
      BY <2>1, <3>2, <1>1, <1>2, <1>3, TakeStraight
    <3> QED
      BY <2>1, <3>2, <3>3, <1>2, TakeStraightLists
  <2>2. CASE isCycle
    <3>1. PICK a \in 1..n : \E c \in 1..(a - 1) :
            /\ start = s[a] /\ before = s[a - 1] /\ cur = s[c]
            /\ freeRegionNum = a - c
            /\ Listed(s, c..(a - 1))
      BY <2>2, <1>2, <1>3 DEF Walking
    <3>2. PICK c \in 1..(a - 1) :
            /\ start = s[a] /\ before = s[a - 1] /\ cur = s[c]
            /\ freeRegionNum = a - c
            /\ Listed(s, c..(a - 1))
      BY <3>1
    <3>3. walk' = "none" => Left(a - c - 1, Segment(s, c + 1, a - c - 1))
      BY <2>2, <3>2, <1>1, <1>2, <1>3, TakeAround
    <3> QED
      BY <2>2, <3>2, <3>3, <1>2, TakeAroundLists
  <2> QED
    BY <2>1, <2>2
<1> QED
  BY <1>1, <1>3, <1>4 DEF Lists!Take

(* A release is at a in a list s of n regions. *)
At(n, s, a) ==
  /\ Chain(n, s, freedHead, freedNext)
  /\ \A i \in 1..n : s[i] \in InUse
  /\ cur = s[a] /\ before = s[a - 1]
  /\ cur = Null <=> a = n + 1
  /\ FreedList = Leading(s, n) /\ Cursor = a /\ Len(FreedList) = n

LEMMA Releasing ==
  ASSUME ConstantsOK, IsFiniteSet(Region), IInv, walk = "release"
  PROVE  \E n \in Nat, s \in [Nat -> Pointer] : \E a \in 1..(n + 1) : At(n, s, a)
<1>1. PICK n \in Nat, s \in [Nat -> Pointer] :
        /\ Chain(n, s, freedHead, freedNext)
        /\ \A i \in 1..n : s[i] \in InUse
        /\ Walking(n, s)
  BY DEF IInv, Freed
<1>2. PICK a \in 1..(n + 1) : cur = s[a] /\ before = s[a - 1]
  BY <1>1 DEF Walking
<1>3. cur = Null <=> a = n + 1
  <2>1. s[a] = Null <=> a \notin 1..n
    BY <1>1 DEF Chain
  <2> QED
    BY <2>1, <1>2
<1>4. FreedList = Leading(s, n) /\ Cursor = a
  BY <1>1, <1>2, DisplayedIs DEF Displayed, Shows
<1>5. Len(FreedList) = n
  BY <1>4, FrontIs
<1> QED
  BY <1>1, <1>2, <1>3, <1>4, <1>5 DEF At

LEMMA DropLists ==
  ASSUME ConstantsOK, IsFiniteSet(Region), IInv, IInv', Drop PROVE Lists!Drop
<1>1. walk = "release" /\ walk' = "release" /\ cur # Null /\ cur' = freedNext[cur]
  BY DEF Drop
<1>0. PICK n \in Nat, s \in [Nat -> Pointer] : \E a \in 1..(n + 1) : At(n, s, a)
  BY <1>1, Releasing
<1>2. PICK a \in 1..(n + 1) :
        /\ Chain(n, s, freedHead, freedNext)
        /\ \A i \in 1..n : s[i] \in InUse
        /\ cur = s[a] /\ before = s[a - 1]
        /\ cur = Null <=> a = n + 1
        /\ FreedList = Leading(s, n) /\ Cursor = a /\ Len(FreedList) = n
  BY <1>0 DEF At
<1>3. a \in 1..n
  BY <1>1, <1>2
<1>4. cur \in InUse /\ InUse' = InUse \ {cur}
  BY <1>2, <1>3, DropLinks DEF IInv
<1>5. RegionList = InUse /\ RegionList' = InUse'
  BY RegionListIs, RegionListNext DEF IInv
<1>6. PICK d, m : d = a + 1 /\ m = n - 1
  OBVIOUS
<1>7. PICK t : t = Without(s, a, d)
  OBVIOUS
<1>8. m \in Nat /\ t \in [Nat -> Pointer] /\ Chain(m, t, freedHead', freedNext')
  BY <1>2, <1>3, <1>6, <1>7, DropChain DEF IInv
<1>9. cur' = t[a]
  <2>1. freedNext[cur] = s[a + 1]
    BY <1>2, <1>3 DEF Chain
  <2>2. a + d - a = a + 1 /\ a \in Nat /\ ~(a < a)
    BY <1>6
  <2>3. t[a] = s[a + 1]
    BY <2>2, <1>7 DEF Without
  <2> QED
    BY <2>1, <2>3, <1>1
<1>10. Displayed(m, t)'
  BY <1>8, DisplayedNext
<1>11. FreedList' = Leading(t, m) /\ Cursor' = a
  <2>1. a \in 1..(m + 1)
    BY <1>3, <1>6
  <2> QED
    BY <2>1, <1>1, <1>9, <1>10 DEF Displayed, Shows
<1>12. Lists!RemoveAt(FreedList, a) = Leading(t, m)
  <2>1. \A j \in 1..m : t[j] = IF j < a THEN s[j] ELSE s[j + 1]
    <3> SUFFICES ASSUME NEW j \in 1..m PROVE t[j] = IF j < a THEN s[j] ELSE s[j + 1]
      OBVIOUS
    <3>1. j + d - a = j + 1 /\ j \in Nat
      BY <1>6, <1>8
    <3> QED
      BY <3>1, <1>7 DEF Without
  <2>2. s \in [Nat -> Pointer] /\ n \in Nat /\ m = n - 1 /\ t \in [Nat -> Pointer]
    BY <1>0, <1>6, <1>8
  <2>3. Lists!RemoveAt(Leading(s, n), a) = Leading(t, m)
    BY <2>1, <2>2, <1>3, RemovedFront
  <2> QED
    BY <2>3, <1>2
<1>13. FreedList[a] = cur
  BY <1>2, <1>3, FrontIs
<1>14. a <= Len(FreedList)
  BY <1>2, <1>3
<1> QED
  BY <1>1, <1>2, <1>4, <1>5, <1>11, <1>12, <1>13, <1>14 DEF Lists!Drop

LEMMA PassLists ==
  ASSUME ConstantsOK, IsFiniteSet(Region), IInv, IInv', Pass PROVE Lists!Pass
<1>1. walk = "release" /\ walk' = "release" /\ cur # Null /\ cur' = freedNext[cur]
  BY DEF Pass
<1>0. PICK n \in Nat, s \in [Nat -> Pointer] : \E a \in 1..(n + 1) : At(n, s, a)
  BY <1>1, Releasing
<1>2. PICK a \in 1..(n + 1) :
        /\ Chain(n, s, freedHead, freedNext)
        /\ \A i \in 1..n : s[i] \in InUse
        /\ cur = s[a] /\ before = s[a - 1]
        /\ cur = Null <=> a = n + 1
        /\ FreedList = Leading(s, n) /\ Cursor = a /\ Len(FreedList) = n
  BY <1>0 DEF At
<1>3. a \in 1..n
  BY <1>1, <1>2
<1>4. RegionList = InUse /\ RegionList' = InUse' /\ InUse' = InUse
  BY RegionListIs, RegionListNext DEF IInv, Pass, InUse, order
<1>5. PICK b \in 1..(n + 1) : b = a + 1
  BY <1>3
<1>6. cur' = s[b]
  BY <1>1, <1>2, <1>3, <1>5 DEF Chain
<1>7. Displayed(n, s)'
  <2>1. Chain(n, s, freedHead', freedNext')
    BY <1>2 DEF Pass, freed
  <2> QED
    BY <2>1, DisplayedNext
<1>8. FreedList' = Leading(s, n) /\ Cursor' = b
  BY <1>1, <1>6, <1>7 DEF Displayed, Shows
<1>9. a <= Len(FreedList)
  BY <1>2, <1>3
<1> QED
  BY <1>1, <1>2, <1>4, <1>5, <1>8, <1>9 DEF Lists!Pass

LEMMA EndLists ==
  ASSUME ConstantsOK, IsFiniteSet(Region), IInv, IInv', End PROVE Lists!End
<1>1. walk = "release" /\ walk' = "none" /\ cur = Null
  BY DEF End, EndLoop
<1>0. PICK n \in Nat, s \in [Nat -> Pointer] : \E a \in 1..(n + 1) : At(n, s, a)
  BY <1>1, Releasing
<1>2. PICK a \in 1..(n + 1) :
        /\ Chain(n, s, freedHead, freedNext)
        /\ \A i \in 1..n : s[i] \in InUse
        /\ cur = s[a] /\ before = s[a - 1]
        /\ cur = Null <=> a = n + 1
        /\ FreedList = Leading(s, n) /\ Cursor = a /\ Len(FreedList) = n
  BY <1>0 DEF At
<1>3. RegionList = InUse /\ RegionList' = InUse' /\ InUse' = InUse
  BY RegionListIs, RegionListNext DEF IInv, End, InUse, order
<1>4. Displayed(n, s)'
  <2>1. Chain(n, s, freedHead', freedNext')
    BY <1>2 DEF End, freed
  <2> QED
    BY <2>1, DisplayedNext
<1>5. FreedList' = Leading(s, n) /\ Cursor' = 0
  BY <1>1, <1>4 DEF Displayed, Shows
<1>6. Cursor > Len(FreedList)
  BY <1>1, <1>2
<1> QED
  BY <1>1, <1>2, <1>3, <1>5, <1>6 DEF Lists!End

LEMMA ListsStep ==
  ConstantsOK /\ IsFiniteSet(Region) /\ IInv /\ IInv' /\ [Next]_vars
    => [Lists!Next]_Lists!vars
<1> SUFFICES ASSUME ConstantsOK, IsFiniteSet(Region), IInv, IInv', [Next]_vars
             PROVE  Lists!Next \/ UNCHANGED Lists!vars
  OBVIOUS
<1>1. ASSUME NEW r \in Region, NewRegion(r) PROVE Lists!Next
  <2>1. Lists!NewRegion(r)
    BY <1>1, NewRegionLists
  <2> QED
    BY <2>1 DEF Lists!Next
<1>2. ASSUME NEW r \in Region, Free(r) PROVE Lists!Next
  <2>1. Lists!Free(r)
    BY <1>2, FreeLists
  <2> QED
    BY <2>1 DEF Lists!Next
<1>3. CASE BeginRefill
  BY <1>3, BeginRefillLists DEF Lists!Next
<1>4. CASE Take
  BY <1>4, TakeLists DEF Lists!Next
<1>5. CASE Drop
  BY <1>5, DropLists DEF Lists!Next
<1>6. CASE Pass
  BY <1>6, PassLists DEF Lists!Next
<1>7. CASE End
  BY <1>7, EndLists DEF Lists!Next
<1>8. CASE UNCHANGED vars
  <2>1. RegionList' = RegionList
    BY <1>8 DEF RegionList, vars, order
  <2>2. FreedList' = FreedList /\ walk' = walk
    BY <1>8 DEF FreedList, vars, freed, loop
  <2>3. Cursor' = Cursor
    BY <1>8, <2>2 DEF Cursor, vars, loop
  <2> QED
    BY <2>1, <2>2, <2>3 DEF Lists!vars
<1> QED
  BY <1>1, <1>2, <1>3, <1>4, <1>5, <1>6, <1>7, <1>8 DEF Next

LEMMA ListsInit ==
  ConstantsOK /\ IsFiniteSet(Region) /\ Init => Lists!Init
<1> SUFFICES ASSUME ConstantsOK, IsFiniteSet(Region), Init PROVE Lists!Init
  OBVIOUS
<1>1. IInv
  BY InitIInv
<1>2. RegionList = {}
  <2>1. InUse = {}
    BY DEF Init, InUse
  <2> QED
    BY <2>1, <1>1, RegionListIs DEF IInv
<1>3. PICK n \in Nat, s \in [Nat -> Pointer] : Chain(n, s, freedHead, freedNext)
  BY <1>1 DEF IInv, Freed
<1>4. n = 0
  <2>1. s[1] = Null
    BY <1>3 DEF Chain, Init
  <2>2. 1 \notin 1..n
    BY <2>1, <1>3 DEF Chain
  <2> QED
    BY <2>2
<1>5. FreedList = Leading(s, 0) /\ Cursor = 0
  BY <1>3, <1>4, DisplayedIs DEF Displayed, Shows, Init
<1>6. FreedList = <<>>
  <2>1. FreedList \in Seq(Pointer) /\ Len(FreedList) = 0
    BY <1>3, <1>5, FrontIs
  <2> QED
    BY <2>1
<1> QED
  BY <1>2, <1>5, <1>6 DEF Lists!Init, Init

(* The pointers are the lists of ClusterLists, whatever a refill that ends    *)
(* anywhere or comes around, and a release, make of them.                  *)
THEOREM ImplementsListsAlways ==
  ASSUME ConstantsOK, IsFiniteSet(Region) PROVE Spec => ImplementsLists
<1>1. Init => IInv /\ Lists!Init
  BY InitIInv, ListsInit
<1>2. IInv /\ [Next]_vars => IInv'
  BY StepIInv
<1>3. IInv /\ IInv' /\ [Next]_vars => [Lists!Next]_Lists!vars
  BY ListsStep
<1> QED
  BY <1>1, <1>2, <1>3, PTL DEF Spec, ImplementsLists, Lists!Spec

================================================================================
