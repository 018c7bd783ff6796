--------------------------- MODULE SuperPoolProofs ---------------------------
(***************************************************************************)
(* Proofs about SuperPool, for every geometry of pools and regions.        *)
(*                                                                         *)
(* The safety properties are proved together, as one inductive invariant   *)
(* IInv: that a refill keeps tags apart rests on chunks having one owner,  *)
(* that a release takes no chunk in use on the counters being exact, and   *)
(* that the loops stay in bounds on the list being exact.  First come      *)
(* facts about sequences and finite sets, then what each action does to    *)
(* the slots in use, in the batch and freed, then each part of IInv, then  *)
(* one lemma per action, and at the end the results.                       *)
(***************************************************************************)
EXTENDS SuperPool, FiniteSetTheorems, SequenceTheorems, FunctionTheorems, TLAPS

------------------------------------------------------------------------------
(* Sequences and functions *)

(* RemoveAt takes one element out and moves the later ones up by one. *)
LEMMA RemoveAtProperties ==
  ASSUME NEW S, NEW s \in Seq(S), NEW i \in 1..Len(s)
  PROVE  /\ RemoveAt(s, i) \in Seq(S)
         /\ Len(RemoveAt(s, i)) = Len(s) - 1
         /\ \A j \in 1..(Len(s) - 1) :
              RemoveAt(s, i)[j] = IF j < i THEN s[j] ELSE s[j + 1]
  <1> DEFINE a == SubSeq(s, 1, i - 1)
             b == SubSeq(s, i + 1, Len(s))
  <1>1. Len(s) \in Nat /\ i \in Int /\ \A j \in 1..Len(s) : s[j] \in S
    BY LenProperties, ElementOfSeq
  <1>2. /\ a \in Seq(S)
        /\ Len(a) = i - 1
        /\ \A j \in 1..(i - 1) : a[j] = s[j]
    BY <1>1, SubSeqProperties
  <1>3. /\ b \in Seq(S)
        /\ Len(b) = Len(s) - i
        /\ \A j \in 1..(Len(s) - i) : b[j] = s[i + j]
    BY <1>1, SubSeqProperties
  <1>4. RemoveAt(s, i) = a \o b
    BY DEF RemoveAt
  <1> HIDE DEF a, b
  <1>5. /\ a \o b \in Seq(S)
        /\ Len(a \o b) = Len(a) + Len(b)
        /\ \A j \in 1..(Len(a) + Len(b)) :
             (a \o b)[j] = IF j <= Len(a) THEN a[j] ELSE b[j - Len(a)]
    BY <1>2, <1>3, ConcatProperties
  <1>6. QED
    BY <1>1, <1>2, <1>3, <1>4, <1>5

(* Taking an element out of a sequence without repetitions removes exactly *)
(* that element from its range.                                            *)
LEMMA RemoveAtRange ==
  ASSUME NEW S, NEW s \in Seq(S), NEW i \in 1..Len(s), IsInjective(s)
  PROVE  /\ IsInjective(RemoveAt(s, i))
         /\ Range(RemoveAt(s, i)) = Range(s) \ {s[i]}
  <1> DEFINE t == RemoveAt(s, i)
  <1>1. /\ t \in Seq(S)
        /\ Len(t) = Len(s) - 1
        /\ \A j \in 1..(Len(s) - 1) : t[j] = IF j < i THEN s[j] ELSE s[j + 1]
    BY RemoveAtProperties
  <1>2. DOMAIN s = 1..Len(s) /\ DOMAIN t = 1..(Len(s) - 1) /\ Len(s) \in Nat
    BY <1>1
  <1> HIDE DEF t
  <1>3. IsInjective(t)
    <2> SUFFICES ASSUME NEW j \in 1..(Len(s) - 1), NEW k \in 1..(Len(s) - 1),
                        t[j] = t[k]
                 PROVE  j = k
      BY <1>2 DEF IsInjective
    <2> DEFINE old(m) == IF m < i THEN m ELSE m + 1
    <2>1. /\ old(j) \in 1..Len(s) /\ t[j] = s[old(j)]
          /\ old(k) \in 1..Len(s) /\ t[k] = s[old(k)]
      BY <1>1, <1>2
    <2>2. old(j) = old(k)
      BY <2>1, <1>2 DEF IsInjective
    <2>3. QED BY <2>2
  <1>4. ASSUME NEW x \in Range(t) PROVE x \in Range(s) \ {s[i]}
    BY <1>1, <1>2, <1>4 DEF IsInjective, Range
  <1>5. ASSUME NEW x \in Range(s) \ {s[i]} PROVE x \in Range(t)
    <2>1. PICK k \in 1..Len(s) : s[k] = x /\ k # i
      BY <1>2 DEF Range
    <2>2. CASE k < i
      <3>1. k \in 1..(Len(s) - 1) /\ t[k] = x
        BY <2>1, <2>2, <1>1, <1>2
      <3>2. QED BY <3>1, <1>2 DEF Range
    <2>3. CASE k > i
      <3>1. k - 1 \in 1..(Len(s) - 1) /\ t[k - 1] = x
        BY <2>1, <2>3, <1>1, <1>2
      <3>2. QED BY <3>1, <1>2 DEF Range
    <2>4. QED BY <2>1, <2>2, <2>3
  <1>6. QED BY <1>3, <1>4, <1>5 DEF t

------------------------------------------------------------------------------
(* Finite sets of the model *)

LEMMA FiniteSets ==
  /\ IsFiniteSet(Region) /\ IsFiniteSet(Chunk) /\ Cardinality(Chunk) = Available
  /\ IsFiniteSet(Slot)
  <1>1. IsFiniteSet(Pool) /\ IsFiniteSet(1..AllRegionsInPool)
    BY SuperPoolAssumption, FS_Interval DEF Pool
  <1>2. IsFiniteSet(Region)
    BY <1>1, FS_Product DEF Region
  <1>3. IsFiniteSet(Chunk) /\ Cardinality(Chunk) = Available
    <2>1. Available \in Int /\ 1 \in Int /\ ~(1 > Available) /\ Available - 1 + 1 = Available
      BY SuperPoolAssumption
    <2>2. QED BY <2>1, FS_Interval DEF Chunk
  <1>4. IsFiniteSet(Slot)
    <2> DEFINE D == (Region \X Chunk) \X Tag
               g == [d \in D |-> [region |-> d[1][1], chunk |-> d[1][2], tag |-> d[2]]]
    <2>1. IsFiniteSet(D)
      BY <1>2, <1>3, FS_Product DEF Tag, Chunk
    <2>2. g \in [D -> Slot]
      BY DEF Slot
    <2>3. ASSUME NEW s \in Slot PROVE \E d \in D : g[d] = s
      <3>1. <<<<s.region, s.chunk>>, s.tag>> \in D
        BY DEF Slot
      <3>2. g[<<<<s.region, s.chunk>>, s.tag>>] = s
        BY <3>1 DEF Slot
      <3>3. QED BY <3>1, <3>2
    <2>4. g \in Surjection(D, Slot)
      BY <2>2, <2>3, Fun_IsSurj
    <2>5. QED BY <2>1, <2>4, FS_Surjection
  <1>5. QED BY <1>2, <1>3, <1>4

(* A region has as many freed slots as chunk_last_tag has nonzero entries. *)
LEMMA FreedOfRegion ==
  ASSUME TypeOK, NEW r \in Region
  PROVE  /\ IsFiniteSet(Freed) /\ IsFiniteSet(FreedChunks(r))
         /\ Cardinality({s \in Freed : s.region = r}) = Cardinality(FreedChunks(r))
  <1> DEFINE F == {s \in Freed : s.region = r}
             g == [c \in FreedChunks(r) |->
                     [region |-> r, chunk |-> c, tag |-> lastTag[r][c]]]
  <1>1. IsFiniteSet(Freed) /\ IsFiniteSet(FreedChunks(r))
    BY FiniteSets, FS_Subset DEF Freed, FreedChunks
  <1>2. lastTag[r] \in [Chunk -> Tag \cup {0}]
    BY DEF TypeOK
  <1>3. g \in [FreedChunks(r) -> F]
    BY <1>2 DEF FreedChunks, Freed, Slot
  <1>4. \A a, b \in FreedChunks(r) : g[a] = g[b] => a = b
    OBVIOUS
  <1>5. ASSUME NEW s \in F PROVE \E c \in FreedChunks(r) : g[c] = s
    <2>1. s \in Slot /\ s.region = r /\ lastTag[r][s.chunk] = s.tag
      BY DEF Freed
    <2>2. s.chunk \in FreedChunks(r)
      BY <2>1, SuperPoolAssumption DEF FreedChunks, Slot, Tag
    <2>3. g[s.chunk] = s
      BY <2>1, <2>2 DEF Slot
    <2>4. QED BY <2>2, <2>3
  <1>6. g \in Bijection(FreedChunks(r), F)
    BY <1>3, <1>4, <1>5, Fun_IsBij
  <1>7. QED BY <1>1, <1>6, FS_Bijection DEF ExistsBijection

------------------------------------------------------------------------------
(* What the operations do to the slots the program holds, to those of the  *)
(* batch and to those freed                                                *)

(* The inductive invariant: the type invariant and the safety properties.  *)
IInv ==
  /\ TypeOK
  /\ SingleOwner
  /\ TagsUniqueInRegion
  /\ RegionsAccounted
  /\ CountersExact
  /\ FreedListExact
  /\ DensityBounded
  /\ LoopsInBounds

(* The batch is a sequence of slots; Cached is its range. *)
LEMMA CachedSlots ==
  ASSUME TypeOK
  PROVE  /\ count \in Nat /\ DOMAIN batch = 1..count
         /\ \A i \in 1..count : batch[i] \in Slot
         /\ Cached \subseteq Slot /\ Freed \subseteq Slot /\ live \subseteq Slot
         /\ 0 \notin Tag
  <1>1. batch \in Seq(Slot) /\ count = Len(batch)
    BY DEF TypeOK
  <1>2. count \in Nat /\ DOMAIN batch = 1..count
    BY <1>1, LenProperties
  <1>3. \A i \in 1..count : batch[i] \in Slot
    BY <1>1, ElementOfSeq
  <1>4. QED
    BY <1>2, <1>3, SuperPoolAssumption DEF Cached, Freed, TypeOK, Tag

(* Zeroing chunk_last_tag of a region forgets its freed slots, no others. *)
LEMMA ForgetRegion ==
  ASSUME TypeOK, NEW r \in Region,
         lastTag' = [lastTag EXCEPT ![r] = [c \in Chunk |-> 0]]
  PROVE  /\ Freed' = {s \in Freed : s.region # r}
         /\ FreedChunks(r)' = {}
         /\ \A q \in Region : q # r => FreedChunks(q)' = FreedChunks(q)
         /\ lastTag' \in [Region -> [Chunk -> Tag \cup {0}]]
  <1>1. lastTag \in [Region -> [Chunk -> Tag \cup {0}]]
    BY DEF TypeOK
  <1>2. /\ \A q \in Region : q # r => lastTag'[q] = lastTag[q]
        /\ \A c \in Chunk : lastTag'[r][c] = 0
        /\ lastTag' \in [Region -> [Chunk -> Tag \cup {0}]]
    BY <1>1
  <1>3. ASSUME NEW s \in Slot
        PROVE  s \in Freed' <=> s \in Freed /\ s.region # r
    <2>1. s.region \in Region /\ s.chunk \in Chunk /\ s.tag # 0
      BY SuperPoolAssumption DEF Slot, Tag
    <2>2. QED BY <2>1, <1>2 DEF Freed
  <1>4. Freed' = {s \in Freed : s.region # r}
    BY <1>3 DEF Freed
  <1>5. QED BY <1>2, <1>4 DEF FreedChunks

(* The popped slot goes from the batch to the program. *)
LEMMA PopSlots ==
  ASSUME IInv, Pop, count > 0
  PROVE  /\ batch[count] \in Cached
         /\ live' = live \cup {batch[count]}
         /\ Cached' = Cached \ {batch[count]}
         /\ Freed' = Freed
         /\ count' \in Nat /\ count' = Len(batch') /\ batch' \in Seq(Slot)
         /\ \A i \in 1..count' : i \in 1..count /\ batch'[i] = batch[i]
  <1>1. /\ count \in Nat /\ \A i \in 1..count : batch[i] \in Slot
    BY CachedSlots DEF IInv
  <1>2. /\ batch' = SubSeq(batch, 1, count - 1) /\ count' = count - 1
        /\ live' = live \cup {batch[count]} /\ lastTag' = lastTag
    BY DEF Pop, regionVars
  <1>3. /\ batch' \in Seq(Slot)
        /\ Len(batch') = count'
        /\ \A i \in 1..count' : i \in 1..count /\ batch'[i] = batch[i]
    <2>1. \A i \in 1..(count - 1) : batch[i] \in Slot
      BY <1>1
    <2>2. /\ SubSeq(batch, 1, count - 1) \in Seq(Slot)
          /\ Len(SubSeq(batch, 1, count - 1))
               = IF 1 <= count - 1 THEN count - 1 - 1 + 1 ELSE 0
          /\ \A i \in 1..(count - 1 - 1 + 1) :
               SubSeq(batch, 1, count - 1)[i] = batch[1 + i - 1]
      BY <1>1, <2>1, SubSeqProperties
    <2>3. QED BY <1>1, <1>2, <2>2
  <1>4. \A i \in 1..(count - 1) : batch[i] # batch[count]
    BY <1>1 DEF IInv, SingleOwner, SameChunk
  <1>5. Cached' = Cached \ {batch[count]}
    BY <1>1, <1>2, <1>3, <1>4 DEF Cached
  <1>6. Freed' = Freed
    BY <1>2 DEF Freed
  <1>7. batch[count] \in Cached /\ count' \in Nat
    BY <1>1, <1>2 DEF Cached
  <1>8. QED BY <1>1, <1>2, <1>3, <1>5, <1>6, <1>7

(* The freed slot goes from the program to the record of freed chunks,     *)
(* where its chunk had no entry.                                           *)
LEMMA FreeSlots ==
  ASSUME IInv, NEW s \in live, Free(s)
  PROVE  /\ s \in Slot /\ s \notin Freed /\ s.chunk \notin FreedChunks(s.region)
         /\ live' = live \ {s}
         /\ Cached' = Cached
         /\ Freed' = Freed \cup {s}
         /\ FreedChunks(s.region)' = FreedChunks(s.region) \cup {s.chunk}
         /\ \A q \in Region : q # s.region => FreedChunks(q)' = FreedChunks(q)
         /\ lastTag' \in [Region -> [Chunk -> Tag \cup {0}]]
  <1> DEFINE r == s.region
  <1>1. s \in Slot /\ r \in Region /\ s.chunk \in Chunk /\ s.tag \in Tag /\ s.tag # 0
    BY CachedSlots DEF IInv, Slot
  <1>2. lastTag \in [Region -> [Chunk -> Tag \cup {0}]]
    BY DEF IInv, TypeOK
  <1>3. lastTag' = [lastTag EXCEPT ![r][s.chunk] = s.tag]
    BY DEF Free
  <1>4. lastTag[r][s.chunk] = 0
    <2> SUFFICES ASSUME lastTag[r][s.chunk] # 0 PROVE FALSE
      OBVIOUS
    <2> DEFINE u == [region |-> r, chunk |-> s.chunk, tag |-> lastTag[r][s.chunk]]
    <2>1. lastTag[r][s.chunk] \in Tag
      BY <1>1, <1>2
    <2>2. u \in Freed
      BY <1>1, <2>1 DEF Freed, Slot
    <2>3. QED BY <2>2 DEF IInv, SingleOwner, SameChunk
  <1>5. s \notin Freed /\ s.chunk \notin FreedChunks(r)
    BY <1>1, <1>4 DEF Freed, FreedChunks
  <1>6. /\ \A q \in Region : q # r => lastTag'[q] = lastTag[q]
        /\ \A c \in Chunk : lastTag'[r][c] = IF c = s.chunk THEN s.tag ELSE lastTag[r][c]
        /\ lastTag' \in [Region -> [Chunk -> Tag \cup {0}]]
    BY <1>1, <1>2, <1>3
  <1> HIDE DEF r
  <1>7. ASSUME NEW t \in Slot
        PROVE  t \in Freed' <=> t \in Freed \/ t = s
    <2>1. t.region \in Region /\ t.chunk \in Chunk /\ t.tag # 0
      BY SuperPoolAssumption DEF Slot, Tag
    <2>2. t = s <=> t.region = r /\ t.chunk = s.chunk /\ t.tag = s.tag
      BY <1>1 DEF Slot, r
    <2>3. QED BY <2>1, <2>2, <1>4, <1>6 DEF Freed
  <1>8. Freed' = Freed \cup {s}
    BY <1>1, <1>7 DEF Freed
  <1>9. Cached' = Cached /\ live' = live \ {s}
    BY DEF Free, cacheVars, Cached
  <1>10. FreedChunks(r)' = FreedChunks(r) \cup {s.chunk}
    BY <1>1, <1>6 DEF FreedChunks
  <1>11. \A q \in Region : q # r => FreedChunks(q)' = FreedChunks(q)
    BY <1>6 DEF FreedChunks
  <1>12. QED BY <1>1, <1>5, <1>6, <1>8, <1>9, <1>10, <1>11 DEF r

(* new holds each freed chunk of r once and each of their tags once. *)
Redistributes(new, r) ==
  /\ \A i \in 1..Len(new) :
       /\ new[i].region = r
       /\ \E u \in Freed : u.region = r /\ u.chunk = new[i].chunk
       /\ \E u \in Freed : u.region = r /\ u.tag = new[i].tag
  /\ \A u \in Freed : u.region = r =>
       \E i \in 1..Len(new) : new[i].chunk = u.chunk
  /\ \A i, j \in 1..Len(new) : /\ new[i].chunk = new[j].chunk => i = j
                               /\ new[i].tag = new[j].tag => i = j

(* What a refill writes for one region: one slot for each freed chunk of   *)
(* it, with the tags of those chunks, each used once.                      *)
LEMMA RotatedSlots ==
  ASSUME IInv, NEW r \in Region, NEW f \in Ascending(FreedChunks(r)),
         NEW n, n = Cardinality(FreedChunks(r)), NEW new, new = Rotated(r, f)
  PROVE  new \in Seq(Slot) /\ Len(new) = n /\ Redistributes(new, r)
  <1> DEFINE p(i) == IF i = 1 THEN n ELSE i - 1
  <1>1. n \in Nat
    BY FreedOfRegion, FS_CardinalityType DEF IInv
  <1>2. lastTag[r] \in [Chunk -> Tag \cup {0}]
    BY DEF IInv, TypeOK
  <1>3. /\ f \in [1..n -> FreedChunks(r)]
        /\ \A i, j \in 1..n : i < j => f[i] < f[j]
        /\ \A c \in FreedChunks(r) : \E i \in 1..n : f[i] = c
    BY DEF Ascending
  <1>4. FreedChunks(r) \subseteq Chunk /\ \A c \in FreedChunks(r) : lastTag[r][c] \in Tag
    BY <1>2 DEF FreedChunks
  <1>5. \A i \in 1..n : p(i) \in 1..n
    BY <1>1
  <1>6. new = [i \in 1..n |-> [region |-> r, chunk |-> f[i], tag |-> lastTag[r][f[p(i)]]]]
    BY DEF Rotated
  <1> HIDE DEF p
  <1>7. \A i \in 1..n : /\ new[i].region = r
                        /\ new[i].chunk = f[i]
                        /\ new[i].tag = lastTag[r][f[p(i)]]
                        /\ new[i] \in Slot
    <2> SUFFICES ASSUME NEW i \in 1..n
                 PROVE  /\ new[i].region = r
                        /\ new[i].chunk = f[i]
                        /\ new[i].tag = lastTag[r][f[p(i)]]
                        /\ new[i] \in Slot
      OBVIOUS
    <2>1. new[i] = [region |-> r, chunk |-> f[i], tag |-> lastTag[r][f[p(i)]]]
      BY <1>6
    <2>2. f[i] \in Chunk /\ lastTag[r][f[p(i)]] \in Tag
      BY <1>3, <1>4, <1>5
    <2>3. QED BY <2>1, <2>2 DEF Slot
  <1>8. new \in Seq(Slot) /\ Len(new) = n
    <2>1. /\ DOMAIN new = 1..n /\ new = [i \in 1..n |-> new[i]]
      BY <1>6
    <2>2. new \in [1..n -> Slot]
      BY <2>1, <1>7
    <2>3. QED BY <1>1, <2>2
  <1>9. ASSUME NEW i \in 1..n, NEW j \in 1..n, i # j PROVE f[i] # f[j]
    <2>1. f[i] \in Int /\ f[j] \in Int
      BY <1>3, <1>4 DEF Chunk
    <2>2. i \in Int /\ j \in Int
      BY <1>1
    <2>3. QED BY <1>3, <1>9, <2>1, <2>2
  <1>10. ASSUME NEW c \in FreedChunks(r)
         PROVE  \E u \in Freed : u.region = r /\ u.chunk = c /\ u.tag = lastTag[r][c]
    <2> DEFINE u == [region |-> r, chunk |-> c, tag |-> lastTag[r][c]]
    <2>1. u \in Slot
      BY <1>4 DEF Slot
    <2>2. u \in Freed
      BY <2>1 DEF Freed
    <2>3. QED BY <2>2
  <1>11. ASSUME NEW i \in 1..n
         PROVE  /\ \E u \in Freed : u.region = r /\ u.chunk = new[i].chunk
                /\ \E u \in Freed : u.region = r /\ u.tag = new[i].tag
    <2>1. f[i] \in FreedChunks(r) /\ f[p(i)] \in FreedChunks(r)
      BY <1>3, <1>5
    <2>2. QED BY <2>1, <1>7, <1>10
  <1>12. ASSUME NEW u \in Freed, u.region = r
         PROVE  \E i \in 1..n : new[i].chunk = u.chunk
    <2>1. u.chunk \in FreedChunks(r)
      BY <1>12, SuperPoolAssumption DEF Freed, FreedChunks, Slot, Tag
    <2>2. QED BY <2>1, <1>3, <1>7
  <1>13. ASSUME NEW i \in 1..n, NEW j \in 1..n
         PROVE  /\ new[i].chunk = new[j].chunk => i = j
                /\ new[i].tag = new[j].tag => i = j
    <2>1. new[i].chunk = new[j].chunk => i = j
      BY <1>7, <1>9
    <2>2. ASSUME new[i].tag = new[j].tag PROVE i = j
      <3>1. f[p(i)] \in FreedChunks(r) /\ f[p(j)] \in FreedChunks(r)
        BY <1>3, <1>5
      <3>2. lastTag[r][f[p(i)]] = lastTag[r][f[p(j)]]
        BY <2>2, <1>7
      <3>3. f[p(i)] = f[p(j)]
        BY <3>1, <3>2, <1>10 DEF IInv, TagsUniqueInRegion, Held
      <3>4. p(i) = p(j)
        BY <3>3, <1>5, <1>9
      <3>5. QED BY <3>4, <1>1 DEF p
    <2>3. QED BY <2>1, <2>2
  <1>14. QED
    <2>1. \A i \in 1..n : /\ new[i].region = r
                          /\ \E u \in Freed : u.region = r /\ u.chunk = new[i].chunk
                          /\ \E u \in Freed : u.region = r /\ u.tag = new[i].tag
      BY <1>7, <1>11
    <2>2. \A u \in Freed : u.region = r => \E i \in 1..n : new[i].chunk = u.chunk
      BY <1>12
    <2>3. \A i, j \in 1..n : /\ new[i].chunk = new[j].chunk => i = j
                             /\ new[i].tag = new[j].tag => i = j
      BY <1>13
    <2>4. QED BY ONLY <1>8, <2>1, <2>2, <2>3 DEF Redistributes

(* A turn of the refill loop moves the freed slots of one region to the    *)
(* batch, with their tags redistributed.                                   *)
LEMMA RefillSlots ==
  ASSUME IInv, RefillFromRegion, NEW r, r = freedList[cursor]
  PROVE  /\ r \in Region /\ cursor \in 1..Len(freedList)
         /\ live' = live
         /\ Freed' = {s \in Freed : s.region # r}
         /\ FreedChunks(r)' = {}
         /\ \A q \in Region : q # r => FreedChunks(q)' = FreedChunks(q)
         /\ lastTag' \in [Region -> [Chunk -> Tag \cup {0}]]
         /\ \E new \in Seq(Slot) :
              /\ batch' = batch \o new
              /\ Len(new) = freedNum[r]
              /\ Redistributes(new, r)
  <1>1. freedList \in Seq(Region) /\ cursor \in DOMAIN freedList
    BY DEF RefillFromRegion, IInv, TypeOK, LoopsInBounds
  <1>2. r \in Region /\ cursor \in 1..Len(freedList)
    BY <1>1, LenProperties, ElementOfSeq
  <1>3. lastTag' = [lastTag EXCEPT ![r] = [c \in Chunk |-> 0]] /\ live' = live
    BY DEF RefillFromRegion, TagsTaken
  <1>4. PICK f \in Ascending(FreedChunks(r)) : batch' = batch \o Rotated(r, f)
    BY DEF RefillFromRegion
  <1>5. freedNum[r] = Cardinality(FreedChunks(r))
    BY <1>2 DEF IInv, CountersExact
  <1>6. TypeOK
    BY DEF IInv
  <1>7. /\ Freed' = {s \in Freed : s.region # r}
        /\ FreedChunks(r)' = {}
        /\ \A q \in Region : q # r => FreedChunks(q)' = FreedChunks(q)
        /\ lastTag' \in [Region -> [Chunk -> Tag \cup {0}]]
    BY <1>2, <1>3, <1>6, ForgetRegion
  <1>8. /\ Rotated(r, f) \in Seq(Slot)
        /\ Len(Rotated(r, f)) = freedNum[r]
        /\ Redistributes(Rotated(r, f), r)
    BY <1>2, <1>4, <1>5, RotatedSlots
  <1>9. QED BY <1>2, <1>3, <1>4, <1>7, <1>8

(* A refill extends the batch, so its slots are the old ones and the new.  *)
LEMMA ConcatCached ==
  ASSUME TypeOK, NEW new \in Seq(Slot), batch' = batch \o new,
         count' = count + Len(new)
  PROVE  /\ count' \in Nat /\ batch' \in Seq(Slot) /\ Len(batch') = count'
         /\ \A i \in 1..count' : batch'[i] = IF i <= count THEN batch[i]
                                                          ELSE new[i - count]
         /\ Cached' = Cached \cup {new[i] : i \in 1..Len(new)}
  <1>1. batch \in Seq(Slot) /\ count = Len(batch) /\ count \in Nat /\ Len(new) \in Nat
    BY CachedSlots DEF TypeOK
  <1>2. /\ batch \o new \in Seq(Slot)
        /\ Len(batch \o new) = Len(batch) + Len(new)
        /\ \A i \in 1..(Len(batch) + Len(new)) :
             (batch \o new)[i] = IF i <= Len(batch) THEN batch[i] ELSE new[i - Len(batch)]
    BY <1>1, ConcatProperties
  <1>3. /\ count' \in Nat /\ batch' \in Seq(Slot) /\ Len(batch') = count'
        /\ \A i \in 1..count' : batch'[i] = IF i <= count THEN batch[i]
                                                         ELSE new[i - count]
    BY <1>1, <1>2
  <1>4. ASSUME NEW i \in 1..Len(new)
        PROVE  count + i \in 1..count' /\ batch'[count + i] = new[i]
    <2>1. count + i \in 1..count' /\ ~(count + i <= count) /\ (count + i) - count = i
      BY <1>1
    <2>2. QED BY <2>1, <1>3
  <1>5. ASSUME NEW i \in 1..count
        PROVE  i \in 1..count' /\ batch'[i] = batch[i]
    BY <1>1, <1>3
  <1>6. ASSUME NEW i \in 1..count'
        PROVE  \/ i \in 1..count /\ batch'[i] = batch[i]
               \/ i - count \in 1..Len(new) /\ batch'[i] = new[i - count]
    BY <1>1, <1>3
  <1>7. Cached' = Cached \cup {new[i] : i \in 1..Len(new)}
    <2> DEFINE N == {new[i] : i \in 1..Len(new)}
    <2>1. ASSUME NEW s \in Cached' PROVE s \in Cached \cup N
      <3>1. PICK i \in 1..count' : s = batch'[i]
        BY DEF Cached
      <3>2. QED BY <3>1, <1>6 DEF Cached
    <2>2. ASSUME NEW s \in Cached PROVE s \in Cached'
      <3>1. PICK i \in 1..count : s = batch[i]
        BY DEF Cached
      <3>2. QED BY <3>1, <1>5 DEF Cached
    <2>3. ASSUME NEW i \in 1..Len(new) PROVE new[i] \in Cached'
      BY <1>4 DEF Cached
    <2>4. QED BY <2>1, <2>2, <2>3
  <1>8. QED BY <1>3, <1>7

(* A new region's slots: each chunk and each tag once. *)
LEMMA NewRegionSlots ==
  ASSUME IInv, AllocateNewRegion
  PROVE  \E p \in Pool, x \in 1..AllRegionsInPool :
           LET r == <<p, x>>
           IN  /\ r \in Region /\ status[r] = 0 /\ ChosenPool(p)
               /\ status' = [status EXCEPT ![r] = 1]
               /\ regionList' = regionList \cup {r}
               /\ density' = [density EXCEPT ![p] = @ + 1]
               /\ poolList' = IF \E i \in DOMAIN poolList : poolList[i] = p
                                THEN poolList ELSE Append(poolList, p)
               /\ freedNum' = [freedNum EXCEPT ![r] = 0]
               /\ inFreeList' = [inFreeList EXCEPT ![r] = FALSE]
               /\ live' = live /\ Freed' = Freed /\ Cached = {}
               /\ batch' \in Seq(Slot) /\ Len(batch') = Available
               /\ \A i \in 1..Available : batch'[i].region = r /\ batch'[i].chunk = i
               /\ \A i, j \in 1..Available : batch'[i].tag = batch'[j].tag => i = j
  <1>1. PICK p \in Pool, x \in 1..AllRegionsInPool, tags \in Bijection(Chunk, Tag) :
          LET r == <<p, x>>
          IN /\ ChosenPool(p)
             /\ status[r] = 0
             /\ poolList' = IF \E i \in DOMAIN poolList : poolList[i] = p
                              THEN poolList ELSE Append(poolList, p)
             /\ density' = [density EXCEPT ![p] = @ + 1]
             /\ regionList' = regionList \cup {r}
             /\ status' = [status EXCEPT ![r] = 1]
             /\ freedNum' = [freedNum EXCEPT ![r] = 0]
             /\ inFreeList' = [inFreeList EXCEPT ![r] = FALSE]
             /\ batch' = [c \in Chunk |->
                            [region |-> r, chunk |-> c, tag |-> tags[c]]]
    BY DEF AllocateNewRegion, FreshBatch
  <1> DEFINE r == <<p, x>>
  <1>2. r \in Region
    BY DEF Region
  <1>3. /\ tags \in [Chunk -> Tag]
        /\ \A a, b \in Chunk : tags[a] = tags[b] => a = b
    BY Fun_BijectionProperties
  <1> HIDE DEF r
  <1>4. \A c \in Chunk : /\ batch'[c] = [region |-> r, chunk |-> c, tag |-> tags[c]]
                         /\ batch'[c] \in Slot
    BY <1>1, <1>2, <1>3 DEF r, Slot
  <1>5. batch' \in [1..Available -> Slot]
    <2>1. batch' = [c \in Chunk |-> batch'[c]]
      BY <1>1
    <2>2. QED BY <2>1, <1>4 DEF Chunk
  <1>6. batch' \in Seq(Slot) /\ Len(batch') = Available
    BY <1>5, SuperPoolAssumption
  <1>7. /\ \A i \in 1..Available : batch'[i].region = r /\ batch'[i].chunk = i
        /\ \A i, j \in 1..Available : batch'[i].tag = batch'[j].tag => i = j
    <2>1. \A c \in Chunk : /\ batch'[c].region = r /\ batch'[c].chunk = c
                           /\ batch'[c].tag = tags[c]
      <3> TAKE c \in Chunk
      <3>1. batch'[c] = [region |-> r, chunk |-> c, tag |-> tags[c]]
        BY <1>4
      <3>2. QED BY <3>1
    <2>2. \A a, b \in Chunk : batch'[a].tag = batch'[b].tag => a = b
      BY <2>1, <1>3
    <2>3. Chunk = 1..Available
      BY DEF Chunk
    <2>4. QED BY ONLY <2>1, <2>2, <2>3
  <1>8. live' = live /\ Freed' = Freed
    BY DEF AllocateNewRegion, Freed
  <1>9. Cached = {}
    <2>1. count = 0
      BY DEF IInv, LoopsInBounds, AllocateNewRegion
    <2>2. QED BY <2>1 DEF Cached
  <1>10. WITNESS p \in Pool, x \in 1..AllRegionsInPool
  <1>11. QED BY <1>1, <1>2, <1>6, <1>7, <1>8, <1>9 DEF r

(* A released region has nothing but freed chunks. *)
LEMMA ReleaseSlots ==
  ASSUME IInv, ReleaseRegion, NEW r, r = freedList[cursor]
  PROVE  /\ r \in Region /\ cursor \in 1..Len(freedList)
         /\ live' = live /\ Cached' = Cached
         /\ Freed' = {s \in Freed : s.region # r}
         /\ \A s \in live \cup Cached : s.region # r
         /\ FreedChunks(r)' = {}
         /\ \A q \in Region : q # r => FreedChunks(q)' = FreedChunks(q)
         /\ lastTag' \in [Region -> [Chunk -> Tag \cup {0}]]
         /\ Cardinality(FreedChunks(r)) = Available
  <1>1. freedList \in Seq(Region) /\ cursor \in 1..(Len(freedList) + 1)
        /\ cursor <= Len(freedList) /\ Len(freedList) \in Nat
    BY LenProperties DEF ReleaseRegion, IInv, TypeOK, LoopsInBounds
  <1>2. r \in Region /\ cursor \in 1..Len(freedList)
    BY <1>1, ElementOfSeq
  <1>3. lastTag' = [lastTag EXCEPT ![r] = [c \in Chunk |-> 0]] /\ live' = live
        /\ UNCHANGED cacheVars /\ freedNum[r] = Available
    BY DEF ReleaseRegion, AllFree
  <1>4. Cardinality(FreedChunks(r)) = Available
    BY <1>2, <1>3 DEF IInv, CountersExact
  <1>5. FreedChunks(r) = Chunk
    <2>1. FreedChunks(r) \in SUBSET Chunk
      BY DEF FreedChunks
    <2>2. QED BY <2>1, <1>4, FiniteSets, FS_Subset
  <1>6. TypeOK
    BY DEF IInv
  <1>7. ASSUME NEW s \in live \cup Cached PROVE s.region # r
    <2> SUFFICES ASSUME s.region = r PROVE FALSE
      OBVIOUS
    <2> DEFINE u == [region |-> r, chunk |-> s.chunk, tag |-> lastTag[r][s.chunk]]
    <2>1. s \in Slot /\ s.chunk \in Chunk
      BY <1>6, CachedSlots DEF Slot
    <2>2. lastTag[r][s.chunk] # 0
      BY <1>5, <2>1 DEF FreedChunks
    <2>3. lastTag[r][s.chunk] \in Tag
      BY <1>2, <2>1, <2>2, <1>6 DEF TypeOK
    <2>4. u \in Freed
      BY <1>2, <2>1, <2>3 DEF Freed, Slot
    <2>5. QED BY <2>4 DEF IInv, SingleOwner, SameChunk
  <1>8. Cached' = Cached
    BY <1>3 DEF cacheVars, Cached
  <1>9. QED BY <1>2, <1>3, <1>4, <1>6, <1>7, <1>8, ForgetRegion

------------------------------------------------------------------------------
(* Ownership: SingleOwner, TagsUniqueInRegion and RegionsAccounted *)

Owner == SingleOwner /\ TagsUniqueInRegion /\ RegionsAccounted

(* An allocation from the batch keeps chunks and tags apart. *)
LEMMA OwnerPop ==
  ASSUME IInv, Pop, count > 0
  PROVE  Owner'
  <1>1. status' = status
    BY DEF Pop, regionVars
  <1>2. \A i \in 1..count' : i \in 1..count /\ batch'[i] = batch[i]
    BY PopSlots
  <1>3. \A i, j \in 1..count' : i # j => ~SameChunk(batch'[i], batch'[j])
    BY <1>2 DEF IInv, SingleOwner
  <1>4. Held' = Held
    BY PopSlots DEF Held
  <1>5. ASSUME NEW s \in Cached' PROVE s \in Cached /\ ~SameChunk(s, batch[count])
    <2>1. PICK i \in 1..count' : s = batch'[i]
      BY DEF Cached
    <2>2. i \in 1..count /\ s = batch[i] /\ i # count /\ count \in 1..count
      BY <2>1, <1>2, CachedSlots DEF IInv, Pop
    <2>3. QED BY <2>2 DEF Cached, IInv, SingleOwner
  <1>6. SingleOwner'
    <2>1. \A s, t : SameChunk(s, t) => SameChunk(t, s)
      BY DEF SameChunk
    <2>2. ASSUME NEW s \in live', NEW t \in Cached' \cup Freed'
          PROVE  ~SameChunk(s, t)
      BY <1>5, <2>1, PopSlots DEF IInv, SingleOwner
    <2>3. ASSUME NEW s \in Cached', NEW t \in Freed'
          PROVE  ~SameChunk(s, t)
      BY <1>5, PopSlots DEF IInv, SingleOwner
    <2>4. QED BY <1>3, <2>2, <2>3 DEF SingleOwner, SameChunk
  <1>7. TagsUniqueInRegion' /\ RegionsAccounted'
    BY <1>1, <1>4 DEF IInv, TagsUniqueInRegion, RegionsAccounted
  <1>8. QED BY <1>6, <1>7 DEF Owner

(* A deallocation keeps chunks and tags apart. *)
LEMMA OwnerFree ==
  ASSUME IInv, NEW s \in live, Free(s)
  PROVE  Owner'
  <1>1. status' = status /\ count' = count /\ batch' = batch
    BY DEF Free, cacheVars
  <1>2. /\ live' = live \ {s} /\ Cached' = Cached /\ Freed' = Freed \cup {s}
    BY FreeSlots
  <1>3. Held' = Held
    BY <1>2 DEF Held
  <1>4. ASSUME NEW t \in live', SameChunk(t, s) PROVE FALSE
    <2>1. t \in Slot /\ s \in Slot /\ t \in Held /\ s \in Held /\ t # s
      BY <1>2, CachedSlots DEF IInv, Held
    <2>2. t.tag = s.tag
      BY <1>4, <2>1 DEF IInv, TagsUniqueInRegion, SameChunk
    <2>3. QED BY <1>4, <2>1, <2>2 DEF Slot, SameChunk
  <1>5. SingleOwner'
    <2>1. \A i, j \in 1..count' : i # j => ~SameChunk(batch'[i], batch'[j])
      BY <1>1 DEF IInv, SingleOwner
    <2>2. ASSUME NEW t \in live', NEW u \in Cached' \cup Freed'
          PROVE  ~SameChunk(t, u)
      BY <1>2, <1>4 DEF IInv, SingleOwner
    <2>3. ASSUME NEW t \in Cached', NEW u \in Freed'
          PROVE  ~SameChunk(t, u)
      BY <1>2 DEF IInv, SingleOwner, SameChunk
    <2>4. QED BY <2>1, <2>2, <2>3 DEF SingleOwner, SameChunk
  <1>6. TagsUniqueInRegion' /\ RegionsAccounted'
    BY <1>1, <1>3 DEF IInv, TagsUniqueInRegion, RegionsAccounted
  <1>7. QED BY <1>5, <1>6 DEF Owner

(* The release of a region keeps chunks and tags apart. *)
LEMMA OwnerRelease ==
  ASSUME IInv, ReleaseRegion
  PROVE  Owner'
  <1> DEFINE r == freedList[cursor]
  <1>1. /\ r \in Region /\ live' = live /\ Cached' = Cached
        /\ Freed' = {s \in Freed : s.region # r}
        /\ \A s \in live \cup Cached : s.region # r
    BY ReleaseSlots
  <1>2. status' = [status EXCEPT ![r] = 0] /\ count' = count /\ batch' = batch
    BY DEF ReleaseRegion, cacheVars
  <1>3. status \in [Region -> {0, 1}]
    BY DEF IInv, TypeOK
  <1> HIDE DEF r
  <1>4. Held' = {s \in Held : s.region # r}
    BY <1>1 DEF Held
  <1>5. SingleOwner'
    BY <1>1, <1>2 DEF IInv, SingleOwner, SameChunk
  <1>6. TagsUniqueInRegion'
    BY <1>4 DEF IInv, TagsUniqueInRegion
  <1>7. ASSUME NEW q \in Region, NEW c \in Chunk
        PROVE  (\E s \in Held' : s.region = q /\ s.chunk = c) <=> status'[q] = 1
    <2>1. CASE q = r
      BY <2>1, <1>1, <1>2, <1>3, <1>4
    <2>2. CASE q # r
      <3>1. status'[q] = status[q]
        BY <2>2, <1>2, <1>3
      <3>2. QED BY <2>2, <3>1, <1>4 DEF IInv, RegionsAccounted
    <2>3. QED BY <2>1, <2>2
  <1>8. RegionsAccounted'
    BY <1>7 DEF RegionsAccounted
  <1>9. QED BY <1>5, <1>6, <1>8 DEF Owner

(* A turn of the refill loop keeps chunks and tags apart: the new tags are *)
(* the old ones of the same region.                                        *)
LEMMA OwnerRefill ==
  ASSUME IInv, RefillFromRegion
  PROVE  Owner'
  <1> DEFINE r == freedList[cursor]
  <1>1. /\ r \in Region /\ live' = live
        /\ Freed' = {s \in Freed : s.region # r}
    BY RefillSlots
  <1>2. PICK new \in Seq(Slot) :
          batch' = batch \o new /\ Len(new) = freedNum[r] /\ Redistributes(new, r)
    BY RefillSlots
  <1>3. status' = status /\ count' = count + Len(new) /\ count \in Nat /\ Len(new) \in Nat
    BY <1>2, CachedSlots, LenProperties DEF RefillFromRegion, IInv
  <1> HIDE DEF r
  <1> DEFINE N == {new[i] : i \in 1..Len(new)}
  <1>4. /\ \A i \in 1..count' : batch'[i] = IF i <= count THEN batch[i]
                                                        ELSE new[i - count]
        /\ Cached' = Cached \cup N
        /\ count' \in Nat
    BY <1>2, <1>3, ConcatCached DEF IInv
  <1>5. /\ \A s \in N : /\ s.region = r
                        /\ \E u \in Freed : u.region = r /\ u.chunk = s.chunk
                        /\ \E u \in Freed : u.region = r /\ u.tag = s.tag
        /\ \A u \in Freed : u.region = r => \E s \in N : s.chunk = u.chunk
        /\ \A s, t \in N : s.chunk = t.chunk <=> s.tag = t.tag
    <2>1. \A s \in N : \E i \in 1..Len(new) : s = new[i]
      OBVIOUS
    <2>2. \A i \in 1..Len(new) : new[i] \in N
      OBVIOUS
    <2> HIDE DEF N
    <2>3. \A s \in N : /\ s.region = r
                       /\ \E u \in Freed : u.region = r /\ u.chunk = s.chunk
                       /\ \E u \in Freed : u.region = r /\ u.tag = s.tag
      <3> TAKE s \in N
      <3>1. PICK i \in 1..Len(new) : s = new[i]
        BY <2>1
      <3>2. QED BY <3>1, <1>2 DEF Redistributes
    <2>4. ASSUME NEW u \in Freed, u.region = r
          PROVE  \E s \in N : s.chunk = u.chunk
      <3>1. PICK i \in 1..Len(new) : new[i].chunk = u.chunk
        BY <2>4, <1>2 DEF Redistributes
      <3>2. QED BY <3>1, <2>2
    <2>5. \A s, t \in N : s.chunk = t.chunk <=> s.tag = t.tag
      <3> TAKE s \in N, t \in N
      <3>1. PICK i \in 1..Len(new) : s = new[i]
        BY <2>1
      <3>2. PICK j \in 1..Len(new) : t = new[j]
        BY <2>1
      <3>3. QED BY <3>1, <3>2, <1>2 DEF Redistributes
    <2>6. QED BY <2>3, <2>4, <2>5
  <1> HIDE DEF N
  <1>6. ASSUME NEW s \in N, NEW t \in live \cup Cached PROVE ~SameChunk(s, t)
    BY <1>5 DEF IInv, SingleOwner, SameChunk
  <1>7. \A i, j \in 1..count' : i # j => ~SameChunk(batch'[i], batch'[j])
    <2> SUFFICES ASSUME NEW i \in 1..count', NEW j \in 1..count', i < j
                 PROVE  ~SameChunk(batch'[i], batch'[j])
      BY <1>4 DEF SameChunk
    <2>1. CASE j <= count
      BY <2>1, <1>3, <1>4 DEF IInv, SingleOwner
    <2>2. CASE i <= count /\ j > count
      <3>1. batch'[i] \in Cached
        BY <2>2, <1>3, <1>4 DEF Cached
      <3>2. batch'[j] \in N
        BY <2>2, <1>3, <1>4 DEF N
      <3>3. QED BY <3>1, <3>2, <1>6 DEF SameChunk
    <2>3. CASE i > count
      <3>1. /\ i - count \in 1..Len(new) /\ batch'[i] = new[i - count]
            /\ j - count \in 1..Len(new) /\ batch'[j] = new[j - count]
        BY <2>3, <1>3, <1>4
      <3>2. \A k, l \in 1..Len(new) : new[k].chunk = new[l].chunk => k = l
        BY ONLY <1>2 DEF Redistributes
      <3>3. i - count # j - count
        BY <1>3
      <3>4. new[i - count].chunk # new[j - count].chunk
        BY ONLY <3>1, <3>2, <3>3
      <3>5. QED BY ONLY <3>1, <3>4 DEF SameChunk
    <2>4. QED BY <2>1, <2>2, <2>3, <1>3, <1>4
  <1>8. SingleOwner'
    <2>1. ASSUME NEW s \in live', NEW t \in Cached' \cup Freed'
          PROVE  ~SameChunk(s, t)
      BY <1>1, <1>4, <1>6 DEF IInv, SingleOwner, SameChunk
    <2>2. ASSUME NEW s \in Cached', NEW t \in Freed'
          PROVE  ~SameChunk(s, t)
      BY <1>1, <1>4, <1>5 DEF IInv, SingleOwner, SameChunk
    <2>3. QED BY <1>7, <2>1, <2>2 DEF SingleOwner, SameChunk
  <1>9. Held' = {s \in Held : s \in live \cup Cached \/ s.region # r} \cup N
    BY <1>1, <1>4 DEF Held
  <1>10. ASSUME NEW s \in Held', NEW t \in Held', s.region = t.region
         PROVE  s.chunk = t.chunk <=> s.tag = t.tag
    <2>1. CASE s \in N /\ t \in N
      BY <2>1, <1>5
    <2>2. CASE s \notin N /\ t \notin N
      BY <2>2, <1>9, <1>10 DEF IInv, TagsUniqueInRegion
    <2>3. ASSUME NEW a \in N, NEW b \in Held, b \in live \cup Cached, a.region = b.region
          PROVE  a.chunk # b.chunk /\ a.tag # b.tag
      <3>1. a.chunk # b.chunk
        BY <2>3, <1>6 DEF SameChunk
      <3>2. PICK u \in Freed : u.region = r /\ u.tag = a.tag
        BY <1>5
      <3>3. a.tag = b.tag => u.chunk = b.chunk /\ u.region = b.region
        BY <3>2, <2>3, <1>5 DEF IInv, TagsUniqueInRegion, Held
      <3>4. QED BY <3>1, <3>3, <2>3 DEF IInv, SingleOwner, SameChunk
    <2>4. \A a \in Held' : a \notin N /\ a.region = r => a \in Held /\ a \in live \cup Cached
      BY <1>9
    <2>5. QED BY <1>5, <1>10, <2>1, <2>2, <2>3, <2>4
  <1>11. ASSUME NEW q \in Region, NEW c \in Chunk
         PROVE  (\E s \in Held' : s.region = q /\ s.chunk = c)
                  <=> (\E s \in Held : s.region = q /\ s.chunk = c)
    <2>1. ASSUME NEW s \in Held', s.region = q, s.chunk = c
          PROVE  \E t \in Held : t.region = q /\ t.chunk = c
      <3>1. CASE s \in N
        BY <3>1, <2>1, <1>5 DEF Held
      <3>2. CASE s \in Held
        BY <3>2, <2>1
      <3>3. QED BY <3>1, <3>2, <1>9
    <2>2. ASSUME NEW s \in Held, s.region = q, s.chunk = c
          PROVE  \E t \in Held' : t.region = q /\ t.chunk = c
      <3>1. CASE s \in live \cup Cached \/ s.region # r
        BY <3>1, <2>2, <1>9
      <3>2. CASE s \in Freed /\ s.region = r
        BY <3>2, <2>2, <1>5, <1>9
      <3>3. QED BY <3>1, <3>2 DEF Held
    <2>3. QED BY <2>1, <2>2
  <1>12. RegionsAccounted'
    BY <1>3, <1>11 DEF IInv, RegionsAccounted
  <1>13. QED BY <1>8, <1>10, <1>12 DEF Owner, TagsUniqueInRegion

(* A new region comes with chunks and tags of its own. *)
LEMMA OwnerNewRegion ==
  ASSUME IInv, AllocateNewRegion
  PROVE  Owner'
  <1>1. PICK p \in Pool, x \in 1..AllRegionsInPool :
           LET r == <<p, x>>
           IN  /\ r \in Region /\ status[r] = 0
               /\ status' = [status EXCEPT ![r] = 1]
               /\ live' = live /\ Freed' = Freed /\ Cached = {}
               /\ batch' \in Seq(Slot) /\ Len(batch') = Available
               /\ \A i \in 1..Available : batch'[i].region = r /\ batch'[i].chunk = i
               /\ \A i, j \in 1..Available : batch'[i].tag = batch'[j].tag => i = j
    BY NewRegionSlots
  <1> DEFINE r == <<p, x>>
  <1>2. count' = Available
    BY DEF AllocateNewRegion
  <1>3. /\ \A s \in Cached' : s.region = r
        /\ \A c \in Chunk : \E s \in Cached' : s.chunk = c
        /\ \A s, t \in Cached' : s.chunk = t.chunk <=> s.tag = t.tag
    BY <1>1, <1>2 DEF Cached, Chunk
  <1>4. live \cup Freed = Held /\ Held' = Held \cup Cached'
    BY <1>1 DEF Held
  <1>5. \A s \in Held : s \in Slot /\ s.chunk \in Chunk
    BY CachedSlots DEF Held, IInv, Slot
  <1>6. \A s \in Held : s.region # r
    BY <1>1, <1>5 DEF IInv, RegionsAccounted
  <1>7. status \in [Region -> {0, 1}]
    BY DEF IInv, TypeOK
  <1>8. \A i, j \in 1..count' : i # j => ~SameChunk(batch'[i], batch'[j])
    BY <1>1, <1>2 DEF SameChunk
  <1>9. r \in Region /\ status[r] = 0 /\ status' = [status EXCEPT ![r] = 1]
        /\ live' = live /\ Freed' = Freed /\ Cached = {}
    BY <1>1
  <1> HIDE DEF r
  <1>10. SingleOwner'
    <2>1. ASSUME NEW s \in live', NEW t \in Cached' \cup Freed'
          PROVE  ~SameChunk(s, t)
      BY <1>3, <1>4, <1>6, <1>9 DEF IInv, SingleOwner, SameChunk
    <2>2. ASSUME NEW s \in Cached', NEW t \in Freed'
          PROVE  ~SameChunk(s, t)
      BY <1>3, <1>4, <1>6, <1>9 DEF SameChunk
    <2>3. QED BY <1>8, <2>1, <2>2 DEF SingleOwner, SameChunk
  <1>11. TagsUniqueInRegion'
    BY <1>3, <1>4, <1>6 DEF IInv, TagsUniqueInRegion
  <1>12. ASSUME NEW q \in Region, NEW c \in Chunk
         PROVE  (\E s \in Held' : s.region = q /\ s.chunk = c) <=> status'[q] = 1
    <2>1. CASE q = r
      BY <2>1, <1>3, <1>4, <1>7, <1>9
    <2>2. CASE q # r
      <3>1. status'[q] = status[q]
        BY <2>2, <1>7, <1>9
      <3>2. QED BY <2>2, <3>1, <1>3, <1>4 DEF IInv, RegionsAccounted
    <2>3. QED BY <2>1, <2>2
  <1>13. QED BY <1>10, <1>11, <1>12 DEF Owner, RegionsAccounted

------------------------------------------------------------------------------
(* Counters: CountersExact *)

(* The count of all freed chunks is that of one region and of the others. *)
LEMMA SplitFreed ==
  ASSUME TypeOK, NEW r \in Region
  PROVE  LET rest == {s \in Freed : s.region # r}
         IN  /\ IsFiniteSet(rest)
             /\ Cardinality(rest) \in Nat
             /\ Cardinality(FreedChunks(r)) \in Nat
             /\ Cardinality(Freed) = Cardinality(rest) + Cardinality(FreedChunks(r))
  <1> DEFINE rest == {s \in Freed : s.region # r}
             mine == {s \in Freed : s.region = r}
  <1>1. IsFiniteSet(Freed) /\ Cardinality(mine) = Cardinality(FreedChunks(r))
    BY FreedOfRegion
  <1>2. IsFiniteSet(rest) /\ IsFiniteSet(mine)
    BY <1>1, FS_Subset
  <1>3. rest \cap mine = {} /\ rest \cup mine = Freed
    OBVIOUS
  <1> HIDE DEF rest, mine
  <1>4. Cardinality(Freed) = Cardinality(rest) + Cardinality(mine) - 0
    <2>1. Cardinality(rest \cup mine)
            = Cardinality(rest) + Cardinality(mine) - Cardinality(rest \cap mine)
      BY <1>2, FS_Union
    <2>2. Cardinality(rest \cap mine) = 0
      BY <1>3, FS_EmptySet
    <2>3. QED BY ONLY <2>1, <2>2, <1>3
  <1>5. Cardinality(rest) \in Nat /\ Cardinality(mine) \in Nat
    BY <1>2, FS_CardinalityType
  <1>6. QED BY <1>1, <1>2, <1>4, <1>5 DEF rest

(* A region that is not in use has no freed chunk. *)
LEMMA InactiveNotFreed ==
  ASSUME IInv, NEW r \in Region, status[r] = 0
  PROVE  FreedChunks(r) = {} /\ freedNum[r] = 0
  <1>1. ASSUME NEW c \in FreedChunks(r) PROVE FALSE
    <2> DEFINE u == [region |-> r, chunk |-> c, tag |-> lastTag[r][c]]
    <2>1. c \in Chunk /\ lastTag[r][c] \in Tag
      BY DEF FreedChunks, IInv, TypeOK
    <2>2. u \in Freed
      BY <2>1 DEF Freed, Slot
    <2>3. QED BY <2>1, <2>2 DEF IInv, RegionsAccounted, Held
  <1>2. QED BY <1>1, FS_EmptySet DEF IInv, CountersExact

(* A deallocation counts the chunk; freed_num stays below 256. *)
LEMMA CountersFree ==
  ASSUME IInv, NEW s \in live, Free(s)
  PROVE  /\ CountersExact' /\ freedNum' \in [Region -> 0..Available]
         /\ freeChunkNum' \in Nat
         /\ s.region \in Region
         /\ freedNum' = [freedNum EXCEPT ![s.region] = freedNum[s.region] + 1]
  <1> DEFINE r == s.region
  <1>1. /\ s \in Slot /\ s \notin Freed /\ s.chunk \notin FreedChunks(r)
        /\ Freed' = Freed \cup {s}
        /\ FreedChunks(r)' = FreedChunks(r) \cup {s.chunk}
        /\ \A q \in Region : q # r => FreedChunks(q)' = FreedChunks(q)
    BY FreeSlots
  <1>2. r \in Region /\ s.chunk \in Chunk
    BY <1>1 DEF Slot
  <1>3. /\ IsFiniteSet(Freed) /\ IsFiniteSet(FreedChunks(r))
        /\ Cardinality(Freed) \in Nat
    BY <1>2, FreedOfRegion, FS_CardinalityType DEF IInv
  <1>4. Cardinality(Freed') = Cardinality(Freed) + 1
    BY <1>1, <1>3, FS_AddElement
  <1>5. Cardinality(FreedChunks(r)') = freedNum[r] + 1
    BY <1>1, <1>2, <1>3, FS_AddElement DEF IInv, CountersExact
  <1>6. Cardinality(FreedChunks(r)') <= Available
    <2>1. FreedChunks(r)' \in SUBSET Chunk
      BY DEF FreedChunks
    <2>2. QED BY <2>1, FiniteSets, FS_Subset
  <1>7. freedNum \in [Region -> 0..Available]
    BY DEF IInv, TypeOK
  <1>8. (freedNum[r] + 1) % 256 = freedNum[r] + 1
    BY <1>2, <1>5, <1>6, <1>7, SuperPoolAssumption
  <1>9. freedNum' = [freedNum EXCEPT ![r] = freedNum[r] + 1]
    BY <1>8 DEF Free
  <1>10. UNCHANGED <<regionNum, regionList, status>> /\ freeChunkNum' = freeChunkNum + 1
    BY DEF Free, poolVars
  <1> HIDE DEF r
  <1>11. ASSUME NEW q \in Region PROVE freedNum'[q] = Cardinality(FreedChunks(q)')
    <2>1. CASE q = r
      BY <2>1, <1>2, <1>5, <1>7, <1>9
    <2>2. CASE q # r
      BY <2>2, <1>1, <1>2, <1>7, <1>9 DEF IInv, CountersExact, r
    <2>3. QED BY <2>1, <2>2
  <1>12. freedNum[r] + 1 \in 0..Available
    BY <1>2, <1>5, <1>6, <1>7, SuperPoolAssumption
  <1>13. freedNum' \in [Region -> 0..Available]
    BY <1>2, <1>7, <1>9, <1>12
  <1>14. freeChunkNum' \in Nat
    BY <1>10 DEF IInv, TypeOK
  <1>15. QED
    BY <1>2, <1>4, <1>7, <1>9, <1>10, <1>11, <1>12, <1>13, <1>14 DEF IInv, CountersExact, r

(* Taking all freed chunks of a region off the counters leaves them exact. *)
LEMMA CountersForget ==
  ASSUME IInv, NEW r \in Region, NEW k, k = freedNum[r],
         Freed' = {s \in Freed : s.region # r}, FreedChunks(r)' = {},
         \A q \in Region : q # r => FreedChunks(q)' = FreedChunks(q),
         freedNum' = [freedNum EXCEPT ![r] = 0],
         freeChunkNum' = freeChunkNum - k
  PROVE  /\ \A q \in Region : freedNum'[q] = Cardinality(FreedChunks(q)')
         /\ freeChunkNum' = Cardinality(Freed') /\ freeChunkNum' \in Nat
         /\ freedNum' \in [Region -> 0..Available]
  <1>1. freedNum \in [Region -> 0..Available] /\ Available \in Nat
    BY SuperPoolAssumption DEF IInv, TypeOK
  <1>2. /\ Cardinality(Freed') \in Nat /\ Cardinality(FreedChunks(r)) \in Nat
        /\ Cardinality(Freed) = Cardinality(Freed') + Cardinality(FreedChunks(r))
    BY SplitFreed DEF IInv
  <1>3. freeChunkNum' = Cardinality(Freed') /\ freeChunkNum' \in Nat
    BY <1>2 DEF IInv, CountersExact
  <1>4. ASSUME NEW q \in Region PROVE freedNum'[q] = Cardinality(FreedChunks(q)')
    <2>1. CASE q = r
      BY <2>1, <1>1, FS_EmptySet
    <2>2. CASE q # r
      BY <2>2, <1>1 DEF IInv, CountersExact
    <2>3. QED BY <2>1, <2>2
  <1>5. QED BY <1>1, <1>3, <1>4

(* A turn of the refill loop leaves the counters exact. *)
LEMMA CountersRefill ==
  ASSUME IInv, RefillFromRegion
  PROVE  CountersExact' /\ freedNum' \in [Region -> 0..Available] /\ freeChunkNum' \in Nat
  <1>0. PICK r : r = freedList[cursor]
    OBVIOUS
  <1>1. /\ r \in Region
        /\ Freed' = {s \in Freed : s.region # r} /\ FreedChunks(r)' = {}
        /\ \A q \in Region : q # r => FreedChunks(q)' = FreedChunks(q)
    BY <1>0, RefillSlots
  <1>2. /\ freedNum' = [freedNum EXCEPT ![r] = 0]
        /\ freeChunkNum' = freeChunkNum - freedNum[r]
        /\ UNCHANGED <<regionNum, regionList, status>>
    BY <1>0 DEF RefillFromRegion, poolVars, NumTaken
  <1>3. QED BY <1>1, <1>2, CountersForget DEF IInv, CountersExact

(* The release of a region leaves the counters exact. *)
LEMMA CountersRelease ==
  ASSUME IInv, ReleaseRegion
  PROVE  /\ CountersExact' /\ freedNum' \in [Region -> 0..Available]
         /\ freeChunkNum' \in Nat /\ regionNum' \in Nat
         /\ freedList[cursor] \in regionList
  <1>0. PICK r : r = freedList[cursor]
    OBVIOUS
  <1>1. /\ r \in Region
        /\ Freed' = {s \in Freed : s.region # r} /\ FreedChunks(r)' = {}
        /\ \A q \in Region : q # r => FreedChunks(q)' = FreedChunks(q)
    BY <1>0, ReleaseSlots
  <1>2. /\ freedNum' = [freedNum EXCEPT ![r] = 0]
        /\ freedNum[r] = Available
        /\ freeChunkNum' = freeChunkNum - Available
        /\ regionNum' = regionNum - 1 /\ regionList' = regionList \ {r}
        /\ status' = [status EXCEPT ![r] = 0]
    BY <1>0 DEF ReleaseRegion, AllFree
  <1>3. status \in [Region -> {0, 1}] /\ Available # 0
    BY SuperPoolAssumption DEF IInv, TypeOK
  <1>4. r \in regionList
    <2>1. status[r] # 0
      BY <1>1, <1>2, <1>3, InactiveNotFreed
    <2>2. QED BY <2>1, <1>1, <1>3 DEF IInv, CountersExact
  <1>5. IsFiniteSet(regionList)
    BY FiniteSets, FS_Subset DEF IInv, TypeOK
  <1>6. /\ Cardinality(regionList') = Cardinality(regionList) - 1
        /\ Cardinality(regionList') \in Nat
    <2>1. IsFiniteSet(regionList')
      BY <1>2, <1>5, FS_RemoveElement
    <2>2. QED BY <2>1, <1>2, <1>4, <1>5, FS_RemoveElement, FS_CardinalityType
  <1>7. regionList' = {q \in Region : status'[q] = 1}
    BY <1>1, <1>2, <1>3 DEF IInv, CountersExact
  <1>8. /\ \A q \in Region : freedNum'[q] = Cardinality(FreedChunks(q)')
        /\ freeChunkNum' = Cardinality(Freed') /\ freeChunkNum' \in Nat
        /\ freedNum' \in [Region -> 0..Available]
    BY <1>1, <1>2, CountersForget
  <1>9. QED BY <1>2, <1>4, <1>6, <1>7, <1>8, <1>0 DEF IInv, CountersExact

(* A new region has nothing freed, so its header's reset changes nothing. *)
LEMMA CountersNewRegion ==
  ASSUME IInv, AllocateNewRegion
  PROVE  CountersExact' /\ UNCHANGED <<freedNum, inFreeList>>
  <1>1. PICK p \in Pool, x \in 1..AllRegionsInPool :
           LET r == <<p, x>>
           IN  /\ r \in Region /\ status[r] = 0
               /\ status' = [status EXCEPT ![r] = 1]
               /\ regionList' = regionList \cup {r}
               /\ freedNum' = [freedNum EXCEPT ![r] = 0]
               /\ inFreeList' = [inFreeList EXCEPT ![r] = FALSE]
    BY NewRegionSlots
  <1> DEFINE r == <<p, x>>
  <1>2. /\ r \in Region /\ status[r] = 0
        /\ status' = [status EXCEPT ![r] = 1]
        /\ regionList' = regionList \cup {r}
        /\ freedNum' = [freedNum EXCEPT ![r] = 0]
        /\ inFreeList' = [inFreeList EXCEPT ![r] = FALSE]
    BY <1>1
  <1> HIDE DEF r
  <1>3. /\ freedNum \in [Region -> 0..Available]
        /\ inFreeList \in [Region -> BOOLEAN]
        /\ status \in [Region -> {0, 1}]
    BY DEF IInv, TypeOK
  <1>4. freedNum[r] = 0
    BY <1>2, InactiveNotFreed
  <1>5. inFreeList[r] = FALSE
    <2>1. ~(freedNum[r] > 0)
      BY <1>4
    <2>2. QED BY <2>1, <1>2, <1>3 DEF IInv, FreedListExact
  <1>6. freedNum' = freedNum
    BY <1>2, <1>3, <1>4
  <1>7. inFreeList' = inFreeList
    BY <1>2, <1>3, <1>5
  <1>8. lastTag' = lastTag /\ freeChunkNum' = freeChunkNum /\ regionNum' = regionNum + 1
    BY DEF AllocateNewRegion
  <1>9. regionNum' = Cardinality(regionList')
    <2>1. IsFiniteSet(regionList)
      BY FiniteSets, FS_Subset DEF IInv, TypeOK
    <2>2. r \notin regionList
      BY <1>2 DEF IInv, CountersExact
    <2>3. QED BY <2>1, <2>2, <1>2, <1>8, FS_AddElement DEF IInv, CountersExact
  <1>10. regionList' = {q \in Region : status'[q] = 1}
    BY <1>2, <1>3 DEF IInv, CountersExact
  <1>11. \A q \in Region : FreedChunks(q)' = FreedChunks(q)
    BY <1>8 DEF FreedChunks
  <1>12. Freed' = Freed
    BY <1>8 DEF Freed
  <1>13. QED
    BY <1>6, <1>7, <1>8, <1>9, <1>10, <1>11, <1>12 DEF IInv, CountersExact

------------------------------------------------------------------------------
(* The list of freed regions: FreedListExact *)

FreedListType ==
  /\ freedList' \in Seq(Region)
  /\ inFreeList' \in [Region -> BOOLEAN]
  /\ freeRegionNum' \in Nat

(* Putting a new region at the head keeps the list free of repetitions. *)
LEMMA PrependRange ==
  ASSUME NEW S, NEW s \in Seq(S), NEW e \in S, IsInjective(s), e \notin Range(s)
  PROVE  /\ <<e>> \o s \in Seq(S)
         /\ Len(<<e>> \o s) = Len(s) + 1
         /\ IsInjective(<<e>> \o s)
         /\ Range(<<e>> \o s) = Range(s) \cup {e}
  <1> DEFINE t == <<e>> \o s
  <1>1. /\ t \in Seq(S)
        /\ Len(t) = Len(s) + 1
        /\ \A j \in 1..(Len(s) + 1) : t[j] = IF j = 1 THEN e ELSE s[j - 1]
    OBVIOUS
  <1>2. DOMAIN s = 1..Len(s) /\ DOMAIN t = 1..(Len(s) + 1) /\ Len(s) \in Nat
    BY <1>1
  <1> HIDE DEF t
  <1>3. \A j \in 1..Len(s) : s[j] # e
    BY <1>2 DEF Range
  <1>4. IsInjective(t)
    <2> SUFFICES ASSUME NEW j \in 1..(Len(s) + 1), NEW k \in 1..(Len(s) + 1),
                        t[j] = t[k]
                 PROVE  j = k
      BY <1>2 DEF IsInjective
    <2>1. CASE j = 1 \/ k = 1
      BY <2>1, <1>1, <1>2, <1>3
    <2>2. CASE j # 1 /\ k # 1
      <3>1. j - 1 \in 1..Len(s) /\ k - 1 \in 1..Len(s) /\ s[j - 1] = s[k - 1]
        BY <2>2, <1>1, <1>2
      <3>2. j - 1 = k - 1
        BY <3>1, <1>2 DEF IsInjective
      <3>3. QED BY <3>2, <1>2
    <2>3. QED BY <2>1, <2>2
  <1>5. ASSUME NEW x \in Range(t) PROVE x \in Range(s) \cup {e}
    BY <1>1, <1>2 DEF Range
  <1>6. e \in Range(t)
    <2>1. 1 \in DOMAIN t /\ t[1] = e
      BY <1>1, <1>2
    <2>2. QED BY <2>1 DEF Range
  <1>7. ASSUME NEW x \in Range(s) PROVE x \in Range(t)
    <2>1. PICK j \in 1..Len(s) : s[j] = x
      BY <1>2 DEF Range
    <2>2. j + 1 \in 1..(Len(s) + 1) /\ t[j + 1] = x
      BY <2>1, <1>1, <1>2
    <2>3. QED BY <2>2, <1>2 DEF Range
  <1>8. QED BY <1>1, <1>4, <1>5, <1>6, <1>7 DEF t

(* A deallocation lists the region unless it is listed already. *)
LEMMA ListFree ==
  ASSUME IInv, NEW s \in live, Free(s)
  PROVE  FreedListExact' /\ FreedListType
  <1>0. PICK r : r = s.region
    OBVIOUS
  <1>1. r \in Region /\ freedNum' = [freedNum EXCEPT ![r] = freedNum[r] + 1]
    BY <1>0, CountersFree
  <1>2. freedNum \in [Region -> 0..Available] /\ inFreeList \in [Region -> BOOLEAN]
        /\ freedList \in Seq(Region) /\ freeRegionNum \in Nat
    BY DEF IInv, TypeOK
  <1>3. /\ IsInjective(freedList)
        /\ \A q \in Region : inFreeList[q] <=> q \in Range(freedList)
        /\ \A q \in Region : inFreeList[q] <=> freedNum[q] > 0
        /\ freeRegionNum = Len(freedList)
    BY DEF IInv, FreedListExact
  <1>4. \A q \in Region : freedNum'[q] > 0 <=> freedNum[q] > 0 \/ q = r
    <2> TAKE q \in Region
    <2>1. freedNum[q] \in 0..Available
      BY <1>2
    <2>2. CASE q = r
      BY <2>1, <2>2, <1>1, <1>2, SuperPoolAssumption
    <2>3. CASE q # r
      BY <2>3, <1>1, <1>2
    <2>4. QED BY <2>2, <2>3
  <1>5. CASE inFreeList[r]
    <2>1. UNCHANGED <<freedList, freeRegionNum, inFreeList>>
      BY <1>5, <1>0 DEF Free, Listed
    <2>2. QED BY <2>1, <1>2, <1>3, <1>4, <1>5 DEF FreedListExact, FreedListType
  <1>6. CASE ~inFreeList[r]
    <2>1. /\ freedList' = <<r>> \o freedList
          /\ freeRegionNum' = freeRegionNum + 1
          /\ inFreeList' = [inFreeList EXCEPT ![r] = TRUE]
      BY <1>6, <1>0 DEF Free, Listed
    <2>2. /\ freedList' \in Seq(Region)
          /\ Len(freedList') = Len(freedList) + 1
          /\ IsInjective(freedList')
          /\ Range(freedList') = Range(freedList) \cup {r}
      <3>1. r \notin Range(freedList)
        BY <1>1, <1>3, <1>6
      <3>2. QED BY <3>1, <2>1, <1>1, <1>2, <1>3, PrependRange
    <2>3. \A q \in Region : inFreeList'[q] <=> inFreeList[q] \/ q = r
      BY <2>1, <1>1, <1>2
    <2>4. inFreeList' \in [Region -> BOOLEAN] /\ freeRegionNum' \in Nat
      BY <2>1, <1>1, <1>2
    <2>5. \A q \in Region : inFreeList'[q] <=> q \in Range(freedList')
      BY <2>2, <2>3, <1>3
    <2>6. \A q \in Region : inFreeList'[q] <=> freedNum'[q] > 0
      BY <2>3, <1>3, <1>4
    <2>7. freeRegionNum' = Len(freedList')
      BY <2>1, <2>2, <1>3
    <2>8. QED BY <2>2, <2>4, <2>5, <2>6, <2>7 DEF FreedListExact, FreedListType
  <1>7. QED BY <1>5, <1>6

(* A refill or a release takes the region it is at out of the list. *)
LEMMA ListForget ==
  ASSUME IInv, NEW r \in Region, NEW i \in 1..Len(freedList), r = freedList[i],
         freedList' = RemoveAt(freedList, i),
         freeRegionNum' = freeRegionNum - 1,
         freedNum' = [freedNum EXCEPT ![r] = 0],
         inFreeList' = [inFreeList EXCEPT ![r] = FALSE]
  PROVE  /\ FreedListExact' /\ FreedListType
         /\ Len(freedList') = Len(freedList) - 1
  <1>2. freedNum \in [Region -> 0..Available] /\ inFreeList \in [Region -> BOOLEAN]
        /\ freedList \in Seq(Region) /\ freeRegionNum \in Nat
    BY DEF IInv, TypeOK
  <1>3. /\ IsInjective(freedList)
        /\ \A q \in Region : inFreeList[q] <=> q \in Range(freedList)
        /\ \A q \in Region : inFreeList[q] <=> freedNum[q] > 0
        /\ freeRegionNum = Len(freedList)
    BY DEF IInv, FreedListExact
  <1>4. /\ freedList' \in Seq(Region)
        /\ Len(freedList') = Len(freedList) - 1
        /\ IsInjective(freedList')
        /\ Range(freedList') = Range(freedList) \ {r}
    BY <1>2, <1>3, RemoveAtProperties, RemoveAtRange
  <1>5. \A q \in Region : inFreeList'[q] <=> inFreeList[q] /\ q # r
    BY <1>2
  <1>6. \A q \in Region : freedNum'[q] > 0 <=> freedNum[q] > 0 /\ q # r
    <2> TAKE q \in Region
    <2>1. CASE q = r
      BY <2>1, <1>2
    <2>2. CASE q # r
      BY <2>2, <1>2
    <2>3. QED BY <2>1, <2>2
  <1>7. \A q \in Region : inFreeList'[q] <=> q \in Range(freedList')
    BY <1>3, <1>4, <1>5
  <1>8. \A q \in Region : inFreeList'[q] <=> freedNum'[q] > 0
    BY <1>3, <1>5, <1>6
  <1>9. freeRegionNum' = Len(freedList')
    BY <1>3, <1>4
  <1>10. freeRegionNum' \in Nat
    BY <1>4, <1>9, LenProperties
  <1>11. inFreeList' \in [Region -> BOOLEAN]
    BY <1>2
  <1>12. QED BY <1>4, <1>7, <1>8, <1>9, <1>10, <1>11 DEF FreedListExact, FreedListType

------------------------------------------------------------------------------
(* The density of the pools: DensityBounded *)

(* Appending a new pool keeps the list of pools free of repetitions. *)
LEMMA AppendRange ==
  ASSUME NEW S, NEW s \in Seq(S), NEW e \in S, IsInjective(s), e \notin Range(s)
  PROVE  /\ Append(s, e) \in Seq(S)
         /\ IsInjective(Append(s, e))
         /\ Range(Append(s, e)) = Range(s) \cup {e}
  <1> DEFINE t == Append(s, e)
  <1>1. /\ t \in Seq(S)
        /\ Len(t) = Len(s) + 1
        /\ \A j \in 1..Len(s) : t[j] = s[j]
        /\ t[Len(s) + 1] = e
    BY AppendProperties
  <1>2. DOMAIN s = 1..Len(s) /\ DOMAIN t = 1..(Len(s) + 1) /\ Len(s) \in Nat
    BY <1>1
  <1> HIDE DEF t
  <1>3. \A j \in 1..Len(s) : s[j] # e
    BY <1>2 DEF Range
  <1>4. IsInjective(t)
    <2> SUFFICES ASSUME NEW j \in 1..(Len(s) + 1), NEW k \in 1..(Len(s) + 1),
                        t[j] = t[k]
                 PROVE  j = k
      BY <1>2 DEF IsInjective
    <2>1. CASE j = Len(s) + 1 \/ k = Len(s) + 1
      BY <2>1, <1>1, <1>2, <1>3
    <2>2. CASE j # Len(s) + 1 /\ k # Len(s) + 1
      BY <2>2, <1>1, <1>2 DEF IsInjective
    <2>3. QED BY <2>1, <2>2
  <1>5. ASSUME NEW x \in Range(t) PROVE x \in Range(s) \cup {e}
    BY <1>1, <1>2 DEF Range
  <1>6. e \in Range(t)
    <2>1. Len(s) + 1 \in DOMAIN t
      BY <1>2
    <2>2. QED BY <2>1, <1>1 DEF Range
  <1>7. ASSUME NEW x \in Range(s) PROVE x \in Range(t)
    <2>1. PICK j \in 1..Len(s) : s[j] = x
      BY <1>2 DEF Range
    <2>2. j \in 1..(Len(s) + 1) /\ t[j] = x
      BY <2>1, <1>1, <1>2
    <2>3. QED BY <2>2, <1>2 DEF Range
  <1>8. QED BY <1>1, <1>4, <1>5, <1>6, <1>7 DEF t

DensityType == poolList' \in Seq(Pool) /\ density' \in [Pool -> Nat]

(* A region that leaves its pool leaves the pool as dense as it counts. *)
LEMMA DensityRelease ==
  ASSUME IInv, NEW r \in regionList,
         regionList' = regionList \ {r},
         density' = [density EXCEPT ![r[1]] = @ - 1],
         poolList' = poolList
  PROVE  DensityBounded' /\ DensityType
  <1>1. density \in [Pool -> Nat] /\ poolList \in Seq(Pool)
        /\ regionList \subseteq Region /\ IsFiniteSet(regionList)
    BY FiniteSets, FS_Subset DEF IInv, TypeOK
  <1>2. PICK p \in Pool : p = r[1]
    BY <1>1 DEF Region
  <1> DEFINE mine(q) == {x \in regionList : x[1] = q}
             left(q) == {x \in regionList \ {r} : x[1] = q}
  <1>3. /\ left(p) = mine(p) \ {r} /\ r \in mine(p) /\ IsFiniteSet(mine(p))
        /\ \A q \in Pool : q # p => left(q) = mine(q)
    BY <1>1, <1>2, FS_Subset
  <1>4. /\ Cardinality(left(p)) = Cardinality(mine(p)) - 1
        /\ Cardinality(left(p)) \in Nat
    BY <1>3, FS_RemoveElement, FS_CardinalityType
  <1>5. /\ \A q \in Pool : density[q] = Cardinality(mine(q))
        /\ \A q \in Pool : density[q] > 0 =>
             (density[q] - 1) * PoolDensity < AllRegionsInPool
        /\ IsInjective(poolList)
        /\ \A x \in regionList : x[1] \in Range(poolList)
    BY DEF IInv, DensityBounded
  <1> HIDE DEF mine, left
  <1>6. density' = [density EXCEPT ![p] = density[p] - 1]
    BY <1>2
  <1>7. density[p] - 1 \in Nat
    BY <1>4, <1>5
  <1>8. \A q \in Pool : density'[q] = Cardinality(left(q))
    BY <1>1, <1>3, <1>4, <1>5, <1>6
  <1>9. ASSUME NEW q \in Pool, density'[q] > 0
        PROVE  (density'[q] - 1) * PoolDensity < AllRegionsInPool
    <2>1. CASE q # p
      BY <2>1, <1>1, <1>5, <1>6, <1>9
    <2>2. CASE q = p
      <3>1. density'[p] = density[p] - 1 /\ density[p] > 0
        BY <2>2, <1>1, <1>6, <1>7
      <3>2. (density[p] - 1) * PoolDensity < AllRegionsInPool
        BY <3>1, <1>5
      <3>3. PICK d \in Int : d = density[p] - 1
        BY <1>7
      <3>4. PoolDensity \in Nat /\ AllRegionsInPool \in Nat
        BY SuperPoolAssumption
      <3>5. (d - 1) * PoolDensity = d * PoolDensity - PoolDensity
        BY <3>4
      <3>6. d * PoolDensity \in Int /\ d * PoolDensity < AllRegionsInPool
        BY <3>2, <3>3, <3>4
      <3>7. (d - 1) * PoolDensity < AllRegionsInPool
        BY <3>4, <3>5, <3>6
      <3>8. QED BY <3>1, <3>3, <3>7, <2>2
    <2>3. QED BY <2>1, <2>2
  <1>10. density' \in [Pool -> Nat]
    BY <1>1, <1>6, <1>7
  <1>11. QED
    BY <1>1, <1>5, <1>8, <1>9, <1>10 DEF DensityBounded, DensityType, left

(* A new region goes to a pool with room for it. *)
LEMMA DensityNewRegion ==
  ASSUME IInv, AllocateNewRegion
  PROVE  DensityBounded' /\ DensityType /\ regionList' \subseteq Region
  <1>1. PICK p \in Pool, x \in 1..AllRegionsInPool :
           LET r == <<p, x>>
           IN  /\ r \in Region /\ status[r] = 0 /\ ChosenPool(p)
               /\ regionList' = regionList \cup {r}
               /\ density' = [density EXCEPT ![p] = @ + 1]
               /\ poolList' = IF \E i \in DOMAIN poolList : poolList[i] = p
                                THEN poolList ELSE Append(poolList, p)
    BY NewRegionSlots
  <1>2. PICK r : r = <<p, x>>
    OBVIOUS
  <1>3. /\ r \in Region /\ r[1] = p /\ r \notin regionList
        /\ regionList' = regionList \cup {r}
    BY <1>1, <1>2 DEF IInv, CountersExact
  <1>4. density \in [Pool -> Nat] /\ poolList \in Seq(Pool)
        /\ regionList \subseteq Region /\ IsFiniteSet(regionList)
    BY FiniteSets, FS_Subset DEF IInv, TypeOK
  <1> DEFINE mine(q) == {y \in regionList : y[1] = q}
             grown(q) == {y \in regionList \cup {r} : y[1] = q}
  <1>5. /\ grown(p) = mine(p) \cup {r} /\ r \notin mine(p) /\ IsFiniteSet(mine(p))
        /\ \A q \in Pool : q # p => grown(q) = mine(q)
    BY <1>3, <1>4, FS_Subset
  <1>6. Cardinality(grown(p)) = Cardinality(mine(p)) + 1
    BY <1>5, FS_AddElement
  <1>7. /\ \A q \in Pool : density[q] = Cardinality(mine(q))
        /\ \A q \in Pool : density[q] > 0 =>
             (density[q] - 1) * PoolDensity < AllRegionsInPool
        /\ IsInjective(poolList)
        /\ \A y \in regionList : y[1] \in Range(poolList)
    BY DEF IInv, DensityBounded
  <1>8. (\A i \in DOMAIN poolList : poolList[i] # p) => mine(p) = {}
    BY <1>7 DEF Range
  <1> HIDE DEF mine, grown
  <1>9. density' = [density EXCEPT ![p] = density[p] + 1]
    BY <1>1
  <1>10. \A q \in Pool : density'[q] = Cardinality(grown(q))
    BY <1>4, <1>5, <1>6, <1>7, <1>9
  <1>11. density[p] * PoolDensity < AllRegionsInPool
    <2>1. CASE HasRoom(p)
      BY <2>1 DEF HasRoom
    <2>2. CASE \A i \in DOMAIN poolList : poolList[i] # p
      <3>1. density[p] = 0
        BY <2>2, <1>7, <1>8, FS_EmptySet
      <3>2. QED BY <3>1, SuperPoolAssumption
    <2>3. QED BY <2>1, <2>2, <1>1 DEF ChosenPool
  <1>12. ASSUME NEW q \in Pool, density'[q] > 0
         PROVE  (density'[q] - 1) * PoolDensity < AllRegionsInPool
    <2>1. CASE q # p
      BY <2>1, <1>4, <1>7, <1>9, <1>12
    <2>2. CASE q = p
      <3>1. density'[p] - 1 = density[p]
        BY <1>4, <1>9
      <3>2. QED BY <3>1, <2>2, <1>11
    <2>3. QED BY <2>1, <2>2
  <1>13. /\ poolList' \in Seq(Pool) /\ IsInjective(poolList')
         /\ Range(poolList') = Range(poolList) \cup {p}
    <2>1. CASE \E i \in DOMAIN poolList : poolList[i] = p
      <3>1. poolList' = poolList
        BY <2>1, <1>1
      <3>2. p \in Range(poolList)
        BY <2>1 DEF Range
      <3>3. QED BY <3>1, <3>2, <1>4, <1>7
    <2>2. CASE ~\E i \in DOMAIN poolList : poolList[i] = p
      <3>1. poolList' = Append(poolList, p)
        BY <2>2, <1>1
      <3>2. p \notin Range(poolList)
        BY <2>2 DEF Range
      <3>3. QED BY <3>1, <3>2, <1>4, <1>7, AppendRange
    <2>3. QED BY <2>1, <2>2
  <1>14. density' \in [Pool -> Nat]
    BY <1>4, <1>9
  <1>15. \A y \in regionList' : y[1] \in Range(poolList')
    BY <1>3, <1>7, <1>13
  <1>16. QED
    BY <1>3, <1>4, <1>10, <1>12, <1>13, <1>14, <1>15
       DEF DensityBounded, DensityType, grown

------------------------------------------------------------------------------
(* Every step preserves the invariant *)

(* Steps that leave the regions alone leave what is said of them true. *)
LEMMA SameRegions ==
  ASSUME IInv, UNCHANGED <<poolVars, freedList, regionVars, counters>>
  PROVE  CountersExact' /\ FreedListExact' /\ DensityBounded'
  <1>1. UNCHANGED <<poolList, density, regionList, freedList, status, freedNum,
                    inFreeList, lastTag, freeChunkNum, regionNum, freeRegionNum>>
    BY DEF poolVars, regionVars, counters
  <1>2. CountersExact'
    BY <1>1 DEF IInv, CountersExact, FreedChunks, Freed
  <1>3. FreedListExact' /\ DensityBounded'
    BY <1>1 DEF IInv, FreedListExact, DensityBounded
  <1>4. QED BY <1>2, <1>3

(* An allocation from the batch preserves the invariant. *)
LEMMA InvPop ==
  ASSUME IInv, Pop, count > 0
  PROVE  IInv'
  <1>1. UNCHANGED <<poolVars, freedList, regionVars, counters, elapsed, cursor>>
        /\ pc' = Idle
    BY DEF Pop
  <1>2. TypeOK
    BY DEF IInv
  <1>3. batch' \in Seq(Slot) /\ count' = Len(batch') /\ live' \subseteq Slot
    BY <1>2, PopSlots, CachedSlots
  <1>4. TypeOK'
    BY <1>1, <1>2, <1>3 DEF TypeOK, poolVars, regionVars, counters
  <1>5. LoopsInBounds'
    BY <1>1 DEF LoopsInBounds, Idle, Refilling, Popping, NewRegion, Releasing
  <1>6. QED BY <1>1, <1>4, <1>5, OwnerPop, SameRegions DEF IInv, Owner

(* The decision how to refill preserves the invariant; the random start is *)
(* a position of the list because free_region_num counts its regions.      *)
LEMMA InvBeginRefill ==
  ASSUME IInv, BeginRefill
  PROVE  IInv'
  <1>1. UNCHANGED <<poolVars, freedList, regionVars, counters, count, elapsed, live>>
        /\ count = 0
    BY DEF BeginRefill
  <1>2. TypeOK
    BY DEF IInv
  <1>3. freedList \in Seq(Region) /\ Len(freedList) \in Nat
        /\ DOMAIN freedList = 1..Len(freedList) /\ freeRegionNum = Len(freedList)
    BY <1>2, LenProperties DEF IInv, FreedListExact, TypeOK
  <1>4. batch' \in Seq(Slot) /\ count' = Len(batch')
    <2>1. CASE batch' = <<>>
      BY <2>1, <1>1, EmptySeq
    <2>2. CASE batch' = batch
      BY <2>2, <1>1, <1>2 DEF TypeOK
    <2>3. QED BY <2>1, <2>2 DEF BeginRefill
  <1>5. pc' \in {Refilling, NewRegion} /\ (pc' = Refilling => cursor' \in DOMAIN freedList)
        /\ cursor' \in Nat
    <2>1. CASE cursor' \in Starts /\ pc' = Refilling
      BY <2>1, <1>3, SuperPoolAssumption DEF Refilling, Starts
    <2>2. CASE pc' = NewRegion /\ cursor' = cursor
      BY <2>2, <1>2 DEF Refilling, NewRegion, TypeOK
    <2>3. QED BY <2>1, <2>2 DEF BeginRefill
  <1>6. TypeOK'
    BY <1>1, <1>2, <1>4, <1>5 DEF TypeOK, poolVars, regionVars, counters
  <1>7. Len(batch') < MinChunk
    BY <1>1, <1>4, SuperPoolAssumption
  <1>8. LoopsInBounds'
    BY <1>1, <1>5, <1>7 DEF LoopsInBounds, Refilling, Popping, NewRegion, Releasing
  <1>9. Cached = {} /\ Cached' = {} /\ Freed' = Freed /\ status' = status /\ live' = live
    BY <1>1 DEF Cached, Freed, regionVars
  <1>10. SingleOwner' /\ TagsUniqueInRegion' /\ RegionsAccounted'
    <2>1. Held' = Held
      BY <1>9 DEF Held
    <2>2. TagsUniqueInRegion' /\ RegionsAccounted'
      BY <2>1, <1>9 DEF IInv, TagsUniqueInRegion, RegionsAccounted
    <2>3. \A i, j \in 1..count' : i # j => ~SameChunk(batch'[i], batch'[j])
      BY <1>1
    <2>4. SingleOwner'
      BY <2>3, <1>9 DEF IInv, SingleOwner, SameChunk
    <2>5. QED BY <2>2, <2>4
  <1>11. QED BY <1>1, <1>6, <1>8, <1>10, SameRegions DEF IInv

(* A turn of the refill loop preserves the invariant.  The region has a    *)
(* freed chunk because it is in the list, so the batch grows.              *)
LEMMA InvRefill ==
  ASSUME IInv, RefillFromRegion
  PROVE  IInv'
  <1>0. PICK r : r = freedList[cursor]
    OBVIOUS
  <1>1. TypeOK
    BY DEF IInv
  <1>2. /\ r \in Region /\ cursor \in 1..Len(freedList) /\ live' = live
        /\ lastTag' \in [Region -> [Chunk -> Tag \cup {0}]]
        /\ \E new \in Seq(Slot) : batch' = batch \o new /\ Len(new) = freedNum[r]
    BY <1>0, RefillSlots
  <1>3. PICK new \in Seq(Slot) : batch' = batch \o new /\ Len(new) = freedNum[r]
    BY <1>2
  <1>4. /\ count' = count + freedNum[r]
        /\ freedNum' = [freedNum EXCEPT ![r] = 0]
        /\ inFreeList' = [inFreeList EXCEPT ![r] = FALSE]
        /\ freedList' = RemoveAt(freedList, cursor)
        /\ freeRegionNum' = freeRegionNum - 1
        /\ UNCHANGED <<poolVars, status, regionNum, elapsed, live>>
    BY <1>0 DEF RefillFromRegion, NumTaken
  <1>5. count' \in Nat /\ batch' \in Seq(Slot) /\ Len(batch') = count'
    BY <1>1, <1>3, <1>4, ConcatCached
  <1>6. FreedListExact' /\ FreedListType /\ Len(freedList') = Len(freedList) - 1
    BY <1>0, <1>2, <1>4, ListForget
  <1>7. CountersExact' /\ freedNum' \in [Region -> 0..Available] /\ freeChunkNum' \in Nat
    BY CountersRefill
  <1>8. DensityBounded'
    BY <1>4 DEF IInv, DensityBounded, poolVars
  <1>9. freedNum[r] > 0
    <2>1. freedList \in Seq(Region)
      BY <1>1 DEF TypeOK
    <2>2. DOMAIN freedList = 1..Len(freedList)
      BY <2>1, LenProperties
    <2>3. r \in Range(freedList)
      BY <2>2, <1>0, <1>2 DEF Range
    <2>4. QED BY <2>3, <1>2 DEF IInv, FreedListExact
  <1>10. count' > 0
    BY <1>1, <1>4, <1>5, <1>9, <1>2, CachedSlots DEF TypeOK
  <1>11. Len(freedList') \in Nat /\ DOMAIN freedList' = 1..Len(freedList')
         /\ (freedList' # <<>> => Len(freedList') > 0)
    <2>1. freedList' \in Seq(Region)
      BY <1>6 DEF FreedListType
    <2>2. QED BY <2>1, LenProperties, EmptySeq
  <1>12. \/ /\ freedList' # <<>> /\ Len(batch') < MinChunk
            /\ pc' = Refilling
            /\ cursor' = IF cursor > Len(freedList') THEN 1 ELSE cursor
         \/ pc' = Popping /\ cursor' = 0
    BY <1>4, <1>5, <1>10, SuperPoolAssumption DEF RefillFromRegion, Enough, Onward
  <1>13. LoopsInBounds' /\ pc' \in {Refilling, Popping} /\ cursor' \in Nat
    <2>1. CASE /\ freedList' # <<>> /\ Len(batch') < MinChunk
               /\ pc' = Refilling
               /\ cursor' = IF cursor > Len(freedList') THEN 1 ELSE cursor
      <3>1. cursor' \in DOMAIN freedList' /\ cursor' \in Nat
        BY <2>1, <1>2, <1>11
      <3>2. QED BY <2>1, <3>1 DEF LoopsInBounds, Refilling, Popping, NewRegion, Releasing
    <2>2. CASE pc' = Popping /\ cursor' = 0
      BY <2>2, <1>10 DEF LoopsInBounds, Refilling, Popping, NewRegion, Releasing
    <2>3. QED BY <2>1, <2>2, <1>12
  <1>14. TypeOK'
    BY <1>1, <1>4, <1>5, <1>6, <1>7, <1>13, <1>2 DEF TypeOK, FreedListType, poolVars
  <1>15. QED
    BY <1>6, <1>7, <1>8, <1>13, <1>14, OwnerRefill DEF IInv, Owner

(* Taking a new region preserves the invariant. *)
LEMMA InvNewRegion ==
  ASSUME IInv, AllocateNewRegion
  PROVE  IInv'
  <1>1. TypeOK
    BY DEF IInv
  <1>2. /\ regionNum' = regionNum + 1 /\ count' = Available /\ pc' = Popping
        /\ UNCHANGED <<freedList, lastTag, freeChunkNum, freeRegionNum, elapsed,
                       cursor, live>>
    BY DEF AllocateNewRegion
  <1>3. PICK p \in Pool, x \in 1..AllRegionsInPool :
           LET r == <<p, x>>
           IN  /\ r \in Region
               /\ status' = [status EXCEPT ![r] = 1]
               /\ batch' \in Seq(Slot) /\ Len(batch') = Available
    BY NewRegionSlots
  <1>4. status' \in [Region -> {0, 1}] /\ batch' \in Seq(Slot) /\ count' = Len(batch')
    BY <1>1, <1>2, <1>3 DEF TypeOK
  <1>5. CountersExact' /\ UNCHANGED <<freedNum, inFreeList>>
    BY CountersNewRegion
  <1>6. DensityBounded' /\ DensityType /\ regionList' \subseteq Region
    BY DensityNewRegion
  <1>7. FreedListExact'
    BY <1>2, <1>5 DEF IInv, FreedListExact
  <1>8. LoopsInBounds'
    BY <1>2, SuperPoolAssumption
       DEF LoopsInBounds, Refilling, Popping, NewRegion, Releasing
  <1>9. regionNum' \in Nat
    BY <1>1, <1>2 DEF TypeOK
  <1>10. TypeOK'
    BY <1>1, <1>2, <1>4, <1>5, <1>6, <1>9 DEF TypeOK, DensityType
  <1>11. QED
    BY <1>5, <1>6, <1>7, <1>8, <1>10, OwnerNewRegion DEF IInv, Owner

(* A deallocation preserves the invariant. *)
LEMMA InvFree ==
  ASSUME IInv, NEW s \in live, Free(s)
  PROVE  IInv'
  <1>1. TypeOK
    BY DEF IInv
  <1>2. /\ live' = live \ {s}
        /\ lastTag' \in [Region -> [Chunk -> Tag \cup {0}]]
    BY FreeSlots
  <1>3. /\ UNCHANGED <<poolVars, status, regionNum, cacheVars, elapsed>>
        /\ pc = Idle
        /\ \/ pc' = Releasing /\ cursor' = 1
           \/ UNCHANGED <<pc, cursor>>
    BY DEF Free
  <1>4. CountersExact' /\ freedNum' \in [Region -> 0..Available] /\ freeChunkNum' \in Nat
    BY CountersFree
  <1>5. FreedListExact' /\ FreedListType
    BY ListFree
  <1>6. DensityBounded'
    BY <1>3 DEF IInv, DensityBounded, poolVars
  <1>7. LoopsInBounds' /\ pc' \in {Idle, Releasing} /\ cursor' \in Nat
    <2>1. CASE pc' = Releasing /\ cursor' = 1
      <3>1. Len(freedList') \in Nat
        BY <1>5, LenProperties DEF FreedListType
      <3>2. 1 \in 1..(Len(freedList') + 1)
        BY <3>1
      <3>3. QED BY <2>1, <3>2 DEF LoopsInBounds, Refilling, Popping, NewRegion, Releasing
    <2>2. CASE UNCHANGED <<pc, cursor>>
      BY <2>2, <1>1, <1>3 DEF LoopsInBounds, Idle, Refilling, Popping, NewRegion,
                              Releasing, TypeOK
    <2>3. QED BY <2>1, <2>2, <1>3
  <1>8. TypeOK'
    BY <1>1, <1>2, <1>3, <1>4, <1>5, <1>7 DEF TypeOK, FreedListType, poolVars, cacheVars
  <1>9. QED
    BY <1>4, <1>5, <1>6, <1>7, <1>8, OwnerFree DEF IInv, Owner

(* Releasing a region preserves the invariant. *)
LEMMA InvRelease ==
  ASSUME IInv, ReleaseRegion
  PROVE  IInv'
  <1>0. PICK r : r = freedList[cursor]
    OBVIOUS
  <1>1. TypeOK
    BY DEF IInv
  <1>2. /\ r \in Region /\ cursor \in 1..Len(freedList)
        /\ lastTag' \in [Region -> [Chunk -> Tag \cup {0}]]
    BY <1>0, ReleaseSlots
  <1>3. /\ freedList' = RemoveAt(freedList, cursor)
        /\ regionList' = regionList \ {r}
        /\ density' = [density EXCEPT ![r[1]] = @ - 1]
        /\ freeRegionNum' = freeRegionNum - 1
        /\ status' = [status EXCEPT ![r] = 0]
        /\ freedNum' = [freedNum EXCEPT ![r] = 0]
        /\ inFreeList' = [inFreeList EXCEPT ![r] = FALSE]
        /\ UNCHANGED <<poolList, cacheVars, elapsed, pc, cursor, live>>
        /\ pc = Releasing
    BY <1>0 DEF ReleaseRegion, DensityWithout
  <1>4. /\ CountersExact' /\ freedNum' \in [Region -> 0..Available]
        /\ freeChunkNum' \in Nat /\ regionNum' \in Nat /\ r \in regionList
    BY <1>0, CountersRelease
  <1>5. FreedListExact' /\ FreedListType /\ Len(freedList') = Len(freedList) - 1
    BY <1>0, <1>2, <1>3, ListForget
  <1>6. DensityBounded' /\ DensityType
    BY <1>3, <1>4, DensityRelease
  <1>7. LoopsInBounds'
    <2>1. Len(freedList) \in Nat
      BY <1>1, LenProperties DEF TypeOK
    <2>2. cursor \in 1..(Len(freedList') + 1)
      BY <2>1, <1>2, <1>5
    <2>3. QED BY <2>2, <1>3 DEF LoopsInBounds, Refilling, Popping, NewRegion, Releasing
  <1>8. status' \in [Region -> {0, 1}] /\ regionList' \subseteq Region
    BY <1>1, <1>3 DEF TypeOK
  <1>9. TypeOK'
    BY <1>1, <1>2, <1>3, <1>4, <1>5, <1>6, <1>8
       DEF TypeOK, FreedListType, DensityType, cacheVars
  <1>10. QED
    BY <1>4, <1>5, <1>6, <1>7, <1>9, OwnerRelease DEF IInv, Owner

(* Steps that change only the time, or the place in the release loop. *)
LEMMA InvPlace ==
  ASSUME IInv, UNCHANGED <<poolVars, freedList, regionVars, counters, cacheVars, live>>,
         pc' \in {Idle, Refilling, NewRegion, Popping, Releasing},
         elapsed' \in BOOLEAN, cursor' \in Nat, LoopsInBounds'
  PROVE  IInv'
  <1>1. UNCHANGED <<status, lastTag, batch, count, live>>
    BY DEF regionVars, cacheVars
  <1>2. TypeOK'
    BY DEF IInv, TypeOK, poolVars, regionVars, counters, cacheVars
  <1>3. Cached' = Cached /\ Freed' = Freed /\ Held' = Held
    BY <1>1 DEF Cached, Freed, Held
  <1>4. SingleOwner' /\ TagsUniqueInRegion' /\ RegionsAccounted'
    BY <1>1, <1>3 DEF IInv, SingleOwner, TagsUniqueInRegion, RegionsAccounted
  <1>5. QED BY <1>2, <1>4, SameRegions DEF IInv

(* The initial state satisfies the invariant: no chunk is held anywhere. *)
LEMMA InvInit == Init => IInv
  <1> SUFFICES ASSUME Init PROVE IInv
    OBVIOUS
  <1>1. TypeOK
    <2>1. /\ poolList \in Seq(Pool) /\ freedList \in Seq(Region)
          /\ batch \in Seq(Slot) /\ count = Len(batch)
      BY EmptySeq DEF Init
    <2>2. /\ status \in [Region -> {0, 1}]
          /\ freedNum \in [Region -> 0..Available]
          /\ inFreeList \in [Region -> BOOLEAN]
          /\ density \in [Pool -> Nat]
          /\ lastTag \in [Region -> [Chunk -> Tag \cup {0}]]
      BY SuperPoolAssumption DEF Init
    <2>3. QED BY <2>1, <2>2 DEF Init, TypeOK
  <1>2. live = {} /\ Cached = {} /\ Freed = {}
    <2>1. \A s \in Slot : s.region \in Region /\ s.chunk \in Chunk /\ s.tag # 0
      BY SuperPoolAssumption DEF Slot, Tag
    <2>2. QED BY <2>1 DEF Init, Cached, Freed
  <1>3. SingleOwner /\ TagsUniqueInRegion
    BY <1>2 DEF SingleOwner, TagsUniqueInRegion, Held, Init
  <1>4. RegionsAccounted
    BY <1>2 DEF RegionsAccounted, Held, Init
  <1>5. \A r \in Region : FreedChunks(r) = {}
    BY DEF Init, FreedChunks
  <1>6. CountersExact
    <2>1. Cardinality({}) = 0
      BY FS_EmptySet
    <2>2. \A r \in Region : freedNum[r] = 0 /\ status[r] = 0
      BY DEF Init
    <2>3. regionList = {r \in Region : status[r] = 1} /\ regionList = {}
      BY <2>2 DEF Init
    <2>4. freeChunkNum = 0 /\ regionNum = 0
      BY DEF Init
    <2>5. QED BY ONLY <1>2, <1>5, <2>1, <2>2, <2>3, <2>4 DEF CountersExact
  <1>7. FreedListExact
    <2>1. freedList = <<>> /\ DOMAIN freedList = {} /\ Len(freedList) = 0
      <3>1. freedList = <<>> /\ freedList \in Seq(Region) /\ Len(freedList) = 0
        BY EmptySeq DEF Init
      <3>2. DOMAIN freedList = 1..Len(freedList)
        BY <3>1, LenProperties
      <3>3. QED BY <3>1, <3>2
    <2>2. Range(freedList) = {} /\ IsInjective(freedList)
      BY <2>1 DEF Range, IsInjective
    <2>3. QED BY <2>1, <2>2 DEF Init, FreedListExact
  <1>8. DensityBounded
    <2>1. IsInjective(poolList) /\ regionList = {}
      BY EmptySeq DEF Init, IsInjective
    <2>2. \A p \in Pool : density[p] = 0 /\ {r \in regionList : r[1] = p} = {}
      BY DEF Init
    <2>3. QED BY <2>1, <2>2, FS_EmptySet DEF DensityBounded
  <1>9. LoopsInBounds
    BY DEF Init, LoopsInBounds, Idle, Refilling, Popping, NewRegion, Releasing
  <1>10. QED BY <1>1, <1>3, <1>4, <1>6, <1>7, <1>8, <1>9 DEF IInv

(* Every step of the allocator preserves the invariant. *)
LEMMA InvNext == IInv /\ [Next]_vars => IInv'
  <1> SUFFICES ASSUME IInv, [Next]_vars PROVE IInv'
    OBVIOUS
  <1>1. /\ pc \in {Idle, Refilling, NewRegion, Popping, Releasing}
        /\ cursor \in Nat /\ elapsed \in BOOLEAN /\ freedList \in Seq(Region)
        /\ LoopsInBounds
    BY DEF IInv, TypeOK
  <1>2. CASE AllocFromBatch
    BY <1>2, InvPop DEF AllocFromBatch
  <1>3. CASE AllocAfterRefill
    <2>1. count > 0
      BY <1>1, <1>3 DEF AllocAfterRefill, LoopsInBounds
    <2>2. QED BY <1>3, <2>1, InvPop DEF AllocAfterRefill
  <1>4. CASE BeginRefill
    BY <1>4, InvBeginRefill
  <1>5. CASE RefillFromRegion
    BY <1>5, InvRefill
  <1>6. CASE AllocateNewRegion
    BY <1>6, InvNewRegion
  <1>7. CASE \E s \in live : Free(s)
    BY <1>7, InvFree
  <1>8. CASE ReleaseRegion
    BY <1>8, InvRelease
  <1>9. CASE KeepRegion
    <2>1. /\ pc = Releasing /\ cursor <= Len(freedList) /\ cursor' = cursor + 1
          /\ UNCHANGED <<poolVars, freedList, regionVars, counters, cacheVars,
                         elapsed, pc, live>>
      BY <1>9 DEF KeepRegion
    <2>2. Len(freedList) \in Nat
      BY <1>1, LenProperties
    <2>3. LoopsInBounds'
      BY <2>1, <2>2, <1>1 DEF LoopsInBounds, Refilling, Popping, NewRegion, Releasing
    <2>4. QED BY <2>1, <2>3, <1>1, InvPlace
  <1>10. CASE EndRelease
    <2>1. /\ pc' = Idle /\ cursor' = 0 /\ elapsed' = FALSE
          /\ UNCHANGED <<poolVars, freedList, regionVars, counters, cacheVars, live>>
      BY <1>10 DEF EndRelease
    <2>2. LoopsInBounds'
      BY <2>1 DEF LoopsInBounds, Idle, Refilling, Popping, NewRegion, Releasing
    <2>3. QED BY <2>1, <2>2, InvPlace
  <1>11. CASE Tick
    <2>1. /\ elapsed' = TRUE
          /\ UNCHANGED <<poolVars, freedList, regionVars, counters, cacheVars, pc,
                         cursor, live>>
      BY <1>11 DEF Tick
    <2>2. LoopsInBounds'
      BY <2>1, <1>1 DEF LoopsInBounds, cacheVars
    <2>3. QED BY <2>1, <2>2, <1>1, InvPlace
  <1>12. CASE UNCHANGED vars
    <2>1. /\ UNCHANGED <<poolVars, freedList, regionVars, counters, cacheVars, live>>
          /\ UNCHANGED <<pc, cursor, elapsed>>
      BY <1>12 DEF vars
    <2>2. LoopsInBounds'
      BY <2>1, <1>1 DEF LoopsInBounds, cacheVars
    <2>3. QED BY <2>1, <2>2, <1>1, InvPlace
  <1>13. QED
    BY <1>2, <1>3, <1>4, <1>5, <1>6, <1>7, <1>8, <1>9, <1>10, <1>11, <1>12
       DEF Next, Continue

(* The invariant holds in every reachable state. *)
LEMMA Invariance == Spec => []IInv
  <1>1. QED BY InvInit, InvNext, PTL DEF Spec

------------------------------------------------------------------------------
(* The results *)

(* Every variable of a SuperPool keeps its type, for every geometry: no    *)
(* counter goes below zero and freed_num never wraps around its u8.        *)
THEOREM TypeCorrect == Spec => []TypeOK
  <1>1. IInv => TypeOK
    BY DEF IInv
  <1>2. QED BY <1>1, Invariance, PTL

(* No chunk is ever in two of the places that may hand it out.             *)
THEOREM SingleOwnerAlways == Spec => []SingleOwner
  <1>1. IInv => SingleOwner
    BY DEF IInv
  <1>2. QED BY <1>1, Invariance, PTL

(* The cluster promise: tags are unique in a region, in use or freed.      *)
THEOREM TagsUniqueAlways == Spec => []TagsUniqueInRegion
  <1>1. IInv => TagsUniqueInRegion
    BY DEF IInv
  <1>2. QED BY <1>1, Invariance, PTL

(* No chunk of a region in use is lost, and no pointer survives a release. *)
THEOREM RegionsAccountedAlways == Spec => []RegionsAccounted
  <1>1. IInv => RegionsAccounted
    BY DEF IInv
  <1>2. QED BY <1>1, Invariance, PTL

(* freed_num, free_chunk_num and region_num are exact after every step.    *)
THEOREM CountersExactAlways == Spec => []CountersExact
  <1>1. IInv => CountersExact
    BY DEF IInv
  <1>2. QED BY <1>1, Invariance, PTL

(* The list of freed regions has each region with a freed chunk once.      *)
THEOREM FreedListExactAlways == Spec => []FreedListExact
  <1>1. IInv => FreedListExact
    BY DEF IInv
  <1>2. QED BY <1>1, Invariance, PTL

(* The loops of a refill and of a release never leave the freed list.      *)
THEOREM LoopsInBoundsAlways == Spec => []LoopsInBounds
  <1>1. IInv => LoopsInBounds
    BY DEF IInv
  <1>2. QED BY <1>1, Invariance, PTL

(* No pool holds more regions than the first count without room.           *)
THEOREM DensityBoundedAlways == Spec => []DensityBounded
  <1>1. IInv => DensityBounded
    BY DEF IInv
  <1>2. QED BY <1>1, Invariance, PTL

------------------------------------------------------------------------------
(* The batch *)

(* The invariant of a refill: a new region is on its way only when too few *)
(* chunks are freed, and the batch has room for one more region.           *)
BatchInv ==
  /\ pc = NewRegion => freeChunkNum < MinChunk
  /\ BatchBounded

(* Every step preserves the invariant of a refill. *)
LEMMA BatchInvNext == IInv /\ BatchInv /\ [Next]_vars => BatchInv'
  <1> SUFFICES ASSUME IInv, BatchInv, [Next]_vars PROVE BatchInv'
    OBVIOUS
  <1>0. /\ MinChunk \in Nat \ {0} /\ Available \in Nat /\ TypeOK /\ IInv'
        /\ count \in Nat /\ Len(batch) = count
    <2>1. IInv'
      BY InvNext
    <2>2. TypeOK
      BY DEF IInv
    <2>3. count = Len(batch)
      BY <2>2 DEF TypeOK
    <2>4. QED BY <2>1, <2>2, <2>3, SuperPoolAssumption, CachedSlots
  <1>1. ASSUME Pop, count > 0 PROVE BatchInv'
    <2>1. pc' = Idle /\ Len(batch') = count - 1
      BY <1>0, <1>1, PopSlots DEF Pop
    <2>2. QED BY <2>1, <1>0 DEF BatchInv, BatchBounded, Idle, NewRegion
  <1>2. CASE AllocFromBatch
    BY <1>1, <1>2 DEF AllocFromBatch
  <1>3. CASE AllocAfterRefill
    <2>1. count > 0
      BY <1>3 DEF AllocAfterRefill, IInv, LoopsInBounds
    <2>2. QED BY <1>1, <1>3, <2>1 DEF AllocAfterRefill
  <1>4. CASE BeginRefill
    <2>1. freeChunkNum' = freeChunkNum /\ count' = 0
      BY <1>4 DEF BeginRefill, counters
    <2>2. Len(batch') = 0
      BY <1>0, <2>1 DEF IInv, TypeOK
    <2>3. pc' = NewRegion => freeChunkNum < MinChunk
      BY <1>0, <1>4, SuperPoolAssumption
         DEF BeginRefill, Refilling, NewRegion, Enough, IInv, TypeOK
    <2>4. QED BY <2>1, <2>2, <2>3, <1>0 DEF BatchInv, BatchBounded
  <1>5. CASE RefillFromRegion
    <2>0. PICK r : r = freedList[cursor]
      OBVIOUS
    <2>1. /\ r \in Region
          /\ \E new \in Seq(Slot) : batch' = batch \o new /\ Len(new) = freedNum[r]
      BY <2>0, <1>5, RefillSlots
    <2>2. PICK new \in Seq(Slot) : batch' = batch \o new /\ Len(new) = freedNum[r]
      BY <2>1
    <2>3. count' = count + freedNum[r]
      BY <2>0, <1>5 DEF RefillFromRegion
    <2>4. Len(batch') = count + freedNum[r]
      BY <2>2, <2>3, <1>0, ConcatCached
    <2>5. freedNum[r] \in 0..Available /\ Len(batch) < MinChunk
      BY <2>1, <1>0, <1>5 DEF TypeOK, IInv, LoopsInBounds, RefillFromRegion
    <2>6. freedNum[r] > 0
      <3>1. freedList \in Seq(Region) /\ cursor \in DOMAIN freedList
        BY <1>0, <1>5 DEF TypeOK, IInv, LoopsInBounds, RefillFromRegion
      <3>2. r \in Range(freedList)
        BY <3>1, <2>0 DEF Range
      <3>3. QED BY <3>2, <2>1 DEF IInv, FreedListExact
    <2>7. pc' # NewRegion
      BY <2>3, <2>5, <2>6, <1>0, <1>5
         DEF RefillFromRegion, Refilling, Popping, NewRegion
    <2>8. QED BY <2>4, <2>5, <2>7, <1>0 DEF BatchInv, BatchBounded
  <1>6. CASE AllocateNewRegion
    <2>1. Len(batch') = Available
      <3>1. count' = Available
        BY <1>6 DEF AllocateNewRegion
      <3>2. QED BY <3>1, <1>0 DEF IInv, TypeOK
    <2>2. pc' = Popping
      BY <1>6 DEF AllocateNewRegion
    <2>3. QED BY <2>1, <2>2, <1>0 DEF BatchInv, BatchBounded, Popping, NewRegion
  <1>7. CASE \E s \in live : Free(s)
    <2>1. batch' = batch /\ pc = Idle /\ pc' \in {pc, Releasing}
      BY <1>7 DEF Free, cacheVars
    <2>2. QED BY <2>1 DEF BatchInv, BatchBounded, Idle, NewRegion, Releasing
  <1>8. CASE ReleaseRegion \/ KeepRegion \/ EndRelease
    <2>1. batch' = batch /\ pc = Releasing /\ pc' \in {pc, Idle}
      BY <1>8 DEF ReleaseRegion, KeepRegion, EndRelease, cacheVars
    <2>2. QED BY <2>1 DEF BatchInv, BatchBounded, Idle, NewRegion, Releasing
  <1>9. CASE Tick \/ UNCHANGED vars
    <2>1. UNCHANGED <<batch, pc, freeChunkNum>>
      BY <1>9 DEF Tick, vars, cacheVars, counters
    <2>2. QED BY <2>1 DEF BatchInv, BatchBounded
  <1>10. QED
    BY <1>2, <1>3, <1>4, <1>5, <1>6, <1>7, <1>8, <1>9 DEF Next, Continue

(* Both invariants hold in every reachable state. *)
LEMMA BatchInvariance == Spec => [](IInv /\ BatchInv)
  <1>1. Init => BatchInv
    <2> SUFFICES ASSUME Init PROVE BatchInv
      OBVIOUS
    <2>1. Len(batch) = 0 /\ pc = Idle
      BY EmptySeq DEF Init
    <2>2. QED BY <2>1, SuperPoolAssumption DEF BatchInv, BatchBounded, Idle, NewRegion
  <1>2. QED BY <1>1, BatchInvNext, InvInit, InvNext, PTL DEF Spec

(* A refill never writes past the batch array of 1024 entries: it stops at *)
(* the first region that brings the batch to MinChunk.                     *)
THEOREM BatchBoundedAlways == Spec => []BatchBounded
  <1>1. BatchInv => BatchBounded
    BY DEF BatchInv
  <1>2. QED BY <1>1, BatchInvariance, PTL

------------------------------------------------------------------------------
(* Action properties *)

(* The elements of two sets that share none add up. *)
LEMMA DisjointUnion ==
  ASSUME NEW S, IsFiniteSet(S), NEW T, IsFiniteSet(T), S \cap T = {}
  PROVE  /\ IsFiniteSet(S \cup T)
         /\ Cardinality(S \cup T) = Cardinality(S) + Cardinality(T)
  <1>1. Cardinality(S) \in Nat /\ Cardinality(T) \in Nat
    BY FS_CardinalityType
  <1>2. Cardinality(S \cap T) = 0
    BY FS_EmptySet
  <1>3. IsFiniteSet(S \cup T)
        /\ Cardinality(S \cup T) = Cardinality(S) + Cardinality(T) - Cardinality(S \cap T)
    BY FS_Union
  <1>4. QED BY <1>1, <1>2, <1>3

(* Every chunk of the regions in use is with the program, in the batch or  *)
(* freed: the three counts add up to that of the chunks.                   *)
LEMMA Conservation ==
  ASSUME IInv
  PROVE  /\ IsFiniteSet(live) /\ Cardinality(live) \in Nat
         /\ regionNum * Available = Cardinality(live) + count + freeChunkNum
  <1>1. /\ live \subseteq Slot /\ Cached \subseteq Slot /\ Freed \subseteq Slot
        /\ count \in Nat /\ regionList \subseteq Region
        /\ \A i \in 1..count : batch[i] \in Slot
    BY CachedSlots DEF IInv, TypeOK
  <1>2. /\ IsFiniteSet(live) /\ IsFiniteSet(Cached) /\ IsFiniteSet(Freed)
        /\ IsFiniteSet(regionList) /\ IsFiniteSet(Chunk)
        /\ Cardinality(Chunk) = Available
    BY <1>1, FiniteSets, FS_Subset
  <1>3. Cardinality(Cached) = count
    <2> DEFINE h == [i \in 1..count |-> batch[i]]
    <2>1. h \in [1..count -> Cached]
      BY DEF Cached
    <2>2. \A i, j \in 1..count : h[i] = h[j] => i = j
      BY DEF IInv, SingleOwner, SameChunk
    <2>3. \A s \in Cached : \E i \in 1..count : h[i] = s
      BY DEF Cached
    <2>4. h \in Bijection(1..count, Cached)
      BY <2>1, <2>2, <2>3, Fun_IsBij
    <2>5. IsFiniteSet(1..count) /\ Cardinality(1..count) = count
      BY <1>1, FS_Interval
    <2>6. QED BY <2>4, <2>5, FS_Bijection DEF ExistsBijection
  <1>4. Cardinality(Held) = Cardinality(live) + count + Cardinality(Freed)
    <2>1. \A s : SameChunk(s, s)
      BY DEF SameChunk
    <2>2. live \cap Cached = {} /\ (live \cup Cached) \cap Freed = {}
      BY <2>1 DEF IInv, SingleOwner
    <2>3. Cardinality(live \cup Cached) = Cardinality(live) + Cardinality(Cached)
          /\ IsFiniteSet(live \cup Cached)
      BY <2>2, <1>2, DisjointUnion
    <2>4. Cardinality((live \cup Cached) \cup Freed)
            = Cardinality(live \cup Cached) + Cardinality(Freed)
      BY <2>2, <2>3, <1>2, DisjointUnion
    <2>5. QED BY <2>3, <2>4, <1>3 DEF Held
  <1>5. Cardinality(Held) = Cardinality(regionList) * Available
    <2> DEFINE P == regionList \X Chunk
               g == [s \in Held |-> <<s.region, s.chunk>>]
    <2>1. \A s \in Held : s \in Slot /\ s.region \in Region /\ s.chunk \in Chunk
      BY <1>1 DEF Held, Slot
    <2>2. \A s \in Held : s.region \in regionList
      BY <2>1 DEF IInv, RegionsAccounted, CountersExact
    <2>3. g \in [Held -> P]
      BY <2>1, <2>2
    <2>4. \A s, u \in Held : g[s] = g[u] => s = u
      <3> TAKE s \in Held, u \in Held
      <3>1. g[s] = g[u] => s.region = u.region /\ s.chunk = u.chunk
        OBVIOUS
      <3>2. s.region = u.region /\ s.chunk = u.chunk => s.tag = u.tag
        BY DEF IInv, TagsUniqueInRegion
      <3>3. s \in Slot /\ u \in Slot
        BY <2>1
      <3>4. QED BY <3>1, <3>2, <3>3 DEF Slot
    <2>5. \A d \in P : \E s \in Held : g[s] = d
      <3> TAKE d \in P
      <3>1. /\ d[1] \in Region /\ status[d[1]] = 1 /\ d[2] \in Chunk
            /\ d = <<d[1], d[2]>>
        BY <1>1 DEF IInv, CountersExact
      <3>2. PICK s \in Held : s.region = d[1] /\ s.chunk = d[2]
        BY <3>1 DEF IInv, RegionsAccounted
      <3>3. QED BY <3>1, <3>2
    <2>6. g \in Bijection(Held, P)
      BY <2>3, <2>4, <2>5, Fun_IsBij
    <2>7. IsFiniteSet(Held)
      BY <1>2, FS_Union DEF Held
    <2>8. Cardinality(Held) = Cardinality(P)
      BY <2>6, <2>7, FS_Bijection DEF ExistsBijection
    <2>9. QED BY <2>8, <1>2, FS_Product
  <1>6. QED
    BY <1>2, <1>4, <1>5, FS_CardinalityType DEF IInv, CountersExact

(* A SuperPool takes a new region only while the chunks of its regions are *)
(* fewer than those of the program plus MinChunk.                          *)
THEOREM NewRegionsWhenNeededAlways == Spec => NewRegionsWhenNeeded
  <1>1. ASSUME IInv, BatchInv, [Next]_vars, regionNum' > regionNum
        PROVE  regionNum * Available < Cardinality(live) + MinChunk
    <2>1. regionNum \in Nat
      BY <1>1 DEF IInv, TypeOK
    <2>2. CASE AllocateNewRegion
      <3>1. pc = NewRegion
        BY <2>2 DEF AllocateNewRegion
      <3>2. count = 0 /\ freeChunkNum < MinChunk /\ freeChunkNum \in Nat
        BY <3>1, <1>1 DEF IInv, LoopsInBounds, BatchInv, TypeOK
      <3>3. QED BY <3>2, <1>1, Conservation, SuperPoolAssumption
    <2>3. CASE ReleaseRegion
      BY <2>1, <2>3, <1>1 DEF ReleaseRegion
    <2>4. CASE ~AllocateNewRegion /\ ~ReleaseRegion
      <3>1. regionNum' = regionNum
        BY <2>4, <1>1
           DEF Next, Continue, AllocFromBatch, AllocAfterRefill, Pop, BeginRefill,
               RefillFromRegion, Free, KeepRegion, EndRelease, Tick, vars, counters
      <3>2. QED BY <3>1, <2>1, <1>1
    <2>5. QED BY <2>2, <2>3, <2>4
  <1>2. IInv /\ BatchInv /\ [Next]_vars =>
          [regionNum' > regionNum =>
             regionNum * Available < Cardinality(live) + MinChunk]_vars
    BY <1>1
  <1>3. QED BY <1>2, BatchInvariance, PTL DEF Spec, NewRegionsWhenNeeded

(* A refill gives a chunk a new tag unless it is alone in its region. *)
LEMMA RotateStep ==
  ASSUME IInv, RefillFromRegion, NEW i \in DOMAIN batch', i > Len(batch),
         NEW s, s = batch'[i], Cardinality(FreedChunks(s.region)) > 1
  PROVE  s.tag # lastTag[s.region][s.chunk]
  <1>1. PICK r : r = freedList[cursor]
    OBVIOUS
  <1>2. r \in Region /\ \E new \in Seq(Slot) : batch' = batch \o new
    BY <1>1, RefillSlots
  <1>3. PICK f \in Ascending(FreedChunks(r)) : batch' = batch \o Rotated(r, f)
    BY <1>1 DEF RefillFromRegion
  <1> DEFINE n == Cardinality(FreedChunks(r))
             k == i - Len(batch)
             p == IF k = 1 THEN n ELSE k - 1
  <1>4. n \in Nat /\ Rotated(r, f) \in Seq(Slot) /\ Len(Rotated(r, f)) = n
    BY <1>2, RotatedSlots, FreedOfRegion, FS_CardinalityType DEF IInv
  <1>5. batch \in Seq(Slot) /\ Len(batch) \in Nat
    BY LenProperties DEF IInv, TypeOK
  <1>6. k \in 1..n /\ s = Rotated(r, f)[k]
    <2>1. batch' \in Seq(Slot) /\ Len(batch') = Len(batch) + n
      BY <1>3, <1>4, <1>5, ConcatProperties
    <2>2. i \in 1..(Len(batch) + n)
      BY <2>1, LenProperties
    <2>3. batch'[i] = Rotated(r, f)[i - Len(batch)]
      BY <2>2, <1>3, <1>4, <1>5, ConcatProperties
    <2>4. QED BY <2>2, <2>3, <1>4, <1>5
  <1>7. s = [region |-> r, chunk |-> f[k], tag |-> lastTag[r][f[p]]]
    BY <1>6 DEF Rotated
  <1>8. s.region = r /\ s.chunk = f[k] /\ s.tag = lastTag[r][f[p]]
    BY <1>7
  <1>9. p \in 1..n /\ p # k
    BY <1>4, <1>6, <1>8
  <1> HIDE DEF n, k, p
  <1>10. /\ f \in [1..n -> FreedChunks(r)]
         /\ \A a, b \in 1..n : a < b => f[a] < f[b]
    BY DEF Ascending, n
  <1>11. f[k] \in FreedChunks(r) /\ f[p] \in FreedChunks(r)
    BY <1>6, <1>9, <1>10
  <1>12. f[k] # f[p]
    <2>1. f[k] \in Int /\ f[p] \in Int
      BY <1>11 DEF FreedChunks, Chunk
    <2>2. k < p \/ p < k
      BY <1>4, <1>6, <1>9
    <2>3. QED BY <2>1, <2>2, <1>6, <1>9, <1>10
  <1>13. ASSUME NEW c \in FreedChunks(r)
         PROVE  [region |-> r, chunk |-> c, tag |-> lastTag[r][c]] \in Held
    <2> DEFINE u == [region |-> r, chunk |-> c, tag |-> lastTag[r][c]]
    <2>1. c \in Chunk /\ lastTag[r][c] \in Tag
      BY <1>2 DEF FreedChunks, IInv, TypeOK
    <2>2. u \in Slot
      BY <2>1, <1>2 DEF Slot
    <2>3. QED BY <2>2 DEF Freed, Held
  <1>14. lastTag[r][f[k]] # lastTag[r][f[p]]
    <2> DEFINE u(c) == [region |-> r, chunk |-> c, tag |-> lastTag[r][c]]
    <2>1. u(f[k]) \in Held /\ u(f[p]) \in Held
      BY <1>11, <1>13
    <2>2. QED BY <2>1, <1>12 DEF IInv, TagsUniqueInRegion
  <1>15. QED BY <1>8, <1>14

(* Through every refill, a chunk that had company when freed gets a tag    *)
(* other than the one its dangling pointers carry.                         *)
THEOREM TagsRotateAlways == Spec => TagsRotate
  <1> DEFINE A == \A i \in DOMAIN batch' :
                    LET s == batch'[i]
                    IN  /\ pc = Refilling /\ i > Len(batch)
                        /\ Cardinality(FreedChunks(s.region)) > 1
                        => s.tag # lastTag[s.region][s.chunk]
  <1>1. ASSUME IInv, [Next]_vars PROVE A
    <2>1. CASE RefillFromRegion
      BY <2>1, <1>1, RotateStep
    <2>2. CASE ~RefillFromRegion
      <3> SUFFICES ASSUME NEW i \in DOMAIN batch', pc = Refilling, i > Len(batch)
                   PROVE  FALSE
        OBVIOUS
      <3>1. batch' = batch
        BY <2>2, <1>1
           DEF Next, Continue, AllocFromBatch, AllocAfterRefill, BeginRefill,
               AllocateNewRegion, Free, ReleaseRegion, KeepRegion, EndRelease,
               Tick, vars, cacheVars, Idle, Refilling, Popping, NewRegion, Releasing
      <3>2. batch \in Seq(Slot) /\ Len(batch) \in Nat /\ DOMAIN batch = 1..Len(batch)
        BY <1>1, LenProperties DEF IInv, TypeOK
      <3>3. QED BY <3>1, <3>2
    <2>3. QED BY <2>1, <2>2
  <1>2. IInv /\ [Next]_vars => [A]_vars
    BY <1>1
  <1>3. QED BY <1>2, Invariance, PTL DEF Spec, TagsRotate

------------------------------------------------------------------------------
(* A SuperPool implements a TaggedHeap *)

(* The popped pointer is one the heap may hand out. *)
LEMMA PopIsMalloc ==
  ASSUME IInv, Pop, count > 0
  PROVE  Heap!Next
  <1>1. PICK s : s = batch[count]
    OBVIOUS
  <1>2. s \in Cached /\ s \in Slot /\ live' = live \cup {s} /\ live \subseteq Slot
    BY <1>1, PopSlots, CachedSlots DEF IInv
  <1>3. regionList' = regionList
    BY DEF Pop, poolVars
  <1>4. s.region \in regionList
    BY <1>2 DEF IInv, RegionsAccounted, CountersExact, Held, Slot
  <1>5. ASSUME NEW t \in live, t.region = s.region
        PROVE  t.chunk # s.chunk /\ t.tag # s.tag
    BY <1>2, <1>5 DEF IInv, SingleOwner, TagsUniqueInRegion, SameChunk, Held
  <1>6. Heap!Malloc(s)
    BY <1>2, <1>3, <1>4, <1>5 DEF Heap!Malloc
  <1>7. s \in Heap!Slot
    BY <1>2 DEF Heap!Slot, Slot
  <1>8. QED BY <1>6, <1>7 DEF Heap!Next

(* Every step of a SuperPool is a step of the heap, or changes nothing the *)
(* program sees.                                                           *)
LEMMA HeapStep ==
  ASSUME IInv, [Next]_vars
  PROVE  [Heap!Next]_(Heap!vars)
  <1>1. CASE AllocFromBatch
    BY <1>1, PopIsMalloc DEF AllocFromBatch
  <1>2. CASE AllocAfterRefill
    BY <1>2, PopIsMalloc DEF AllocAfterRefill, IInv, LoopsInBounds
  <1>3. CASE \E s \in live : Free(s)
    <2>1. PICK s \in live : Free(s)
      BY <1>3
    <2>2. live' = live \ {s} /\ regionList' = regionList
      BY <2>1 DEF Free, poolVars
    <2>3. QED BY <2>2 DEF Heap!Next, Heap!Free
  <1>4. CASE AllocateNewRegion
    <2>1. PICK p \in Pool, x \in 1..AllRegionsInPool :
             LET r == <<p, x>>
             IN  /\ r \in Region /\ status[r] = 0
                 /\ regionList' = regionList \cup {r} /\ live' = live
      BY <1>4, NewRegionSlots
    <2>2. PICK r : r = <<p, x>>
      OBVIOUS
    <2>3. r \in Region /\ r \notin regionList
      BY <2>1, <2>2 DEF IInv, CountersExact
    <2>4. Heap!Map(r)
      BY <2>1, <2>2, <2>3 DEF Heap!Map
    <2>5. QED BY <2>3, <2>4 DEF Heap!Next
  <1>5. CASE ReleaseRegion
    <2>1. PICK r : r = freedList[cursor]
      OBVIOUS
    <2>2. r \in Region /\ live' = live /\ (\A t \in live : t.region # r)
      BY <2>1, <1>5, ReleaseSlots
    <2>3. r \in regionList
      BY <2>1, <1>5, CountersRelease
    <2>4. regionList' = regionList \ {r}
      BY <2>1, <1>5 DEF ReleaseRegion
    <2>5. Heap!Unmap(r)
      BY <2>2, <2>3, <2>4 DEF Heap!Unmap
    <2>6. QED BY <2>2, <2>5 DEF Heap!Next
  <1>6. CASE BeginRefill \/ RefillFromRegion \/ KeepRegion \/ EndRelease \/ Tick
             \/ UNCHANGED vars
    <2>1. UNCHANGED <<regionList, live>>
      BY <1>6 DEF BeginRefill, RefillFromRegion, KeepRegion, EndRelease, Tick, vars,
                  poolVars
    <2>2. QED BY <2>1 DEF Heap!vars
  <1>7. QED BY <1>1, <1>2, <1>3, <1>4, <1>5, <1>6 DEF Next, Continue

(* Whatever the history of refills and releases, the program sees a heap   *)
(* that hands out chunks nobody holds, under tags nobody holds in their    *)
(* region, and unmaps only regions nobody points into.                     *)
THEOREM SuperPoolImplementsHeap == Spec => ImplementsHeap
  <1>1. Init => Heap!Init
    BY DEF Init, Heap!Init
  <1>2. IInv /\ [Next]_vars => [Heap!Next]_(Heap!vars)
    BY HeapStep
  <1>3. QED
    BY <1>1, <1>2, Invariance, PTL DEF Spec, ImplementsHeap, Heap!Spec

------------------------------------------------------------------------------
(* The lists of a SuperPool are those of ClusterLists                      *)

(* Every step moves the lists and the place of a walk along them as a step *)
(* of ClusterLists does, or leaves them alone.                             *)
LEMMA ListsStep ==
  ASSUME IInv, [Next]_vars
  PROVE  [Lists!Next]_(Lists!vars)
  <1> USE DEF Walk, Idle, Refilling, NewRegion, Popping, Releasing
  <1>1. CASE AllocFromBatch \/ AllocAfterRefill \/ Tick \/ UNCHANGED vars
    <2>1. UNCHANGED <<regionList, freedList, Walk, cursor>>
      BY <1>1 DEF AllocFromBatch, AllocAfterRefill, Pop, Tick, vars, poolVars
    <2>2. QED BY <2>1 DEF Lists!vars
  <1>2. CASE BeginRefill
    <2>1. UNCHANGED <<regionList, freedList>> /\ Walk = "none"
      BY <1>2 DEF BeginRefill, poolVars
    <2>2. CASE cursor' \in Starts /\ pc' = Refilling
      <3>1. freedList \in Seq(Region) /\ freeRegionNum = Len(freedList)
        BY DEF IInv, TypeOK, FreedListExact
      <3>2. DOMAIN freedList = 1..Len(freedList) /\ Len(freedList) \in Nat
        BY <3>1, LenProperties
      <3>3. cursor' \in DOMAIN freedList /\ cursor' <= StartSpan
        BY <2>2, <3>1, <3>2, SuperPoolAssumption DEF Starts
      <3>4. Lists!BeginRefill
        BY <2>1, <2>2, <3>3 DEF Lists!BeginRefill
      <3>5. QED BY <3>4 DEF Lists!Next
    <2>3. CASE pc' = NewRegion /\ cursor' = cursor
      BY <2>1, <2>3 DEF Lists!vars
    <2>4. QED BY <1>2, <2>2, <2>3 DEF BeginRefill
  <1>3. CASE RefillFromRegion
    <2>1. /\ Walk = "refill" /\ regionList' = regionList
          /\ freedList' = RemoveAt(freedList, cursor)
          /\ \/ /\ freedList' # <<>> /\ pc' = Refilling
                /\ cursor' = IF cursor > Len(freedList') THEN 1 ELSE cursor
             \/ pc' \in {Popping, NewRegion} /\ cursor' = 0
      BY <1>3 DEF RefillFromRegion, Onward, poolVars
    <2>2. Lists!Take
      BY <2>1 DEF Lists!Take, Lists!RemoveAt, RemoveAt
    <2>3. QED BY <2>2 DEF Lists!Next
  <1>4. CASE AllocateNewRegion
    <2>1. PICK r \in Region : status[r] = 0 /\ regionList' = regionList \cup {r}
      BY <1>4, NewRegionSlots
    <2>2. r \notin regionList
      BY <2>1 DEF IInv, CountersExact
    <2>3. UNCHANGED <<freedList, cursor>> /\ Walk = "none" /\ Walk' = "none"
      BY <1>4 DEF AllocateNewRegion
    <2>4. Lists!NewRegion(r)
      BY <2>1, <2>2, <2>3 DEF Lists!NewRegion
    <2>5. QED BY <2>1, <2>4 DEF Lists!Next
  <1>5. CASE \E s \in live : Free(s)
    <2>1. PICK s \in live : Free(s)
      BY <1>5
    <2>2. s \in Slot /\ s.region \in Region /\ s.region \in regionList
      BY DEF IInv, TypeOK, RegionsAccounted, CountersExact, Held, Slot
    <2>3. inFreeList[s.region] <=> s.region \in Range(freedList)
      BY <2>2 DEF IInv, FreedListExact
    <2>4. freedList' = IF s.region \in Range(freedList) THEN freedList
                                                        ELSE <<s.region>> \o freedList
      BY <2>1, <2>3 DEF Free, Listed
    <2>5. /\ Walk = "none" /\ regionList' = regionList
          /\ \/ Walk' = "none" /\ cursor' = cursor
             \/ Walk' = "release" /\ cursor' = 1
      BY <2>1 DEF Free, poolVars
    <2>6. Lists!Free(s.region)
      BY <2>2, <2>4, <2>5 DEF Lists!Free, Lists!Range, Range
    <2>7. QED BY <2>2, <2>6 DEF Lists!Next
  <1>6. CASE ReleaseRegion
    <2>1. Lists!Drop
      BY <1>6 DEF ReleaseRegion, Lists!Drop, Lists!RemoveAt, RemoveAt
    <2>2. QED BY <2>1 DEF Lists!Next
  <1>7. CASE KeepRegion
    <2>1. Lists!Pass
      BY <1>7 DEF KeepRegion, Lists!Pass, poolVars
    <2>2. QED BY <2>1 DEF Lists!Next
  <1>8. CASE EndRelease
    <2>1. Lists!End
      BY <1>8 DEF EndRelease, Lists!End, poolVars
    <2>2. QED BY <2>1 DEF Lists!Next
  <1>9. QED
    BY <1>1, <1>2, <1>3, <1>4, <1>5, <1>6, <1>7, <1>8 DEF Next, Continue

(* The lists a SuperPool keeps behave as RegionLists shows its pointers to. *)
THEOREM SuperPoolImplementsLists == Spec => ImplementsLists
  <1>1. Init => Lists!Init
    BY DEF Init, Lists!Init, Walk, Idle, Refilling, Releasing
  <1>2. IInv /\ [Next]_vars => [Lists!Next]_(Lists!vars)
    BY ListsStep
  <1>3. QED
    BY <1>1, <1>2, Invariance, PTL DEF Spec, ImplementsLists, Lists!Spec

==============================================================================
