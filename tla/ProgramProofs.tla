---------------------------- MODULE ProgramProofs ----------------------------
(***************************************************************************)
(* Proofs about what is between a program and the SuperPools.               *)
(*                                                                         *)
(* OneOwner, ShadowExact, DanglingDetected and ReportsAreTrue of HwasanHeap *)
(* hold for any number of threads, regions, chunks and granules, any        *)
(* granule size and any tags.  The four hold together: the shadow is exact  *)
(* because every chunk has one owner, who alone writes its shadow, and      *)
(* every chunk has one owner because the shadow lets nobody free what is    *)
(* not his.                                                                *)
(*                                                                         *)
(* ChecksExact of TagChecks holds for any stack, global, page and tags of    *)
(* granules of 4 bytes: the shadow is that of the frames, which lie one      *)
(* below the other, and of the global while it is loaded.  CallsExact of     *)
(* EntryPoints holds for every size and number of a machine word.            *)
(***************************************************************************)
EXTENDS MCProgram, Sequences, FiniteSetTheorems, TLAPS

AllGranules == 0..(Granules - 1)

(* The granules in use to their end, and the bytes in use of the next.      *)
Full(n) == TagSize(n) \div Granule
Rest(n) == TagSize(n) % Granule

LEMMA Division ==
  ASSUME NEW o \in Nat
  PROVE  /\ o \div Granule \in Nat
         /\ o % Granule \in 0..(Granule - 1)
         /\ o = Granule * (o \div Granule) + (o % Granule)
<1>1. Granule \in Int /\ Granule > 0 /\ o \in Int
  BY HwasanHeapAssumption
<1>2. o \div Granule \in Int /\ o % Granule \in 0..(Granule - 1)
  BY <1>1
<1>3. o = Granule * (o \div Granule) + (o % Granule)
  BY <1>1, Z3
<1>4. o \div Granule >= 0
  BY <1>1, Z3
<1> QED
  BY <1>2, <1>3, <1>4

LEMMA Product ==
  ASSUME NEW a \in Nat, NEW b \in Nat, a < b
  PROVE  Granule * a + Granule <= Granule * b
<1>1. Granule \in Nat
  BY HwasanHeapAssumption
<1>2. PICK d \in Nat : b = a + 1 + d
  <2>1. b - a - 1 \in Nat /\ b = a + 1 + (b - a - 1)
    OBVIOUS
  <2> QED
    BY <2>1
<1>3. Granule * b = Granule * a + Granule + Granule * d
  BY <1>1, <1>2
<1>4. Granule * d \in Nat /\ Granule * a \in Nat
  BY <1>1
<1> QED
  BY <1>1, <1>3, <1>4

LEMMA ChunkSizeType == ChunkSize \in Nat /\ ChunkSize >= 1
BY HwasanHeapAssumption DEF ChunkSize

(* The granules of a size that fits. *)
LEMMA Split ==
  ASSUME NEW n \in 0..ChunkSize
  PROVE  /\ TagSize(n) \in 1..ChunkSize
         /\ Full(n) \in Nat /\ Rest(n) \in 0..(Granule - 1)
         /\ TagSize(n) = Granule * Full(n) + Rest(n)
         /\ Rest(n) # 0 => Full(n) \in AllGranules
         /\ Rest(n) = 0 => Full(n) # 0
         /\ (n % Granule = 0 /\ n # 0) <=> Rest(n) = 0
         /\ Rest(n) # 0 => n \div Granule = Full(n)
<1>1. TagSize(n) \in 1..ChunkSize
  BY ChunkSizeType DEF TagSize
<1>2. /\ Full(n) \in Nat /\ Rest(n) \in 0..(Granule - 1)
      /\ TagSize(n) = Granule * Full(n) + Rest(n)
  <2>1. TagSize(n) \in Nat
    BY <1>1, ChunkSizeType
  <2>2. PICK N \in Nat : N = TagSize(n)
    BY <2>1
  <2>3. Full(n) = N \div Granule /\ Rest(n) = N % Granule
    BY <2>2 DEF Full, Rest
  <2>4. N \div Granule \in Nat /\ N % Granule \in 0..(Granule - 1)
    BY Division
  <2>5. N = Granule * (N \div Granule) + (N % Granule)
    BY Division
  <2> QED
    BY <2>2, <2>3, <2>4, <2>5
<1>3. ASSUME Rest(n) # 0 PROVE Full(n) \in AllGranules
  <2>1. Granules \in Nat /\ Granule \in Nat
    BY HwasanHeapAssumption
  <2>2. ASSUME ~(Full(n) < Granules) PROVE FALSE
    <3>1. Granule * Full(n) >= Granule * Granules
      <4>1. CASE Full(n) = Granules
        BY <4>1, <2>1
      <4>2. CASE Granules < Full(n)
        BY <4>2, <2>1, <1>2, Product
      <4> QED
        BY <4>1, <4>2, <2>1, <2>2, <1>2
    <3> QED
      BY <1>1, <1>2, <1>3, <2>1, <3>1 DEF ChunkSize
  <2> QED
    BY <2>1, <2>2, <1>2 DEF AllGranules
<1>4. Rest(n) = 0 => Full(n) # 0
  BY <1>1, <1>2, HwasanHeapAssumption
<1>5. CASE n = 0
  <2>1. 1 % Granule = 1 /\ 1 \div Granule = 0 /\ 0 \div Granule = 0
    BY HwasanHeapAssumption
  <2> QED
    BY <1>1, <1>2, <1>3, <1>4, <1>5, <2>1 DEF Full, Rest, TagSize
<1>6. CASE n # 0
  BY <1>1, <1>2, <1>3, <1>4, <1>6 DEF Full, Rest, TagSize
<1> QED
  BY <1>5, <1>6

------------------------------------------------------------------------------
(* The inductive invariant *)

Filling == {"fill", "tagFull", "tagShort", "tagByte"}
Freeing == {"check", "clear", "unlocked", "deallocate"}
Label ==
  Filling \cup Freeing
    \cup {"idle", "wait", "allocate", "return", "copy", "release", "report"}

TypeOK ==
  /\ mapped \subseteq Region /\ live \subseteq Slot
  /\ shadow \in [Place -> [AllGranules -> 0..255]]
  /\ lastByte \in [Place -> [AllGranules -> 0..256]]
  /\ pc \in [Thread -> Label]
  /\ size \in [Thread -> 0..ChunkSize]
  /\ old \in [Thread -> Slot \cup {NoSlot}]
  /\ new \in [Thread -> Slot \cup {NoSlot}]
  /\ held \subseteq [slot : Slot, size : 0..ChunkSize]
  /\ stale \subseteq Slot
  /\ ~StaleFrees => stale = {}

(* What TaggedHeap promises: chunks in use are apart and have tags of their *)
(* own in their region, which is mapped.                                   *)
HeapOK ==
  /\ \A s \in live : s.region \in mapped
  /\ \A s, u \in live :
       s.region = u.region /\ (s.chunk = u.chunk \/ s.tag = u.tag) => s = u

(* The pointers a thread has at each point of its call. *)
Standing(t) ==
  /\ pc[t] \in Filling \cup {"return", "copy"} => new[t] # NoSlot
  /\ pc[t] \in {"idle", "wait", "allocate"} => new[t] = NoSlot
  /\ pc[t] = "idle" => old[t] = NoSlot
  /\ pc[t] \in Freeing \cup {"copy", "release", "report"} => old[t] # NoSlot

Brings(t) == new[t] # NoSlot
Takes(t) == old[t] # NoSlot /\ pc[t] \notin {"release", "report"}

(* OneOwner, pointer by pointer. *)
Owners ==
  /\ \A h \in held : h.slot \in live
  /\ \A t \in Thread : Brings(t) => new[t] \in live
  /\ \A t \in Thread : Takes(t) => old[t] \in live
  /\ \A s \in live :
       \/ \E h \in held : h.slot = s
       \/ \E t \in Thread : Brings(t) /\ new[t] = s
       \/ \E t \in Thread : Takes(t) /\ old[t] = s
  /\ \A h, k \in held : h.slot = k.slot => h = k
  /\ \A h \in held, t \in Thread :
       (Brings(t) => new[t] # h.slot) /\ (Takes(t) => old[t] # h.slot)
  /\ \A t, u \in Thread : Brings(t) /\ Takes(u) => new[t] # old[u]
  /\ \A t, u \in Thread : Brings(t) /\ Brings(u) /\ new[t] = new[u] => t = u
  /\ \A t, u \in Thread : Takes(t) /\ Takes(u) /\ old[t] = old[u] => t = u

(* The shadow of a chunk of size n when its full granules are tagged, and   *)
(* when the short one has its length, too.                                 *)
FullTagged(row, tag, n) ==
  \A g \in AllGranules : row[g] = IF g < Full(n) THEN tag ELSE 0
Tagged(row, tag, n) ==
  \A g \in AllGranules :
    row[g] = IF g < Full(n) THEN tag ELSE IF g = Full(n) THEN Rest(n) ELSE 0

Blank(row) == \A g \in AllGranules : row[g] = 0

(* The last byte of the short granule, if there is one. *)
EndGranule(row, n, byte) == Rest(n) # 0 => row[Full(n)] = byte

Written(s, n) ==
  Tagged(shadow[PlaceOf(s)], s.tag, n) /\ EndGranule(lastByte[PlaceOf(s)], n, s.tag)

(* How far a malloc has written the shadow. *)
Progress(t) ==
  LET row == shadow[PlaceOf(new[t])]
      bytes == lastByte[PlaceOf(new[t])]
      n == size[t]
  IN  /\ pc[t] \in {"fill", "tagFull"} => Blank(row)
      /\ pc[t] = "tagShort" => FullTagged(row, new[t].tag, n)
      /\ pc[t] = "tagByte" => Tagged(row, new[t].tag, n)
      /\ pc[t] \in {"tagFull", "tagShort", "tagByte"} => EndGranule(bytes, n, 0)
      /\ pc[t] \notin Filling => Written(new[t], n)

(* And a free cleared it. *)
Clearing(t) ==
  IF pc[t] \in {"unlocked", "deallocate"}
    THEN Blank(shadow[PlaceOf(old[t])])
    ELSE \E n \in 0..ChunkSize : Written(old[t], n)

Memory ==
  /\ \A x \in Place : (\A s \in live : PlaceOf(s) # x) => Blank(shadow[x])
  /\ \A h \in held : Written(h.slot, h.size)
  /\ \A t \in Thread : Brings(t) => Progress(t)
  /\ \A t \in Thread : Takes(t) => Clearing(t)

IInv == TypeOK /\ HeapOK /\ (\A t \in Thread : Standing(t)) /\ Owners /\ Memory

------------------------------------------------------------------------------

(* What the shadow says *)

LEMMA Slots ==
  /\ NoSlot \notin Slot
  /\ \A s \in Slot : /\ s.region \in Region /\ s.chunk \in Chunk /\ s.tag \in 1..255
                     /\ PlaceOf(s) \in Place
                     /\ PlaceOf(s)[1] = s.region /\ PlaceOf(s)[2] = s.chunk
  /\ \A s, u \in Slot : PlaceOf(s) = PlaceOf(u) <=> s.region = u.region /\ s.chunk = u.chunk
<1>1. NoSlot \notin Slot
  BY NoSlotAssumption
<1>2. ASSUME NEW s \in Slot
      PROVE  /\ s.region \in Region /\ s.chunk \in Chunk /\ s.tag \in 1..255
             /\ PlaceOf(s) \in Place
             /\ PlaceOf(s)[1] = s.region /\ PlaceOf(s)[2] = s.chunk
  BY HwasanHeapAssumption DEF Slot, PlaceOf, Place
<1> QED
  BY <1>1, <1>2 DEF PlaceOf

LEMMA Rows ==
  ASSUME TypeOK, NEW x \in Place, NEW g \in AllGranules
  PROVE  shadow[x][g] \in 0..255 /\ lastByte[x][g] \in 0..256
BY DEF TypeOK

(* The bytes of a chunk, granule by granule. *)
LEMMA Offsets ==
  ASSUME NEW o \in Offset
  PROVE  /\ o \in Nat /\ o \div Granule \in AllGranules /\ o % Granule \in 0..(Granule - 1)
         /\ o = Granule * (o \div Granule) + (o % Granule)
<1>1. o \in Nat /\ o < ChunkSize
  BY ChunkSizeType DEF Offset
<1>2. /\ o \div Granule \in Nat /\ o % Granule \in 0..(Granule - 1)
      /\ o = Granule * (o \div Granule) + (o % Granule)
  BY <1>1, Division
<1>3. o \div Granule < Granules
  <2>1. Granules \in Nat /\ Granule \in Nat
    BY HwasanHeapAssumption
  <2> SUFFICES ASSUME ~(o \div Granule < Granules) PROVE FALSE
    OBVIOUS
  <2> DEFINE q == o \div Granule
             r == o % Granule
  <2>2. q \in Nat /\ r \in Nat /\ q >= Granules /\ o = Granule * q + r
    BY <1>2, <2>1
  <2> HIDE DEF q, r
  <2>3. Granule * q >= Granule * Granules
    <3>1. CASE q = Granules
      BY <3>1, <2>1
    <3>2. CASE Granules < q
      BY <3>2, <2>1, <2>2, Product
    <3> QED
      BY <3>1, <3>2, <2>1, <2>2
  <2> QED
    BY <1>1, <2>1, <2>2, <2>3 DEF ChunkSize
<1> QED
  BY <1>1, <1>2, <1>3, HwasanHeapAssumption DEF AllGranules

(* A byte is one of the bytes in use exactly if its granule is full or it    *)
(* is early enough in the short one.                                       *)
LEMMA InUse ==
  ASSUME NEW o \in Offset, NEW n \in 0..ChunkSize
  PROVE  o < TagSize(n) <=> \/ o \div Granule < Full(n)
                            \/ o \div Granule = Full(n) /\ (o % Granule) + 1 <= Rest(n)
<1> DEFINE q == o \div Granule
           r == o % Granule
<1>1. q \in Nat /\ r \in 0..(Granule - 1) /\ o = Granule * q + r
  BY Offsets, HwasanHeapAssumption DEF AllGranules
<1>2. /\ TagSize(n) \in Nat /\ Full(n) \in Nat /\ Rest(n) \in 0..(Granule - 1)
      /\ TagSize(n) = Granule * Full(n) + Rest(n)
  BY Split, ChunkSizeType
<1>3. Granule \in Nat
  BY HwasanHeapAssumption
<1> SUFFICES o < TagSize(n) <=> q < Full(n) \/ (q = Full(n) /\ r + 1 <= Rest(n))
  OBVIOUS
<1> HIDE DEF q, r
<1>4. CASE q = Full(n)
  BY <1>1, <1>2, <1>3, <1>4
<1>5. CASE q < Full(n)
  <2>1. Granule * q + Granule <= Granule * Full(n)
    BY <1>1, <1>2, <1>5, Product
  <2> QED
    BY <1>1, <1>2, <1>3, <1>5, <2>1
<1>6. CASE q > Full(n)
  <2>1. Granule * Full(n) + Granule <= Granule * q
    BY <1>1, <1>2, <1>6, Product
  <2> QED
    BY <1>1, <1>2, <1>3, <1>6, <2>1
<1> QED
  BY <1>1, <1>2, <1>4, <1>5, <1>6

(* The shadow of a chunk that has been written passes the pointer on the     *)
(* bytes asked for                                                         *)
LEMMA OwnBytes ==
  ASSUME TypeOK, NEW s \in Slot, NEW n \in 0..ChunkSize, Written(s, n),
         NEW o \in Offset, o < TagSize(n)
  PROVE  Matches(s.tag, PlaceOf(s), o)
<1> DEFINE g == o \div Granule
<1>1. g \in AllGranules /\ (g < Full(n) \/ (g = Full(n) /\ (o % Granule) + 1 <= Rest(n)))
  BY Offsets, InUse
<1>2. CASE g < Full(n)
  BY <1>1, <1>2 DEF Written, Tagged, Matches, TagMatches
<1>3. CASE g = Full(n) /\ (o % Granule) + 1 <= Rest(n)
  <2>1. Rest(n) \in 0..(Granule - 1) /\ Rest(n) # 0 /\ Full(n) \in Nat /\ Granule \in Nat
    BY <1>3, Offsets, Split, HwasanHeapAssumption
  <2>2. shadow[PlaceOf(s)][g] = Rest(n) /\ lastByte[PlaceOf(s)][g] = s.tag
    BY <1>1, <1>3, <2>1 DEF Written, Tagged, EndGranule
  <2> QED
    BY <1>3, <2>1, <2>2 DEF Matches, TagMatches
<1> QED
  BY <1>1, <1>2, <1>3

(* and on no others. *)
LEMMA OtherBytes ==
  ASSUME TypeOK, NEW s \in Slot, NEW n \in 0..ChunkSize, Written(s, n), s.tag >= Granule,
         NEW o \in Offset, ~(o < TagSize(n))
  PROVE  ~MayMatch(s.tag, PlaceOf(s), o)
<1> DEFINE g == o \div Granule
<1>1. g \in AllGranules /\ o % Granule \in 0..(Granule - 1)
  BY Offsets
<1>2. ~(g < Full(n)) /\ ~(g = Full(n) /\ (o % Granule) + 1 <= Rest(n))
  BY InUse
<1>3. s.tag \in Nat /\ Granule \in Nat /\ Granule >= 2 /\ Rest(n) \in 0..(Granule - 1)
  <2>1. s.tag \in 1..255 /\ Rest(n) \in 0..(Granule - 1)
    BY Slots, Split
  <2> QED
    BY <2>1, HwasanHeapAssumption
<1>4. shadow[PlaceOf(s)][g] = IF g = Full(n) THEN Rest(n) ELSE 0
  BY <1>1, <1>2 DEF Written, Tagged
<1> QED
  BY <1>1, <1>2, <1>3, <1>4 DEF MayMatch, TagMatches

(* A granule shows nothing, the tag of the chunk in use at its place or the  *)
(* length of that chunk's short granule, which never holds data in its last *)
(* byte.                                                                   *)
Shows(x, g, s) ==
  \/ shadow[x][g] = s.tag
  \/ shadow[x][g] \in 1..(Granule - 1) /\ lastByte[x][g] \in {0, s.tag}

LEMMA RowShows ==
  ASSUME TypeOK, NEW s \in Slot, NEW n \in 0..ChunkSize, NEW g \in AllGranules,
         \/ Tagged(shadow[PlaceOf(s)], s.tag, n)
         \/ FullTagged(shadow[PlaceOf(s)], s.tag, n),
         \/ EndGranule(lastByte[PlaceOf(s)], n, s.tag)
         \/ EndGranule(lastByte[PlaceOf(s)], n, 0)
  PROVE  shadow[PlaceOf(s)][g] = 0 \/ Shows(PlaceOf(s), g, s)
<1>1. Rest(n) \in 0..(Granule - 1) /\ Full(n) \in Nat
  BY Split
<1>2. CASE g = Full(n) /\ Rest(n) # 0
  BY <1>1, <1>2 DEF Tagged, FullTagged, EndGranule, Shows
<1>3. CASE ~(g = Full(n) /\ Rest(n) # 0)
  BY <1>1, <1>3 DEF Tagged, FullTagged, Shows
<1> QED
  BY <1>2, <1>3

LEMMA EveryGranule ==
  ASSUME IInv, NEW x \in Place, NEW g \in AllGranules
  PROVE  shadow[x][g] = 0 \/ \E s \in live : PlaceOf(s) = x /\ Shows(x, g, s)
<1>1. CASE \A s \in live : PlaceOf(s) # x
  BY <1>1 DEF IInv, Memory, Blank
<1>2. ASSUME NEW s \in live, PlaceOf(s) = x
      PROVE  shadow[x][g] = 0 \/ Shows(x, g, s)
  <2>1. TypeOK /\ s \in Slot
    BY DEF IInv, TypeOK
  <2>2. ASSUME NEW h \in held, h.slot = s PROVE shadow[x][g] = 0 \/ Shows(x, g, s)
    <3>1. Written(s, h.size) /\ h.size \in 0..ChunkSize
      BY <2>2 DEF IInv, TypeOK, Memory
    <3> QED
      BY <1>2, <2>1, <3>1, RowShows DEF Written
  <2>3. ASSUME NEW t \in Thread, Brings(t), new[t] = s
        PROVE  shadow[x][g] = 0 \/ Shows(x, g, s)
    <3>1. Progress(t) /\ size[t] \in 0..ChunkSize /\ pc[t] \in Label
      BY <2>3 DEF IInv, TypeOK, Memory
    <3>2. CASE pc[t] \in {"fill", "tagFull"}
      BY <1>2, <2>3, <3>1, <3>2 DEF Progress, Blank
    <3>3. CASE pc[t] = "tagShort"
      BY <1>2, <2>1, <2>3, <3>1, <3>3, RowShows DEF Progress
    <3>4. CASE pc[t] = "tagByte"
      BY <1>2, <2>1, <2>3, <3>1, <3>4, RowShows DEF Progress
    <3>5. CASE pc[t] \notin Filling
      BY <1>2, <2>1, <2>3, <3>1, <3>5, RowShows DEF Progress, Written
    <3> QED
      BY <3>2, <3>3, <3>4, <3>5 DEF Filling
  <2>4. ASSUME NEW t \in Thread, Takes(t), old[t] = s
        PROVE  shadow[x][g] = 0 \/ Shows(x, g, s)
    <3>1. Clearing(t)
      BY <2>4 DEF IInv, Memory
    <3>2. CASE pc[t] \in {"unlocked", "deallocate"}
      BY <1>2, <2>4, <3>1, <3>2 DEF Clearing, Blank
    <3>3. CASE pc[t] \notin {"unlocked", "deallocate"}
      <4>1. PICK n \in 0..ChunkSize : Written(s, n)
        BY <2>4, <3>1, <3>3 DEF Clearing
      <4> QED
        BY <1>2, <2>1, <4>1, RowShows DEF Written
    <3> QED
      BY <3>2, <3>3
  <2> QED
    BY <2>2, <2>3, <2>4 DEF IInv, Owners
<1> QED
  BY <1>1, <1>2

(* A pointer matches no chunk but one in use under its own tag. *)
LEMMA NoMatch ==
  ASSUME IInv, NEW s \in Slot, NEW x \in Place, NEW o \in Offset,
         Distinguished(s, x), \A u \in live : PlaceOf(u) = x => u.tag # s.tag
  PROVE  ~MayMatch(s.tag, x, o)
<1> DEFINE g == o \div Granule
<1>1. g \in AllGranules /\ o % Granule \in 0..(Granule - 1)
  BY Offsets
<1>2. s.tag \in 1..255 /\ s.tag >= Granule /\ Granule \in 2..255
  BY Slots, HwasanHeapAssumption DEF Distinguished
<1>3. CASE shadow[x][g] = 0
  BY <1>1, <1>2, <1>3 DEF MayMatch, TagMatches
<1>4. ASSUME NEW u \in live, PlaceOf(u) = x, Shows(x, g, u)
      PROVE  ~MayMatch(s.tag, x, o)
  <2>1. u.tag # s.tag /\ u.tag >= Granule
    BY <1>4 DEF Distinguished
  <2>2. u.tag \in 1..255
    BY Slots DEF IInv, TypeOK
  <2>3. CASE shadow[x][g] = u.tag
    <3>1. shadow[x][g] # s.tag /\ ~(shadow[x][g] < Granule)
      <4>1. u.tag \in Int /\ Granule \in Int /\ ~(u.tag < Granule)
        BY <1>2, <2>1, <2>2
      <4> QED
        BY <2>1, <2>3, <4>1
    <3> QED
      BY <3>1 DEF MayMatch, TagMatches
  <2>4. CASE shadow[x][g] \in 1..(Granule - 1) /\ lastByte[x][g] \in {0, u.tag}
    BY <1>1, <1>2, <2>1, <2>2, <2>4 DEF MayMatch, TagMatches, Data
  <2> QED
    BY <1>4, <2>3, <2>4 DEF Shows
<1> QED
  BY <1>1, <1>3, <1>4, EveryGranule

(* The pointer of a chunk that has been written passes the check of free. *)
LEMMA OwnerPasses ==
  ASSUME TypeOK, NEW s \in Slot, NEW n \in 0..ChunkSize, Written(s, n)
  PROVE  Matches(s.tag, PlaceOf(s), 0)
<1>1. 0 \in Offset /\ 0 < TagSize(n)
  BY ChunkSizeType, Split DEF Offset
<1> QED
  BY <1>1, OwnBytes

(* A dangling pointer does not. *)
LEMMA DanglingFails ==
  ASSUME IInv, NEW s \in stale, s \notin live
  PROVE  ~MayMatch(s.tag, PlaceOf(s), 0) /\ s \in Slot
<1>1. s \in Slot /\ live \subseteq Slot /\ StaleFrees /\ PlaceOf(s) \in Place /\ 0 \in Offset
  BY ChunkSizeType, Slots, HwasanHeapAssumption DEF IInv, TypeOK, Offset
<1>2. \A u \in Slot : u.tag \in 1..255 /\ u.tag >= Granule
  <2> SUFFICES ASSUME NEW u \in Slot PROVE u.tag \in 1..255 /\ u.tag >= Granule
    OBVIOUS
  <2>1. u.tag \in Tag /\ u.tag \in 1..255
    BY Slots DEF Slot
  <2>2. Granule \in 2..255 /\ Tag \cap 1..(Granule - 1) = {}
    BY <1>1, HwasanHeapAssumption
  <2> QED
    BY <2>1, <2>2
<1>3. Distinguished(s, PlaceOf(s))
  BY <1>1, <1>2 DEF Distinguished
<1>4. ASSUME NEW u \in live, PlaceOf(u) = PlaceOf(s), u.tag = s.tag PROVE FALSE
  BY <1>1, <1>4, Slots DEF Slot
<1> QED
  BY <1>1, <1>3, <1>4, NoMatch

------------------------------------------------------------------------------
(* What a step of one thread leaves alone *)

Others(t) ==
  \A u \in Thread \ {t} :
    pc'[u] = pc[u] /\ size'[u] = size[u] /\ old'[u] = old[u] /\ new'[u] = new[u]

Same(x) == shadow'[x] = shadow[x] /\ lastByte'[x] = lastByte[x]

LEMMA Elsewhere ==
  ASSUME IInv, NEW s \in live, NEW u \in live, s # u
  PROVE  PlaceOf(s) # PlaceOf(u)
BY Slots DEF IInv, TypeOK, HeapOK

(* If nobody else's chunk is written, the others stand where they stood. *)
LEMMA MemoryKept ==
  ASSUME IInv, NEW t \in Thread, Others(t),
         \A x \in Place : (\A s \in live' : PlaceOf(s) # x) => Blank(shadow'[x]),
         \A h \in held' : \/ h \in held /\ Same(PlaceOf(h.slot))
                          \/ Written(h.slot, h.size)',
         \A u \in Thread \ {t} : /\ Brings(u) => Same(PlaceOf(new[u]))
                                 /\ Takes(u) => Same(PlaceOf(old[u])),
         Brings(t)' => Progress(t)',
         Takes(t)' => Clearing(t)'
  PROVE  Memory'
<1>1. ASSUME NEW h \in held' PROVE Written(h.slot, h.size)'
  BY DEF IInv, Memory, Same, Written
<1>2. ASSUME NEW u \in Thread, Brings(u)' PROVE Progress(u)'
  <2>1. CASE u = t
    BY <1>2, <2>1
  <2>2. CASE u # t
    <3>1. new'[u] = new[u] /\ pc'[u] = pc[u] /\ size'[u] = size[u] /\ Brings(u)
      BY <1>2, <2>2 DEF Others, Brings
    <3>2. Same(PlaceOf(new[u])) /\ Progress(u)
      BY <2>2, <3>1 DEF IInv, Memory
    <3> QED
      BY <3>1, <3>2 DEF Progress, Same, Written
  <2> QED
    BY <2>1, <2>2
<1>3. ASSUME NEW u \in Thread, Takes(u)' PROVE Clearing(u)'
  <2>1. CASE u = t
    BY <1>3, <2>1
  <2>2. CASE u # t
    <3>1. old'[u] = old[u] /\ pc'[u] = pc[u] /\ Takes(u)
      BY <1>3, <2>2 DEF Others, Takes
    <3>2. Same(PlaceOf(old[u])) /\ Clearing(u)
      BY <2>2, <3>1 DEF IInv, Memory
    <3> QED
      BY <3>1, <3>2 DEF Clearing, Same, Written
  <2> QED
    BY <2>1, <2>2
<1> QED
  BY <1>1, <1>2, <1>3 DEF Memory

(* A step that writes no memory. *)
LEMMA NoWrite ==
  ASSUME IInv, NEW t \in Thread, Others(t), UNCHANGED memory, live' = live,
         \A h \in held' : h \in held \/ Written(h.slot, h.size),
         Brings(t)' => Progress(t)',
         Takes(t)' => Clearing(t)'
  PROVE  Memory'
<1>1. \A x \in Place : (\A s \in live' : PlaceOf(s) # x) => Blank(shadow'[x])
  BY DEF memory, IInv, Memory
<1>2. \A x : Same(x)
  BY DEF memory, Same
<1>3. \A h \in held' : h \in held \/ Written(h.slot, h.size)'
  BY DEF memory, Written
<1> QED
  BY <1>1, <1>2, <1>3, MemoryKept

(* A step that writes the memory of a chunk the thread owns. *)
LEMMA WritesOwn ==
  ASSUME IInv, NEW t \in Thread, Others(t), NEW s \in live,
         (Brings(t) /\ s = new[t]) \/ (Takes(t) /\ s = old[t]),
         \A x \in Place \ {PlaceOf(s)} : Same(x),
         live' = live, held' = held,
         Brings(t)' => Progress(t)',
         Takes(t)' => Clearing(t)'
  PROVE  Memory'
<1>1. \A u \in live : PlaceOf(u) \in Place
  BY Slots DEF IInv, TypeOK
<1>2. \A u \in live \ {s} : Same(PlaceOf(u))
  BY <1>1, Elsewhere
<1>3. ASSUME NEW h \in held PROVE Same(PlaceOf(h.slot))
  BY <1>2 DEF IInv, Owners
<1>4. ASSUME NEW u \in Thread \ {t}
      PROVE  (Brings(u) => Same(PlaceOf(new[u]))) /\ (Takes(u) => Same(PlaceOf(old[u])))
  BY <1>2 DEF IInv, Owners
<1>5. ASSUME NEW x \in Place, \A u \in live' : PlaceOf(u) # x PROVE Blank(shadow'[x])
  BY <1>5 DEF IInv, Memory, Same
<1> QED
  BY <1>3, <1>4, <1>5, MemoryKept

(* A malloc that writes the shadow of its chunk leaves the chunk alone that  *)
(* it will free, if it is a realloc's.                                     *)
LEMMA WritesNew ==
  ASSUME IInv, NEW t \in Thread, Others(t), pc[t] \in Filling,
         pc'[t] \in Filling \cup {"return"},
         new'[t] = new[t], old'[t] = old[t],
         \A x \in Place \ {PlaceOf(new[t])} : Same(x),
         live' = live, held' = held,
         Progress(t)'
  PROVE  Memory'
<1>1. Brings(t) /\ new[t] \in live
  BY DEF IInv, Standing, Brings, Owners
<1>2. ASSUME Takes(t)' PROVE Clearing(t)'
  <2>1. Takes(t) /\ old[t] \in live /\ old[t] # new[t]
    BY <1>1, <1>2 DEF Takes, Filling, IInv, Owners
  <2>2. Same(PlaceOf(old[t]))
    BY <1>1, <2>1, Elsewhere, Slots DEF IInv, TypeOK
  <2>3. PICK n \in 0..ChunkSize : Written(old[t], n)
    BY <2>1 DEF IInv, Memory, Clearing, Filling
  <2>4. Written(old[t], n)'
    BY <2>2, <2>3 DEF Written, Same
  <2> QED
    BY <2>4 DEF Clearing, Filling
<1> QED
  BY <1>1, <1>2, WritesOwn

(* Owners depends on what the threads bring and take, not on where they are. *)
LEMMA OwnersKept ==
  ASSUME IInv, live' = live, held' = held,
         \A u \in Thread : new'[u] = new[u],
         \A u \in Thread : Takes(u)' <=> Takes(u),
         \A u \in Thread : Takes(u) => old'[u] = old[u]
  PROVE  Owners'
<1>1. \A u \in Thread : Brings(u)' <=> Brings(u)
  BY DEF Brings
<1> QED
  BY <1>1 DEF IInv, Owners

LEMMA StandingKept ==
  ASSUME IInv, NEW t \in Thread, Others(t), Standing(t)'
  PROVE  \A u \in Thread : Standing(u)'
BY DEF IInv, Others, Standing

------------------------------------------------------------------------------
LEMMA InitIInv == Init => IInv
<1> SUFFICES ASSUME Init PROVE IInv
  OBVIOUS
<1> USE DEF Init
<1>1. TypeOK
  <2>1. 0 \in 0..255 /\ 0 \in 0..256 /\ 0 \in 0..ChunkSize
    BY ChunkSizeType
  <2>2. shadow \in [Place -> [AllGranules -> 0..255]]
    BY <2>1 DEF AllGranules
  <2>3. lastByte \in [Place -> [AllGranules -> 0..256]]
    BY <2>1 DEF AllGranules
  <2>4. pc \in [Thread -> Label] /\ size \in [Thread -> 0..ChunkSize]
    BY <2>1 DEF Label
  <2>5. old \in [Thread -> Slot \cup {NoSlot}] /\ new \in [Thread -> Slot \cup {NoSlot}]
    OBVIOUS
  <2> QED
    BY <2>2, <2>3, <2>4, <2>5 DEF TypeOK, Heap!Init
<1>2. HeapOK
  BY DEF HeapOK, Heap!Init
<1>3. ASSUME NEW t \in Thread PROVE Standing(t)
  BY DEF Standing, Filling, Freeing
<1>4. Owners
  BY DEF Owners, Heap!Init, Brings, Takes
<1>5. Memory
  BY DEF Memory, Brings, Takes, Blank, AllGranules
<1> QED
  BY <1>1, <1>2, <1>3, <1>4, <1>5 DEF IInv

(* The comparison lets an owner through. *)
LEMMA CheckOwner ==
  ASSUME TypeOK, NEW t \in Thread, NEW s \in Slot, NEW n \in 0..ChunkSize, Written(s, n),
         NEW to, Check(t, s, to)
  PROVE  pc' = [pc EXCEPT ![t] = to]
BY OwnerPasses DEF Check

LEMMA CallMallocInv ==
  ASSUME IInv, NEW t \in Thread, NEW n \in Sizes, CallMalloc(t, n)
  PROVE  IInv'
<1> USE DEF CallMalloc, heap
<1>1. n \in 0..ChunkSize
  BY HwasanHeapAssumption DEF ChunkSize
<1>2. TypeOK'
  BY <1>1 DEF IInv, TypeOK, Label, memory
<1>3. HeapOK'
  BY DEF IInv, HeapOK
<1>4. Others(t) /\ pc[t] = "idle" /\ pc'[t] = "wait" /\ old[t] = NoSlot /\ new[t] = NoSlot
  BY DEF IInv, TypeOK, Standing, Others
<1>5. \A u \in Thread : Standing(u)'
  BY <1>4, StandingKept DEF Standing, Filling, Freeing
<1>6. Owners'
  <2>1. \A u \in Thread : Takes(u)' <=> Takes(u)
    BY <1>4 DEF Takes, Others
  <2> QED
    BY <2>1, OwnersKept
<1>7. Memory'
  BY <1>4, NoWrite DEF Brings, Takes
<1> QED
  BY <1>2, <1>3, <1>5, <1>6, <1>7 DEF IInv

LEMMA CallReallocInv ==
  ASSUME IInv, NEW t \in Thread, NEW h \in held, NEW n \in Sizes, CallRealloc(t, h, n)
  PROVE  IInv' /\ pc'[t] = "wait"
<1> USE DEF CallRealloc, heap
<1>1. n \in 0..ChunkSize
  BY HwasanHeapAssumption DEF ChunkSize
<1>2. h.slot \in Slot /\ h.size \in 0..ChunkSize /\ Written(h.slot, h.size) /\ TypeOK
  BY DEF IInv, TypeOK, Memory
<1>3. pc' = [pc EXCEPT ![t] = "wait"]
  BY <1>2, CheckOwner
<1>4. TypeOK'
  BY <1>1, <1>2, <1>3, HwasanHeapAssumption DEF TypeOK, Label, memory, GiveUp
<1>5. HeapOK'
  BY DEF IInv, HeapOK
<1>6. /\ Others(t) /\ pc[t] = "idle" /\ pc'[t] = "wait"
      /\ old[t] = NoSlot /\ new[t] = NoSlot /\ old'[t] = h.slot /\ h.slot # NoSlot
  BY <1>2, <1>3, Slots DEF IInv, TypeOK, Standing, Others
<1>7. \A u \in Thread : Standing(u)'
  BY <1>6, StandingKept DEF Standing, Filling, Freeing
<1>8. Owners'
  <2>1. \A u \in Thread \ {t} : (Takes(u)' <=> Takes(u)) /\ old'[u] = old[u]
    BY <1>6 DEF Takes, Others
  <2>2. Takes(t)' /\ ~Takes(t)
    BY <1>6 DEF Takes
  <2>3. \A u \in Thread : (Brings(u)' <=> Brings(u)) /\ new'[u] = new[u]
    BY DEF Brings
  <2> QED
    BY <1>6, <2>1, <2>2, <2>3 DEF IInv, Owners, GiveUp
<1>9. Memory'
  <2>1. Clearing(t)'
    BY <1>2, <1>6 DEF Clearing, Written, memory
  <2> QED
    BY <1>6, <2>1, NoWrite DEF Brings, GiveUp
<1> QED
  BY <1>4, <1>5, <1>6, <1>7, <1>8, <1>9 DEF IInv

LEMMA CallFreeInv ==
  ASSUME IInv, NEW t \in Thread, NEW h \in held, CallFree(t, h)
  PROVE  IInv' /\ pc'[t] = "clear"
<1> USE DEF CallFree, heap
<1>1. h.slot \in Slot /\ h.size \in 0..ChunkSize /\ Written(h.slot, h.size) /\ TypeOK
  BY DEF IInv, TypeOK, Memory
<1>2. pc' = [pc EXCEPT ![t] = "clear"]
  BY <1>1, CheckOwner
<1>3. TypeOK'
  BY <1>1, <1>2, HwasanHeapAssumption DEF TypeOK, Label, Freeing, memory, GiveUp
<1>4. HeapOK'
  BY DEF IInv, HeapOK
<1>5. /\ Others(t) /\ pc[t] = "idle" /\ pc'[t] = "clear"
      /\ old[t] = NoSlot /\ new[t] = NoSlot /\ old'[t] = h.slot /\ h.slot # NoSlot
  BY <1>1, <1>2, Slots DEF IInv, TypeOK, Standing, Others
<1>6. \A u \in Thread : Standing(u)'
  BY <1>5, StandingKept DEF Standing, Filling, Freeing
<1>7. Owners'
  <2>1. \A u \in Thread \ {t} : (Takes(u)' <=> Takes(u)) /\ old'[u] = old[u]
    BY <1>5 DEF Takes, Others
  <2>2. Takes(t)' /\ ~Takes(t)
    BY <1>5 DEF Takes
  <2>3. \A u \in Thread : (Brings(u)' <=> Brings(u)) /\ new'[u] = new[u]
    BY DEF Brings
  <2> QED
    BY <1>5, <2>1, <2>2, <2>3 DEF IInv, Owners, GiveUp
<1>8. Memory'
  <2>1. Clearing(t)'
    BY <1>1, <1>5 DEF Clearing, Written, memory
  <2> QED
    BY <1>5, <2>1, NoWrite DEF Brings, GiveUp
<1> QED
  BY <1>3, <1>4, <1>5, <1>6, <1>7, <1>8 DEF IInv

LEMMA CallFreeStaleInv ==
  ASSUME IInv, NEW t \in Thread, NEW s \in stale, CallFreeStale(t, s)
  PROVE  IInv' /\ pc'[t] = "report" /\ old'[t] \notin live
<1> USE DEF CallFreeStale, heap
<1>1. s \notin live /\ s \in Slot /\ s # NoSlot
  BY DanglingFails, Slots
<1>2. pc' = [pc EXCEPT ![t] = "report"]
  BY <1>1, DanglingFails DEF Check
<1>3. TypeOK'
  BY <1>1, <1>2 DEF IInv, TypeOK, Label, memory
<1>4. HeapOK'
  BY DEF IInv, HeapOK
<1>5. /\ Others(t) /\ pc[t] = "idle" /\ pc'[t] = "report"
      /\ old[t] = NoSlot /\ new[t] = NoSlot /\ old'[t] = s
  BY <1>1, <1>2 DEF IInv, TypeOK, Standing, Others
<1>6. \A u \in Thread : Standing(u)'
  BY <1>1, <1>5, StandingKept DEF Standing, Filling, Freeing
<1>7. Owners'
  <2>1. \A u \in Thread : (Takes(u)' <=> Takes(u)) /\ (Takes(u) => old'[u] = old[u])
    BY <1>5 DEF Takes, Others
  <2> QED
    BY <2>1, OwnersKept
<1>8. Memory'
  BY <1>5, NoWrite DEF Brings, Takes
<1> QED
  BY <1>1, <1>3, <1>4, <1>5, <1>6, <1>7, <1>8 DEF IInv

(* A thread takes or waits for the mutex, or copies. *)
LEMMA MovesOnInv ==
  ASSUME IInv, NEW t \in Thread, LockAllocate(t) \/ LockDeallocate(t) \/ Copy(t)
  PROVE  IInv' /\ pc'[t] # "report"
<1> USE DEF LockAllocate, LockDeallocate, Copy, Acquire, heap
<1>1. /\ Others(t) /\ old' = old /\ new' = new
      /\ \/ pc[t] = "wait" /\ pc'[t] = "allocate"
         \/ pc[t] = "unlocked" /\ pc'[t] = "deallocate"
         \/ pc[t] = "copy" /\ pc'[t] = "check"
  BY DEF IInv, TypeOK, Others
<1>2. TypeOK'
  BY <1>1 DEF IInv, TypeOK, Label, Freeing, memory
<1>3. HeapOK'
  BY DEF IInv, HeapOK
<1>4. \A u \in Thread : Standing(u)'
  <2>1. Standing(t)
    BY DEF IInv
  <2> QED
    BY <1>1, <2>1, StandingKept DEF Standing, Filling, Freeing
<1>5. Owners'
  <2>1. \A u \in Thread : (Takes(u)' <=> Takes(u)) /\ (Takes(u) => old'[u] = old[u])
    BY <1>1 DEF Takes, Others
  <2> QED
    BY <2>1, OwnersKept
<1>6. Memory'
  <2>1. Brings(t) => Progress(t)
    BY DEF IInv, Memory
  <2>2. Takes(t) => Clearing(t)
    BY DEF IInv, Memory
  <2>3. Brings(t)' => Progress(t)'
    <3>1. pc[t] # "wait" /\ pc[t] # "unlocked" => pc[t] = "copy" /\ pc'[t] = "check"
      BY <1>1
    <3>2. pc[t] = "wait" => ~Brings(t)'
      BY <1>1 DEF IInv, Standing, Brings
    <3> QED
      BY <1>1, <2>1, <3>1, <3>2 DEF Progress, Written, Filling, memory, Brings
  <2>4. Takes(t)' => Clearing(t)'
    BY <1>1, <2>2 DEF Takes, Clearing, Written, memory
  <2> QED
    BY <1>1, <2>3, <2>4, NoWrite
<1> QED
  BY <1>1, <1>2, <1>3, <1>4, <1>5, <1>6 DEF IInv

LEMMA CheckOldInv ==
  ASSUME IInv, NEW t \in Thread, CheckOld(t)
  PROVE  IInv' /\ pc'[t] = "clear"
<1> USE DEF CheckOld, heap
<1>1. pc[t] = "check" /\ old[t] \in Slot /\ TypeOK /\ Takes(t)
  BY DEF IInv, TypeOK, Standing, Takes, Freeing
<1>2. PICK n \in 0..ChunkSize : Written(old[t], n)
  BY <1>1 DEF IInv, Memory, Clearing
<1>3. pc' = [pc EXCEPT ![t] = "clear"]
  BY <1>1, <1>2, CheckOwner
<1>4. Others(t) /\ pc'[t] = "clear"
  BY <1>1, <1>3 DEF TypeOK, Others
<1>5. TypeOK'
  BY <1>3 DEF IInv, TypeOK, Label, Freeing, memory
<1>6. HeapOK'
  BY DEF IInv, HeapOK
<1>7. \A u \in Thread : Standing(u)'
  BY <1>1, <1>4, StandingKept DEF IInv, Standing, Filling, Freeing
<1>8. Owners'
  <2>1. \A u \in Thread : (Takes(u)' <=> Takes(u)) /\ (Takes(u) => old'[u] = old[u])
    BY <1>1, <1>4 DEF Takes, Others
  <2> QED
    BY <2>1, OwnersKept
<1>9. Memory'
  <2>1. Brings(t) => Progress(t)
    BY DEF IInv, Memory
  <2>2. Brings(t)' => Progress(t)'
    BY <1>1, <1>4, <2>1 DEF Progress, Written, Filling, memory, Brings
  <2>3. Clearing(t)'
    BY <1>2, <1>4 DEF Clearing, Written, memory
  <2> QED
    BY <1>4, <2>2, <2>3, NoWrite
<1> QED
  BY <1>4, <1>5, <1>6, <1>7, <1>8, <1>9 DEF IInv

LEMMA ReportInv ==
  ASSUME IInv, NEW t \in Thread, Report(t)
  PROVE  IInv' /\ pc'[t] = pc[t]
<1> USE DEF Report, heap
<1>1. TypeOK' /\ HeapOK' /\ \A u \in Thread : Standing(u)'
  BY DEF IInv, TypeOK, HeapOK, Standing, memory
<1>2. Owners'
  <2>1. \A u \in Thread : Takes(u)' <=> Takes(u)
    BY DEF Takes
  <2> QED
    BY <2>1, OwnersKept
<1>3. Memory'
  <2>1. Brings(t)' => Progress(t)'
    BY DEF IInv, Memory, Brings, Progress, Written, memory
  <2>2. Takes(t)' => Clearing(t)'
    BY DEF IInv, Memory, Takes, Clearing, Written, memory
  <2> QED
    BY <2>1, <2>2, NoWrite DEF Others
<1> QED
  BY <1>1, <1>2, <1>3 DEF IInv

(* A region more or less: no chunk of it is in use. *)
LEMMA GrowInv ==
  ASSUME IInv, NEW t \in Thread, Grow(t)
  PROVE  IInv' /\ pc' = pc
<1> USE DEF Grow, Heap!Map
<1>1. TypeOK' /\ HeapOK' /\ \A u \in Thread : Standing(u)'
  BY DEF IInv, TypeOK, HeapOK, Standing, memory
<1>2. Owners'
  <2>1. \A u \in Thread : Takes(u)' <=> Takes(u)
    BY DEF Takes
  <2> QED
    BY <2>1, OwnersKept
<1>3. Memory'
  <2>1. Brings(t)' => Progress(t)'
    BY DEF IInv, Memory, Brings, Progress, Written, memory
  <2>2. Takes(t)' => Clearing(t)'
    BY DEF IInv, Memory, Takes, Clearing, Written, memory
  <2> QED
    BY <2>1, <2>2, NoWrite DEF Others
<1> QED
  BY <1>1, <1>2, <1>3 DEF IInv

LEMMA ShrinkInv ==
  ASSUME IInv, NEW t \in Thread, Shrink(t)
  PROVE  IInv' /\ pc' = pc
<1> DEFINE zeroed(f, r) == [x \in Place |-> IF x[1] = r THEN [g \in DOMAIN f[x] |-> 0]
                                                        ELSE f[x]]
<1>1. PICK r \in Region :
        /\ Heap!Unmap(r)
        /\ lastByte' = zeroed(lastByte, r)
        /\ shadow' = shadow \/ shadow' = zeroed(shadow, r)
  BY DEF Shrink
<1>2. UNCHANGED <<mutex, pc, size, old, new, held, stale, exited>>
  BY DEF Shrink
<1>3. live' = live /\ mapped' = mapped \ {r} /\ \A s \in live : s.region # r
  BY <1>1 DEF Heap!Unmap
<1>4. ASSUME NEW x \in Place
      PROVE  /\ shadow'[x] = shadow[x]
                \/ (x[1] = r /\ shadow'[x] = [g \in AllGranules |-> 0])
             /\ lastByte'[x] = IF x[1] = r THEN [g \in AllGranules |-> 0] ELSE lastByte[x]
  <2>1. DOMAIN shadow[x] = AllGranules /\ DOMAIN lastByte[x] = AllGranules
    BY DEF IInv, TypeOK
  <2> QED
    BY <1>1, <2>1
<1>5. TypeOK'
  <2>1. [g \in AllGranules |-> 0] \in [AllGranules -> 0..255]
    OBVIOUS
  <2>2. [g \in AllGranules |-> 0] \in [AllGranules -> 0..256]
    OBVIOUS
  <2>3. \A x \in Place : shadow[x] \in [AllGranules -> 0..255] /\ lastByte[x] \in [AllGranules -> 0..256]
    BY DEF IInv, TypeOK
  <2>4. shadow' = [x \in Place |-> shadow'[x]] /\ lastByte' = [x \in Place |-> lastByte'[x]]
    <3>1. shadow = [x \in Place |-> shadow[x]]
      BY DEF IInv, TypeOK
    <3> QED
      BY <1>1, <3>1
  <2>5. \A x \in Place : /\ shadow'[x] \in [AllGranules -> 0..255]
                         /\ lastByte'[x] \in [AllGranules -> 0..256]
    BY <1>4, <2>1, <2>2, <2>3
  <2>6. /\ shadow' \in [Place -> [AllGranules -> 0..255]]
        /\ lastByte' \in [Place -> [AllGranules -> 0..256]]
    BY <2>4, <2>5
  <2> QED
    BY <1>2, <1>3, <2>6 DEF IInv, TypeOK
<1>6. HeapOK' /\ \A u \in Thread : Standing(u)'
  BY <1>2, <1>3 DEF IInv, HeapOK, Standing
<1>7. Owners'
  <2>1. \A u \in Thread : Takes(u)' <=> Takes(u)
    BY <1>2 DEF Takes
  <2> QED
    BY <1>2, <1>3, <2>1, OwnersKept
<1>8. ASSUME NEW s \in live PROVE Same(PlaceOf(s))
  BY <1>3, <1>4, Slots DEF IInv, TypeOK, Same
<1>9. Memory'
  <2>1. \A x \in Place : (\A s \in live' : PlaceOf(s) # x) => Blank(shadow'[x])
    BY <1>3, <1>4 DEF IInv, Memory, Blank
  <2>2. \A h \in held' : h \in held /\ Same(PlaceOf(h.slot))
    BY <1>2, <1>8 DEF IInv, Owners
  <2>3. \A u \in Thread : /\ Brings(u) => Same(PlaceOf(new[u]))
                          /\ Takes(u) => Same(PlaceOf(old[u]))
    BY <1>8 DEF IInv, Owners
  <2>4. Brings(t)' => Progress(t)'
    BY <1>2, <2>3 DEF IInv, Memory, Brings, Progress, Written, Same
  <2>5. Takes(t)' => Clearing(t)'
    BY <1>2, <2>3 DEF IInv, Memory, Takes, Clearing, Written, Same
  <2> QED
    BY <1>2, <2>1, <2>2, <2>3, <2>4, <2>5, MemoryKept DEF Others
<1> QED
  BY <1>2, <1>5, <1>6, <1>7, <1>9 DEF IInv

LEMMA TakeChunkInv ==
  ASSUME IInv, NEW t \in Thread, TakeChunk(t)
  PROVE  IInv' /\ pc'[t] = "fill"
<1>1. PICK s \in Slot : Heap!Malloc(s) /\ new' = [new EXCEPT ![t] = s]
  BY DEF TakeChunk
<1>2. /\ pc[t] = "allocate" /\ pc' = [pc EXCEPT ![t] = "fill"]
      /\ UNCHANGED <<memory, mutex, size, old, held, stale, exited>>
  BY DEF TakeChunk
<1>3. /\ s.region \in mapped /\ mapped' = mapped /\ live' = live \cup {s}
      /\ \A u \in live : u.region = s.region => u.chunk # s.chunk /\ u.tag # s.tag
  BY <1>1 DEF Heap!Malloc
<1>4. TypeOK'
  BY <1>1, <1>2, <1>3 DEF IInv, TypeOK, Label, Filling, memory
<1>5. HeapOK'
  BY <1>3 DEF IInv, HeapOK
<1>6. /\ Others(t) /\ pc'[t] = "fill" /\ new[t] = NoSlot /\ new'[t] = s
      /\ s # NoSlot /\ s \notin live
  BY <1>1, <1>2, <1>3, Slots DEF IInv, TypeOK, Standing, Others
<1>7. \A u \in Thread : Standing(u)'
  BY <1>6, StandingKept DEF Standing, Filling, Freeing
<1>8. Owners'
  <2>1. \A u \in Thread : (Takes(u)' <=> Takes(u)) /\ old'[u] = old[u]
    BY <1>2, <1>6 DEF Takes, Others
  <2>2. \A u \in Thread \ {t} : (Brings(u)' <=> Brings(u)) /\ new'[u] = new[u]
    BY <1>6 DEF Brings, Others
  <2>3. Brings(t)' /\ ~Brings(t)
    BY <1>6 DEF Brings
  <2> QED
    BY <1>2, <1>3, <1>6, <2>1, <2>2, <2>3 DEF IInv, Owners
<1>9. Memory'
  <2>1. \A x : Same(x)
    BY <1>2 DEF Same, memory
  <2>2. \A x \in Place : (\A u \in live' : PlaceOf(u) # x) => Blank(shadow'[x])
    BY <1>3, <2>1 DEF IInv, Memory, Same
  <2>3. Progress(t)'
    <3>1. \A u \in live : PlaceOf(u) # PlaceOf(s)
      BY <1>3, Slots DEF IInv, TypeOK
    <3>2. Blank(shadow[PlaceOf(s)])
      BY <3>1, Slots DEF IInv, Memory
    <3> QED
      BY <1>6, <2>1, <3>2 DEF Progress, Filling, Same
  <2>4. Takes(t)' => Clearing(t)'
    BY <1>2, <1>6, <2>1 DEF IInv, Memory, Takes, Clearing, Written, Same
  <2> QED
    BY <1>2, <1>6, <2>1, <2>2, <2>3, <2>4, MemoryKept
<1> QED
  BY <1>4, <1>5, <1>6, <1>7, <1>8, <1>9 DEF IInv

(* A step of malloc that writes its own chunk, and what it must do.         *)
LEMMA FillingInv ==
  ASSUME IInv, NEW t \in Thread, pc[t] \in Filling,
         NEW to \in {"tagFull", "tagShort", "tagByte", "return"},
         pc' = [pc EXCEPT ![t] = to],
         UNCHANGED <<heap, mutex, size, old, new, held, stale, exited>>,
         TypeOK',
         \A x \in Place \ {PlaceOf(new[t])} : Same(x),
         Progress(t)'
  PROVE  IInv' /\ pc'[t] # "report"
<1>1. HeapOK'
  BY DEF IInv, HeapOK, heap
<1>2. Others(t) /\ pc'[t] = to
  BY DEF IInv, TypeOK, Others
<1>3. \A u \in Thread : Standing(u)'
  BY <1>2, StandingKept DEF IInv, Standing, Filling, Freeing
<1>4. Owners'
  <2>1. \A u \in Thread : (Takes(u)' <=> Takes(u)) /\ (Takes(u) => old'[u] = old[u])
    BY <1>2 DEF Takes, Others, Filling
  <2> QED
    BY <2>1, OwnersKept DEF heap
<1>5. Memory'
  BY <1>2, WritesNew DEF Filling, heap
<1> QED
  BY <1>1, <1>2, <1>3, <1>4, <1>5 DEF IInv

(* Where a malloc stands that writes. *)
LEMMA Writing ==
  ASSUME IInv, NEW t \in Thread, pc[t] \in Filling
  PROVE  /\ TypeOK /\ new[t] \in Slot /\ PlaceOf(new[t]) \in Place
         /\ size[t] \in 0..ChunkSize /\ Progress(t)
         /\ new[t].tag \in 1..255
         /\ Rest(size[t]) # 0 => Full(size[t]) \in AllGranules
         /\ Rest(size[t]) \in 0..255 /\ Full(size[t]) \in Nat
<1>1. TypeOK /\ new[t] \in Slot /\ size[t] \in 0..ChunkSize /\ Progress(t)
  BY DEF IInv, TypeOK, Standing, Memory, Brings
<1>2. Rest(size[t]) \in 0..(Granule - 1) /\ Full(size[t]) \in Nat
  BY <1>1, Split
<1>3. Rest(size[t]) \in 0..255
  BY <1>2, HwasanHeapAssumption
<1> QED
  BY <1>1, <1>2, <1>3, Slots, Split

LEMMA FillTailInv ==
  ASSUME IInv, NEW t \in Thread, FillTail(t)
  PROVE  IInv' /\ pc'[t] # "report"
<1> DEFINE n == size[t]
           x == PlaceOf(new[t])
<1>1. pc[t] = "fill" /\ pc[t] \in Filling
  BY DEF FillTail, Filling
<1>2. /\ pc' = [pc EXCEPT ![t] = "tagFull"]
      /\ UNCHANGED <<heap, shadow, mutex, size, old, new, held, stale, exited>>
  BY DEF FillTail
<1>3. lastByte' = IF Rest(n) = 0 THEN lastByte
                  ELSE [lastByte EXCEPT ![x][Full(n)] = 0]
  BY <1>1, Writing, Split DEF FillTail
<1>4. TypeOK'
  <2>1. lastByte' \in [Place -> [AllGranules -> 0..256]]
    BY <1>1, <1>3, Writing DEF TypeOK
  <2> QED
    BY <1>1, <1>2, <2>1, Writing DEF TypeOK, Label, Filling, heap
<1>5. \A y \in Place \ {x} : Same(y)
  BY <1>1, <1>2, <1>3, Writing DEF TypeOK, Same
<1>6. Progress(t)'
  <2>1. pc'[t] = "tagFull" /\ new'[t] = new[t] /\ size'[t] = n /\ shadow' = shadow
    BY <1>1, <1>2, Writing DEF TypeOK
  <2>2. Blank(shadow[x])
    BY <1>1, Writing DEF Progress
  <2>3. EndGranule(lastByte'[x], n, 0)
    BY <1>1, <1>3, Writing DEF TypeOK, EndGranule
  <2> QED
    BY <2>1, <2>2, <2>3 DEF Progress, Filling
<1> QED
  BY <1>1, <1>2, <1>4, <1>5, <1>6, FillingInv

LEMMA TagFullInv ==
  ASSUME IInv, NEW t \in Thread, TagFull(t)
  PROVE  IInv' /\ pc'[t] # "report"
<1> DEFINE n == size[t]
           x == PlaceOf(new[t])
           full == 0..(Full(n) - 1)
<1>1. pc[t] = "tagFull" /\ pc[t] \in Filling
  BY DEF TagFull, Filling
<1>2. /\ pc' = [pc EXCEPT ![t] = "tagShort"]
      /\ UNCHANGED <<heap, mutex, size, old, new, held, stale, exited>>
  BY DEF TagFull
<1>3. DOMAIN shadow[x] = AllGranules /\ DOMAIN lastByte[x] = AllGranules
  BY <1>1, Writing DEF TypeOK
<1>4. /\ shadow' = [shadow EXCEPT ![x] =
                      [g \in AllGranules |-> IF g \in full THEN new[t].tag ELSE shadow[x][g]]]
      /\ lastByte' = [lastByte EXCEPT ![x] =
                        [g \in AllGranules |-> IF g \in full THEN Data ELSE lastByte[x][g]]]
  BY <1>1, <1>3, Writing DEF TagFull, Full, TypeOK
<1>5. /\ shadow'[x] = [g \in AllGranules |-> IF g \in full THEN new[t].tag ELSE shadow[x][g]]
      /\ lastByte'[x] = [g \in AllGranules |-> IF g \in full THEN Data ELSE lastByte[x][g]]
  BY <1>1, <1>4, Writing DEF TypeOK
<1>6. TypeOK'
  <2>1. \A g \in AllGranules : shadow[x][g] \in 0..255 /\ lastByte[x][g] \in 0..256
    BY <1>1, Writing, Rows
  <2>2. new[t].tag \in 0..255 /\ Data \in 0..256
    BY <1>1, Writing DEF Data
  <2>3. shadow'[x] \in [AllGranules -> 0..255] /\ lastByte'[x] \in [AllGranules -> 0..256]
    <3>1. ASSUME NEW f, NEW S, NEW P, NEW v \in S, \A g \in AllGranules : f[g] \in S
          PROVE  [g \in AllGranules |-> IF g \in P THEN v ELSE f[g]] \in [AllGranules -> S]
      BY <3>1
    <3> HIDE DEF full, x
    <3>2. [g \in AllGranules |-> IF g \in full THEN new[t].tag ELSE shadow[x][g]]
            \in [AllGranules -> 0..255]
      BY <3>1, <2>1, <2>2
    <3>3. [g \in AllGranules |-> IF g \in full THEN Data ELSE lastByte[x][g]]
            \in [AllGranules -> 0..256]
      BY <3>1, <2>1, <2>2
    <3> QED
      BY <1>5, <3>2, <3>3
  <2>4. /\ shadow' \in [Place -> [AllGranules -> 0..255]]
        /\ lastByte' \in [Place -> [AllGranules -> 0..256]]
    <3> DEFINE tags == [g \in AllGranules |-> IF g \in full THEN new[t].tag ELSE shadow[x][g]]
               data == [g \in AllGranules |-> IF g \in full THEN Data ELSE lastByte[x][g]]
    <3>1. ASSUME NEW f, NEW S, f \in [Place -> S], NEW v \in S, NEW y
          PROVE  [f EXCEPT ![y] = v] \in [Place -> S]
      BY <3>1
    <3>2. /\ shadow \in [Place -> [AllGranules -> 0..255]]
          /\ lastByte \in [Place -> [AllGranules -> 0..256]]
      BY DEF IInv, TypeOK
    <3>3. tags \in [AllGranules -> 0..255] /\ data \in [AllGranules -> 0..256]
      <4>1. tags = shadow'[x] /\ data = lastByte'[x]
        BY <1>5
      <4> HIDE DEF tags, data, x
      <4> QED
        BY <4>1, <2>3
    <3>4. shadow' = [shadow EXCEPT ![x] = tags] /\ lastByte' = [lastByte EXCEPT ![x] = data]
      BY <1>4
    <3> HIDE DEF tags, data, x
    <3> QED
      BY <3>1, <3>2, <3>3, <3>4
  <2> QED
    BY <1>1, <1>2, <2>4, Writing DEF TypeOK, Label, Filling, heap
<1>7. \A y \in Place \ {x} : Same(y)
  BY <1>1, <1>4, Writing DEF TypeOK, Same
<1>8. Progress(t)'
  <2>1. pc'[t] = "tagShort" /\ new'[t] = new[t] /\ size'[t] = n
    BY <1>1, <1>2, Writing DEF TypeOK
  <2>2. Blank(shadow[x]) /\ EndGranule(lastByte[x], n, 0)
    BY <1>1, Writing DEF Progress
  <2>3. \A g \in AllGranules : g \in full <=> g < Full(n)
    BY <1>1, Writing DEF AllGranules
  <2>4. FullTagged(shadow'[x], new[t].tag, n)
    BY <1>5, <2>2, <2>3 DEF Blank, FullTagged
  <2>5. EndGranule(lastByte'[x], n, 0)
    BY <1>1, <1>5, <2>2, Writing DEF EndGranule
  <2> QED
    BY <2>1, <2>4, <2>5 DEF Progress, Filling
<1> QED
  BY <1>1, <1>2, <1>6, <1>7, <1>8, FillingInv

LEMMA TagShortInv ==
  ASSUME IInv, NEW t \in Thread, TagShort(t)
  PROVE  IInv' /\ pc'[t] # "report"
<1> DEFINE n == size[t]
           x == PlaceOf(new[t])
<1>1. pc[t] = "tagShort" /\ pc[t] \in Filling
  BY DEF TagShort, Filling
<1>2. /\ pc' = [pc EXCEPT ![t] = "tagByte"]
      /\ UNCHANGED <<heap, lastByte, mutex, size, old, new, held, stale, exited>>
  BY DEF TagShort
<1>3. shadow' = IF Rest(n) = 0 THEN shadow
                ELSE [shadow EXCEPT ![x][Full(n)] = Rest(n)]
  BY DEF TagShort, Rest, Full
<1>4. TypeOK'
  <2>1. shadow' \in [Place -> [AllGranules -> 0..255]]
    BY <1>1, <1>3, Writing DEF TypeOK
  <2> QED
    BY <1>1, <1>2, <2>1, Writing DEF TypeOK, Label, Filling, heap
<1>5. \A y \in Place \ {x} : Same(y)
  BY <1>1, <1>2, <1>3, Writing DEF TypeOK, Same
<1>6. Progress(t)'
  <2>1. pc'[t] = "tagByte" /\ new'[t] = new[t] /\ size'[t] = n /\ lastByte' = lastByte
    BY <1>1, <1>2, Writing DEF TypeOK
  <2>2. FullTagged(shadow[x], new[t].tag, n) /\ EndGranule(lastByte[x], n, 0)
    BY <1>1, Writing DEF Progress
  <2>3. \A g \in AllGranules :
          shadow'[x][g] = IF Rest(n) # 0 /\ g = Full(n) THEN Rest(n) ELSE shadow[x][g]
    BY <1>1, <1>3, Writing DEF TypeOK
  <2>4. Tagged(shadow'[x], new[t].tag, n)
    BY <1>1, <2>2, <2>3, Writing DEF FullTagged, Tagged
  <2> QED
    BY <2>1, <2>2, <2>4 DEF Progress, Filling
<1> QED
  BY <1>1, <1>2, <1>4, <1>5, <1>6, FillingInv

LEMMA TagByteInv ==
  ASSUME IInv, NEW t \in Thread, TagByte(t)
  PROVE  IInv' /\ pc'[t] # "report"
<1> DEFINE n == size[t]
           x == PlaceOf(new[t])
<1>1. pc[t] = "tagByte" /\ pc[t] \in Filling
  BY DEF TagByte, Filling
<1>2. /\ pc' = [pc EXCEPT ![t] = "return"]
      /\ UNCHANGED <<heap, shadow, mutex, size, old, new, held, stale, exited>>
  BY DEF TagByte
<1>3. lastByte' = IF Rest(n) = 0 THEN lastByte
                  ELSE [lastByte EXCEPT ![x][Full(n)] = new[t].tag]
  BY DEF TagByte, Rest, Full
<1>4. TypeOK'
  <2>1. new[t].tag \in 0..256
    BY <1>1, Writing
  <2>2. lastByte' \in [Place -> [AllGranules -> 0..256]]
    BY <1>1, <1>3, <2>1, Writing DEF TypeOK
  <2> QED
    BY <1>1, <1>2, <2>2, Writing DEF TypeOK, Label, heap
<1>5. \A y \in Place \ {x} : Same(y)
  BY <1>1, <1>2, <1>3, Writing DEF TypeOK, Same
<1>6. Progress(t)'
  <2>1. pc'[t] = "return" /\ new'[t] = new[t] /\ size'[t] = n /\ shadow' = shadow
    BY <1>1, <1>2, Writing DEF TypeOK
  <2>2. Tagged(shadow[x], new[t].tag, n)
    BY <1>1, Writing DEF Progress
  <2>3. EndGranule(lastByte'[x], n, new[t].tag)
    BY <1>1, <1>3, Writing DEF TypeOK, EndGranule
  <2>4. Written(new[t], n)'
    BY <2>1, <2>2, <2>3 DEF Written
  <2> QED
    BY <2>1, <2>4 DEF Progress
<1> QED
  BY <1>1, <1>2, <1>4, <1>5, <1>6, FillingInv

(* malloc returns its pointer to the program; realloc goes on to copy.      *)
LEMMA ReturnInv ==
  ASSUME IInv, NEW t \in Thread, Return(t)
  PROVE  IInv' /\ pc'[t] # "report"
<1>1. pc[t] = "return" /\ UNCHANGED <<heap, memory, size, old, stale, exited>>
  BY DEF Return
<1>2. TypeOK /\ new[t] \in Slot /\ new[t] # NoSlot /\ size[t] \in 0..ChunkSize
  BY <1>1, Slots DEF IInv, TypeOK, Standing
<1>3. Written(new[t], size[t])
  BY <1>1, <1>2 DEF IInv, Memory, Brings, Progress, Filling
<1>4. HeapOK'
  BY <1>1 DEF IInv, HeapOK, heap
<1>5. CASE old[t] = NoSlot
  <2>1. /\ held' = held \cup {[slot |-> new[t], size |-> size[t]]}
        /\ new' = [new EXCEPT ![t] = NoSlot]
        /\ pc' = [pc EXCEPT ![t] = "idle"]
    BY <1>2, <1>5 DEF Return, Given
  <2>2. TypeOK'
    BY <1>1, <1>2, <2>1 DEF TypeOK, Label, heap, memory
  <2>3. Others(t) /\ pc'[t] = "idle" /\ new'[t] = NoSlot /\ old'[t] = NoSlot
    BY <1>1, <1>2, <1>5, <2>1 DEF TypeOK, Others
  <2>4. \A u \in Thread : Standing(u)'
    BY <2>3, StandingKept DEF Standing, Filling, Freeing
  <2>5. Owners'
    <3>1. \A u \in Thread : (Takes(u)' <=> Takes(u)) /\ old'[u] = old[u]
      BY <1>1, <1>5, <2>3 DEF Takes, Others
    <3>2. \A u \in Thread \ {t} : (Brings(u)' <=> Brings(u)) /\ new'[u] = new[u]
      BY <2>3 DEF Brings, Others
    <3>3. Brings(t) /\ ~Brings(t)'
      BY <1>2, <2>3 DEF Brings
    <3>4. ASSUME NEW h \in held' PROVE h \in held \/ (h.slot = new[t] /\ h.size = size[t])
      BY <2>1
    <3>5. \E h \in held' : h.slot = new[t]
      <4>1. [slot |-> new[t], size |-> size[t]] \in held'
        BY <2>1
      <4>2. [slot |-> new[t], size |-> size[t]].slot = new[t]
        OBVIOUS
      <4> QED
        BY <4>1, <4>2, Zenon
    <3>6. live' = live /\ held \subseteq held'
      BY <1>1, <2>1 DEF heap
    <3>7. \A h, k \in held' : h.slot = k.slot => h = k
      BY <1>2, <2>1, <3>3 DEF IInv, Owners
    <3>8. \A s \in live' : \/ \E h \in held' : h.slot = s
                           \/ \E u \in Thread : Brings(u)' /\ new'[u] = s
                           \/ \E u \in Thread : Takes(u)' /\ old'[u] = s
      <4> SUFFICES ASSUME NEW s \in live
                   PROVE  \/ \E h \in held' : h.slot = s
                          \/ \E u \in Thread : Brings(u)' /\ new'[u] = s
                          \/ \E u \in Thread : Takes(u)' /\ old'[u] = s
        BY <3>6
      <4>1. CASE \E h \in held : h.slot = s
        BY <3>6, <4>1
      <4>2. CASE \E u \in Thread : Brings(u) /\ new[u] = s
        BY <3>2, <3>5, <4>2
      <4>3. CASE \E u \in Thread : Takes(u) /\ old[u] = s
        BY <3>1, <4>3
      <4> QED
        BY <4>1, <4>2, <4>3 DEF IInv, Owners
    <3> QED
      BY <3>1, <3>2, <3>3, <3>4, <3>6, <3>7, <3>8 DEF IInv, Owners
  <2>6. Memory'
    <3>1. \A h \in held' : h \in held \/ Written(h.slot, h.size)
      BY <1>3, <2>1
    <3> QED
      BY <1>1, <1>5, <2>3, <3>1, NoWrite DEF Brings, Takes, heap
  <2> QED
    BY <1>4, <2>2, <2>3, <2>4, <2>5, <2>6 DEF IInv
<1>6. CASE old[t] # NoSlot
  <2>1. /\ held' = held /\ new' = new /\ pc' = [pc EXCEPT ![t] = "copy"]
    BY <1>6 DEF Return
  <2>2. TypeOK'
    BY <1>1, <1>2, <2>1 DEF TypeOK, Label, heap, memory
  <2>3. Others(t) /\ pc'[t] = "copy"
    BY <1>1, <1>2, <2>1 DEF TypeOK, Others
  <2>4. \A u \in Thread : Standing(u)'
    BY <1>1, <1>2, <1>6, <2>1, <2>3, StandingKept DEF Standing, Filling, Freeing
  <2>5. Owners'
    <3>1. \A u \in Thread : (Takes(u)' <=> Takes(u)) /\ (Takes(u) => old'[u] = old[u])
      BY <1>1, <2>3 DEF Takes, Others
    <3> QED
      BY <1>1, <2>1, <3>1, OwnersKept DEF heap
  <2>6. Memory'
    <3>1. Progress(t)'
      BY <1>1, <1>3, <2>1, <2>3 DEF Progress, Filling, Written, memory
    <3>2. Takes(t)' => Clearing(t)'
      BY <1>1, <2>3 DEF IInv, Memory, Takes, Clearing, Written, memory
    <3> QED
      BY <1>1, <2>1, <2>3, <3>1, <3>2, NoWrite DEF heap
  <2> QED
    BY <1>4, <2>2, <2>3, <2>4, <2>5, <2>6 DEF IInv
<1> QED
  BY <1>5, <1>6

(* free clears the shadow of a chunk that only it owns. *)
LEMMA ClearInv ==
  ASSUME IInv, NEW t \in Thread, Clear(t)
  PROVE  IInv' /\ pc'[t] # "report"
<1> DEFINE x == PlaceOf(old[t])
           zeroes == [g \in AllGranules |-> 0]
<1>1. /\ pc[t] = "clear" /\ pc' = [pc EXCEPT ![t] = "unlocked"]
      /\ UNCHANGED <<heap, lastByte, mutex, size, old, new, held, stale, exited>>
  BY DEF Clear
<1>2. TypeOK /\ old[t] \in Slot /\ old[t] # NoSlot /\ x \in Place /\ Takes(t)
  BY <1>1, Slots DEF IInv, TypeOK, Standing, Freeing, Takes
<1>3. shadow' = [shadow EXCEPT ![x] = zeroes]
  <2>1. DOMAIN shadow[x] = AllGranules
    BY <1>2 DEF TypeOK
  <2> QED
    BY <1>2, <2>1 DEF Clear, Cleared, AllGranules, TypeOK
<1>4. shadow' \in [Place -> [AllGranules -> 0..255]]
  <2>1. zeroes \in [AllGranules -> 0..255]
    OBVIOUS
  <2> HIDE DEF zeroes, x
  <2> QED
    BY <1>2, <1>3, <2>1 DEF TypeOK
<1>5. TypeOK'
  BY <1>1, <1>2, <1>4 DEF TypeOK, Label, Freeing, heap
<1>6. HeapOK'
  BY <1>1 DEF IInv, HeapOK, heap
<1>7. Others(t) /\ pc'[t] = "unlocked"
  BY <1>1, <1>2 DEF TypeOK, Others
<1>8. \A u \in Thread : Standing(u)'
  BY <1>1, <1>2, <1>7, StandingKept DEF Standing, Filling, Freeing
<1>9. Owners'
  <2>1. \A u \in Thread : (Takes(u)' <=> Takes(u)) /\ (Takes(u) => old'[u] = old[u])
    BY <1>1, <1>7 DEF Takes, Others
  <2> QED
    BY <1>1, <2>1, OwnersKept DEF heap
<1>10. Memory'
  <2>1. \A y \in Place \ {x} : Same(y)
    BY <1>1, <1>2, <1>3 DEF TypeOK, Same
  <2>2. Blank(shadow'[x])
    BY <1>2, <1>3 DEF TypeOK, Blank
  <2>3. Clearing(t)'
    BY <1>1, <1>7, <2>2 DEF Clearing
  <2>4. ASSUME Brings(t)' PROVE Progress(t)'
    <3>1. Brings(t) /\ new'[t] = new[t] /\ size'[t] = size[t]
      BY <1>1, <2>4 DEF Brings
    <3>2. new[t] \in live /\ old[t] \in live /\ new[t] # old[t]
      BY <1>2, <3>1 DEF IInv, Owners
    <3>3. Same(PlaceOf(new[t]))
      BY <2>1, <3>2, Elsewhere, Slots DEF IInv, TypeOK
    <3>4. Written(new[t], size[t])
      BY <1>1, <3>1 DEF IInv, Memory, Progress, Filling
    <3> QED
      BY <1>7, <3>1, <3>3, <3>4 DEF Progress, Filling, Written, Same
  <2>5. old[t] \in live
    BY <1>2 DEF IInv, Owners
  <2> QED
    BY <1>1, <1>2, <1>7, <2>1, <2>3, <2>4, <2>5, WritesOwn DEF heap
<1> QED
  BY <1>5, <1>6, <1>7, <1>8, <1>9, <1>10 DEF IInv

LEMMA GiveBackInv ==
  ASSUME IInv, NEW t \in Thread, GiveBack(t)
  PROVE  IInv' /\ pc'[t] # "report"
<1>1. /\ pc[t] = "deallocate" /\ pc' = [pc EXCEPT ![t] = "release"]
      /\ UNCHANGED <<memory, mutex, size, old, new, held, stale, exited>>
      /\ live' = live \ {old[t]} /\ mapped' = mapped
  BY DEF GiveBack, Heap!Free
<1>2. TypeOK /\ old[t] \in Slot /\ old[t] # NoSlot /\ Takes(t)
  BY <1>1, Slots DEF IInv, TypeOK, Standing, Freeing, Takes
<1>3. TypeOK'
  BY <1>1, <1>2 DEF TypeOK, Label, memory
<1>4. HeapOK'
  BY <1>1 DEF IInv, HeapOK
<1>5. Others(t) /\ pc'[t] = "release"
  BY <1>1, <1>2 DEF TypeOK, Others
<1>6. \A u \in Thread : Standing(u)'
  BY <1>1, <1>2, <1>5, StandingKept DEF IInv, Standing, Filling, Freeing
<1>7. Owners'
  <2>1. \A u \in Thread \ {t} : Takes(u)' <=> Takes(u)
    BY <1>1, <1>5 DEF Takes, Others
  <2>2. ~Takes(t)'
    BY <1>5 DEF Takes
  <2>3. \A u \in Thread : Brings(u)' <=> Brings(u)
    BY <1>1 DEF Brings
  <2> QED
    BY <1>1, <1>2, <2>1, <2>2, <2>3 DEF IInv, Owners
<1>8. Memory'
  <2>1. \A x : Same(x)
    BY <1>1 DEF memory, Same
  <2>2. Blank(shadow[PlaceOf(old[t])])
    BY <1>1, <1>2 DEF IInv, Memory, Clearing
  <2>3. ASSUME NEW x \in Place, \A s \in live' : PlaceOf(s) # x PROVE Blank(shadow'[x])
    <3>1. CASE x = PlaceOf(old[t])
      BY <2>1, <2>2, <3>1 DEF Same
    <3>2. CASE x # PlaceOf(old[t])
      BY <1>1, <2>1, <2>3, <3>2 DEF IInv, Memory, Same
    <3> QED
      BY <3>1, <3>2
  <2>4. Brings(t)' => Progress(t)'
    BY <1>1, <1>5 DEF IInv, Memory, Brings, Progress, Filling, Written, memory
  <2>5. ~Takes(t)'
    BY <1>5 DEF Takes
  <2> QED
    BY <1>1, <1>5, <2>1, <2>3, <2>4, <2>5, MemoryKept
<1> QED
  BY <1>3, <1>4, <1>5, <1>6, <1>7, <1>8 DEF IInv

LEMMA FinishInv ==
  ASSUME IInv, NEW t \in Thread, Finish(t)
  PROVE  IInv' /\ pc'[t] # "report"
<1>1. /\ pc[t] = "release" /\ pc' = [pc EXCEPT ![t] = "idle"]
      /\ held' = held \cup Given(t)
      /\ old' = [old EXCEPT ![t] = NoSlot] /\ new' = [new EXCEPT ![t] = NoSlot]
      /\ UNCHANGED <<heap, memory, size, stale, exited>>
  BY DEF Finish
<1>2. TypeOK /\ size[t] \in 0..ChunkSize /\ (Brings(t) => new[t] \in Slot)
  BY DEF IInv, TypeOK, Brings
<1>3. Brings(t) => Written(new[t], size[t])
  BY <1>1 DEF IInv, Memory, Progress, Filling
<1>4. Given(t) = IF Brings(t) THEN {[slot |-> new[t], size |-> size[t]]} ELSE {}
  BY DEF Given, Brings
<1>5. TypeOK'
  <2>1. Given(t) \subseteq [slot : Slot, size : 0..ChunkSize]
    BY <1>2, <1>4
  <2> QED
    BY <1>1, <1>2, <2>1 DEF TypeOK, Label, heap, memory
<1>6. HeapOK'
  BY <1>1 DEF IInv, HeapOK, heap
<1>7. Others(t) /\ pc'[t] = "idle" /\ new'[t] = NoSlot /\ old'[t] = NoSlot
  BY <1>1, <1>2 DEF TypeOK, Others
<1>8. \A u \in Thread : Standing(u)'
  BY <1>7, StandingKept DEF Standing, Filling, Freeing
<1>9. Owners'
  <2>1. \A u \in Thread : (Takes(u)' <=> Takes(u)) /\ (Takes(u) => old'[u] = old[u])
    BY <1>1, <1>7 DEF Takes, Others
  <2>2. \A u \in Thread \ {t} : (Brings(u)' <=> Brings(u)) /\ new'[u] = new[u]
    BY <1>7 DEF Brings, Others
  <2>3. ~Brings(t)'
    BY <1>7 DEF Brings
  <2>4. live' = live
    BY <1>1 DEF heap
  <2>5. CASE ~Brings(t)
    <3>1. held' = held
      BY <1>1, <1>4, <2>5
    <3> QED
      BY <2>1, <2>2, <2>3, <2>4, <2>5, <3>1 DEF IInv, Owners
  <2>6. CASE Brings(t)
    <3> DEFINE b == [slot |-> new[t], size |-> size[t]]
    <3>1. held' = held \cup {b} /\ b.slot = new[t]
      BY <1>1, <1>4, <2>6
    <3> HIDE DEF b
    <3>2. \A h, k \in held' : h.slot = k.slot => h = k
      BY <2>6, <3>1 DEF IInv, Owners
    <3>3. ASSUME NEW s \in live
          PROVE  \/ \E h \in held' : h.slot = s
                 \/ \E u \in Thread : Brings(u)' /\ new'[u] = s
                 \/ \E u \in Thread : Takes(u)' /\ old'[u] = s
      <4>1. CASE \E h \in held : h.slot = s
        BY <3>1, <4>1
      <4>2. CASE \E u \in Thread : Brings(u) /\ new[u] = s
        BY <2>2, <3>1, <4>2
      <4>3. CASE \E u \in Thread : Takes(u) /\ old[u] = s
        BY <2>1, <4>3
      <4> QED
        BY <4>1, <4>2, <4>3 DEF IInv, Owners
    <3> QED
      BY <2>1, <2>2, <2>3, <2>4, <2>6, <3>1, <3>2, <3>3 DEF IInv, Owners
  <2> QED
    BY <2>5, <2>6
<1>10. Memory'
  <2>1. ASSUME NEW h \in held' PROVE h \in held \/ Written(h.slot, h.size)
    <3>1. CASE h \in held
      BY <3>1
    <3>2. CASE h \notin held
      <4>1. Brings(t) /\ h = [slot |-> new[t], size |-> size[t]]
        BY <1>1, <1>4, <3>2
      <4>2. h.slot = new[t] /\ h.size = size[t]
        BY <4>1
      <4> QED
        BY <1>3, <4>1, <4>2
    <3> QED
      BY <3>1, <3>2
  <2> QED
    BY <1>1, <1>7, <2>1, NoWrite DEF Brings, Takes, heap
<1> QED
  BY <1>5, <1>6, <1>7, <1>8, <1>9, <1>10 DEF IInv

------------------------------------------------------------------------------
(* A step keeps the invariant, moves one thread, and takes it to a report    *)
(* only if what it frees is not in use.                                    *)
OneReport(t) ==
  /\ \A u \in Thread \ {t} : pc'[u] = pc[u]
  /\ pc'[t] = "report" => pc[t] = "report" \/ old'[t] \notin live

LEMMA ThreadStep ==
  ASSUME IInv, NEW t \in Thread, Call(t) \/ Inside(t) \/ Outside(t)
  PROVE  IInv' /\ OneReport(t)
<1>1. \A to : pc' = [pc EXCEPT ![t] = to] => \A u \in Thread \ {t} : pc'[u] = pc[u]
  BY DEF IInv, TypeOK
<1>2. \A s, to : Check(t, s, to) => \A u \in Thread \ {t} : pc'[u] = pc[u]
  BY <1>1 DEF Check
<1>3. ASSUME NEW n \in Sizes, CallMalloc(t, n) PROVE IInv' /\ OneReport(t)
  BY <1>1, <1>3, CallMallocInv DEF OneReport, CallMalloc, IInv, TypeOK
<1>4. ASSUME NEW h \in held, NEW n \in Sizes, CallRealloc(t, h, n) PROVE IInv' /\ OneReport(t)
  BY <1>2, <1>4, CallReallocInv DEF OneReport, CallRealloc
<1>5. ASSUME NEW h \in held, CallFree(t, h) PROVE IInv' /\ OneReport(t)
  BY <1>2, <1>5, CallFreeInv DEF OneReport, CallFree
<1>6. ASSUME NEW s \in stale, CallFreeStale(t, s) PROVE IInv' /\ OneReport(t)
  BY <1>2, <1>6, CallFreeStaleInv DEF OneReport, CallFreeStale
<1>7. CASE Grow(t)
  BY <1>7, GrowInv DEF OneReport
<1>8. CASE TakeChunk(t)
  BY <1>1, <1>8, TakeChunkInv DEF OneReport, TakeChunk
<1>9. CASE FillTail(t)
  BY <1>1, <1>9, FillTailInv DEF OneReport, FillTail
<1>10. CASE TagFull(t)
  BY <1>1, <1>10, TagFullInv DEF OneReport, TagFull
<1>11. CASE TagShort(t)
  BY <1>1, <1>11, TagShortInv DEF OneReport, TagShort
<1>12. CASE TagByte(t)
  BY <1>1, <1>12, TagByteInv DEF OneReport, TagByte
<1>13. CASE Return(t)
  <2>1. \E to : pc' = [pc EXCEPT ![t] = to]
    BY <1>13 DEF Return
  <2> QED
    BY <1>1, <1>13, <2>1, ReturnInv DEF OneReport
<1>14. CASE GiveBack(t)
  BY <1>1, <1>14, GiveBackInv DEF OneReport, GiveBack
<1>15. CASE Shrink(t)
  BY <1>15, ShrinkInv DEF OneReport
<1>16. CASE Finish(t)
  BY <1>1, <1>16, FinishInv DEF OneReport, Finish
<1>17. CASE LockAllocate(t) \/ Copy(t) \/ LockDeallocate(t)
  <2>1. \E to : pc' = [pc EXCEPT ![t] = to]
    BY <1>17 DEF LockAllocate, Copy, LockDeallocate, Acquire
  <2> QED
    BY <1>1, <1>17, <2>1, MovesOnInv DEF OneReport
<1>18. CASE CheckOld(t)
  BY <1>2, <1>18, CheckOldInv DEF OneReport, CheckOld
<1>19. CASE Clear(t)
  BY <1>1, <1>19, ClearInv DEF OneReport, Clear
<1>20. CASE Report(t)
  BY <1>20, ReportInv DEF OneReport, Report
<1> QED
  BY <1>3, <1>4, <1>5, <1>6, <1>7, <1>8, <1>9, <1>10, <1>11, <1>12, <1>13, <1>14,
     <1>15, <1>16, <1>17, <1>18, <1>19, <1>20 DEF Call, Inside, Outside

LEMMA Stutter ==
  ASSUME IInv, UNCHANGED vars
  PROVE  IInv'
<1> USE DEF vars, heap, memory
<1>1. TypeOK' /\ HeapOK'
  BY DEF IInv, TypeOK, HeapOK
<1>2. \A t \in Thread : Standing(t)'
  BY DEF IInv, Standing
<1>3. Owners'
  BY DEF IInv, Owners, Brings, Takes
<1>4. Memory'
  BY DEF IInv, Memory, Brings, Takes, Progress, Clearing, Written
<1> QED
  BY <1>1, <1>2, <1>3, <1>4 DEF IInv

LEMMA StepIInv == IInv /\ [Next]_vars => IInv'
BY ThreadStep, Stutter DEF Next

LEMMA Invariance == Spec => []IInv
BY InitIInv, StepIInv, PTL DEF Spec

------------------------------------------------------------------------------
(* Types, for any number of threads, regions and chunks. *)
THEOREM TypesAlways == Spec => []TypeOK
<1>1. IInv => TypeOK
  BY DEF IInv
<1> QED
  BY <1>1, Invariance, PTL

LEMMA OwnersSuffice ==
  ASSUME TypeOK, Owners
  PROVE  OneOwner
<1>1. \A t : t \in Arriving <=> t \in Thread /\ Brings(t)
  BY DEF Arriving, Brings
<1>2. \A t : t \in Leaving <=> t \in Thread /\ Takes(t)
  BY DEF Leaving, Takes
<1>3. \A s : s \in HeldSlots <=> \E h \in held : h.slot = s
  BY DEF HeldSlots
<1>4. \A s : s \in Arrived <=> \E t \in Thread : Brings(t) /\ new[t] = s
  BY <1>1 DEF Arrived
<1>5. \A s : s \in Left <=> \E t \in Thread : Takes(t) /\ old[t] = s
  BY <1>2 DEF Left
<1>6. live = HeldSlots \cup Arrived \cup Left
  BY <1>3, <1>4, <1>5 DEF Owners
<1>7. HeldSlots \cap (Arrived \cup Left) = {} /\ Arrived \cap Left = {}
  BY <1>3, <1>4, <1>5 DEF Owners
<1>8. /\ \A t, u \in Arriving : new[t] = new[u] => t = u
      /\ \A t, u \in Leaving : old[t] = old[u] => t = u
  BY <1>1, <1>2 DEF Owners
<1> QED
  BY <1>6, <1>7, <1>8 DEF OneOwner, Owners

(* Every chunk in use has one owner, whatever the threads do: realloc loses  *)
(* no chunk and none is given back twice (HwasanAllocate, HwasanReallocate,  *)
(* HwasanDeallocate).                                                      *)
THEOREM OneOwnerAlways == Spec => []OneOwner
<1>1. IInv => OneOwner
  BY OwnersSuffice DEF IInv
<1> QED
  BY <1>1, Invariance, PTL

(* A pointer that the program holds reaches the bytes it asked for and no    *)
(* others of its region, at every step of every thread, for any size of     *)
(* granules and chunks (TagMemoryAligned and PointerAndMemoryTagsMatch).     *)
THEOREM ShadowExactAlways == Spec => []ShadowExact
<1>1. IInv => ShadowExact
  <2> SUFFICES ASSUME IInv, NEW h \in held, NEW c \in Chunk, NEW o \in Offset
               PROVE  LET s == h.slot
                          x == <<s.region, c>>
                          own == c = s.chunk /\ o < TagSize(h.size)
                      IN  /\ own => Matches(s.tag, x, o)
                          /\ ~own /\ Distinguished(s, x) => ~MayMatch(s.tag, x, o)
    BY DEF ShadowExact
  <2> DEFINE s == h.slot
             x == <<s.region, c>>
  <2>1. /\ TypeOK /\ s \in Slot /\ s \in live /\ h.size \in 0..ChunkSize /\ Written(s, h.size)
        /\ x \in Place
    BY Slots DEF IInv, TypeOK, Owners, Memory, Place
  <2>2. CASE c = s.chunk
    <3>1. x = PlaceOf(s)
      BY <2>2 DEF PlaceOf
    <3>2. Distinguished(s, x) => s.tag >= Granule
      BY DEF Distinguished
    <3> QED
      BY <2>1, <2>2, <3>1, <3>2, OwnBytes, OtherBytes
  <2>3. CASE c # s.chunk
    <3>1. ASSUME NEW u \in live, PlaceOf(u) = x PROVE u.tag # s.tag
      <4>1. u.region = s.region /\ u.chunk = c
        BY <3>1 DEF PlaceOf
      <4> QED
        BY <2>1, <2>3, <4>1 DEF IInv, HeapOK
    <3> QED
      BY <2>1, <2>3, <3>1, NoMatch
  <2> QED
    BY <2>2, <2>3
<1> QED
  BY <1>1, Invariance, PTL

(* A dangling pointer matches no byte of its old chunk, unless the tag has   *)
(* come back to it, for any number of later owners.                        *)
THEOREM DanglingDetectedAlways == Spec => []DanglingDetected
<1>1. IInv => DanglingDetected
  <2> SUFFICES ASSUME IInv, NEW s \in stale \ live, NEW o \in Offset,
                      Distinguished(s, PlaceOf(s))
               PROVE  ~MayMatch(s.tag, PlaceOf(s), o)
    BY DEF DanglingDetected
  <2>1. s \in Slot /\ live \subseteq Slot /\ PlaceOf(s) \in Place
    BY Slots DEF IInv, TypeOK
  <2>2. ASSUME NEW u \in live, PlaceOf(u) = PlaceOf(s), u.tag = s.tag PROVE FALSE
    BY <2>1, <2>2, Slots DEF Slot
  <2> QED
    BY <2>1, <2>2, NoMatch
<1> QED
  BY <1>1, Invariance, PTL

(* A thread that frees or reallocates a chunk in use is never told that its  *)
(* pointer does not match.                                                 *)
THEOREM ReportsAreTrueAlways == Spec => ReportsAreTrue
<1>1. ASSUME IInv, [Next]_vars
      PROVE  [\A t \in Thread : pc'[t] = "report" /\ pc[t] # "report"
                                  => old'[t] \notin live]_vars
  <2>1. CASE Next
    <3>1. PICK t \in Thread : Call(t) \/ Inside(t) \/ Outside(t)
      BY <2>1 DEF Next
    <3>2. OneReport(t)
      BY <1>1, <3>1, ThreadStep
    <3> QED
      BY <3>2 DEF OneReport
  <2>2. CASE UNCHANGED vars
    BY <2>2
  <2> QED
    BY <1>1, <2>1, <2>2
<1> QED
  BY <1>1, Invariance, PTL DEF Spec, ReportsAreTrue

------------------------------------------------------------------------------
(* Least and greatest numbers *)

PowerOfTwo(k) == 2 ^ k

LEMMA LeastExists ==
  ASSUME NEW S \in SUBSET Nat, S # {}
  PROVE  \E x \in S : \A y \in S : x <= y
<1>1. PICK b \in S : TRUE
  OBVIOUS
<1> DEFINE Sections == {0..x : x \in {y \in S : y <= b}}
<1>2. IsWellFoundedOn(StrictSubsetOrdering(0..b), SUBSET (0..b))
  <2>1. b \in Int /\ 0 \in Int
    OBVIOUS
  <2>2. IsFiniteSet(0..b)
    BY <2>1, FS_Interval
  <2>3. FiniteSubsetsOf(0..b) = SUBSET (0..b)
    BY <2>2, FS_FiniteSubsetsOfFinite
  <2> QED
    BY <2>3, FS_StrictSubsetOrderingWellFounded
<1>3. Sections \subseteq SUBSET (0..b) /\ Sections # {}
  <2>1. 0..b \in Sections
    OBVIOUS
  <2> QED
    BY <2>1
<1>4. PICK t \in Sections : \A u \in Sections : ~(<<u, t>> \in StrictSubsetOrdering(0..b))
  <2> HIDE DEF Sections
  <2> QED
    BY <1>2, <1>3, WFMin
<1>5. PICK x \in {y \in S : y <= b} : t = 0..x
  OBVIOUS
<1>6. ASSUME NEW y \in S PROVE x <= y
  <2>1. CASE y > b
    BY <2>1, <1>1
  <2>2. CASE y <= b
    <3>1. 0..y \in Sections
      BY <2>2
    <3>2. ~(0..y \subseteq t /\ 0..y # t)
      BY <3>1, <1>4, <1>3 DEF StrictSubsetOrdering
    <3>3. y < x => 0..y \subseteq 0..x /\ x \notin 0..y
      OBVIOUS
    <3> QED
      BY <3>2, <3>3, <1>5
  <2> QED
    BY <2>1, <2>2
<1> QED
  BY <1>5, <1>6

(* A finite set of numbers has a greatest one: that whose set of numbers at  *)
(* least as great is least.                                                 *)
LEMMA GreatestExists ==
  ASSUME NEW S \in SUBSET Nat, S # {}, IsFiniteSet(S)
  PROVE  \E x \in S : \A y \in S : x >= y
<1> DEFINE Up(x) == {y \in S : y >= x}
           Sections == {Up(x) : x \in S}
<1>1. IsWellFoundedOn(StrictSubsetOrdering(S), SUBSET S)
  <2>1. FiniteSubsetsOf(S) = SUBSET S
    BY FS_FiniteSubsetsOfFinite
  <2> QED
    BY <2>1, FS_StrictSubsetOrderingWellFounded
<1>2. Sections \subseteq SUBSET S /\ Sections # {}
  OBVIOUS
<1>3. PICK t \in Sections : \A u \in Sections : ~(<<u, t>> \in StrictSubsetOrdering(S))
  <2> HIDE DEF Sections
  <2> QED
    BY <1>1, <1>2, WFMin
<1>4. PICK x \in S : t = Up(x)
  OBVIOUS
<1>5. ASSUME NEW y \in S PROVE x >= y
  <2>1. Up(y) \in Sections
    OBVIOUS
  <2>2. ~(Up(y) \subseteq t /\ Up(y) # t)
    <3>1. Up(y) \in SUBSET S /\ t \in SUBSET S
      BY <1>4
    <3> HIDE DEF Sections, Up
    <3> QED
      BY <3>1, <2>1, <1>3 DEF StrictSubsetOrdering
  <2>4. x \in Nat /\ y \in Nat /\ \A z \in S : z \in Nat
    OBVIOUS
  <2>3. ASSUME y > x PROVE Up(y) \subseteq Up(x) /\ x \notin Up(y) /\ x \in Up(x)
    <3>1. ASSUME NEW z \in S, z >= y PROVE z >= x
      BY <2>3, <2>4, <3>1
    <3>2. ~(x >= y) /\ x >= x
      BY <2>3, <2>4
    <3>3. Up(y) \subseteq Up(x)
      BY <3>1
    <3>4. x \notin Up(y) /\ x \in Up(x)
      BY <3>2
    <3> QED
      BY <3>3, <3>4
  <2> HIDE DEF Up
  <2> QED
    BY <2>2, <2>3, <2>4, <1>4
<1> QED
  BY <1>5

------------------------------------------------------------------------------
(* Tags of stacks and globals, and the checks of accesses *)

(* What the constants of TagChecks are: a page is not empty, and no tag of a *)
(* frame or a global is the size of a short granule or the tag 0.           *)
CheckConstants ==
  /\ ShadowPage \in Nat \ {0} /\ ClearThreshold \in Nat
  /\ StackGranules \in Nat /\ GlobalGranules \in Nat
  /\ MaxFrame \in Nat /\ MaxAccess \in Nat
  /\ StackTags \subseteq Nat \ 0..3

OneFrame == [first : Nat, n : Nat, tag : StackTags \cup {0}]

Holds(f, g) == g \in f.first .. f.first + f.n - 1

(* The frames lie one below the other. *)
Stacked ==
  /\ frames \in Seq(OneFrame)
  /\ \A i \in 1..Len(frames) : frames[i].first + frames[i].n <= StackGranules
  /\ \A i, j \in 1..Len(frames) : i < j => frames[j].first + frames[j].n <= frames[i].first
  /\ parent \in 0..Len(frames)

BytesTyped ==
  /\ stackShadow \in [T!AllGranules -> Nat]
  /\ stackByte \in [T!AllGranules -> Nat]
  /\ global \in [size : 1..4 * GlobalGranules, tag : StackTags]
  /\ loaded \in BOOLEAN

(* The shadow of the stack is that of its frames. *)
StackTagged ==
  \A g \in 0..StackGranules - 1 :
    /\ \A i \in 1..Len(frames) : Holds(frames[i], g) => stackShadow[g] = frames[i].tag
    /\ (\A i \in 1..Len(frames) : ~Holds(frames[i], g)) => stackShadow[g] = 0

(* That of the library is the global's while it is loaded. *)
Whole == global.size \div 4
Short == global.size % 4

GlobalTagged ==
  \A j \in 0..GlobalGranules - 1 :
    /\ stackShadow[StackGranules + j] =
         IF ~loaded THEN 0 ELSE IF j < Whole THEN global.tag ELSE IF j = Whole THEN Short ELSE 0
    /\ stackByte[StackGranules + j] = IF loaded /\ j = Whole /\ Short # 0 THEN global.tag ELSE 0

NoByte == \A g \in 0..StackGranules - 1 : stackByte[g] = 0

CheckInv ==
  /\ BytesTyped /\ Stacked /\ NoByte /\ GlobalTagged
  /\ ignored \/ StackTagged

LEMMA LeastIs ==
  ASSUME NEW S \in SUBSET Nat, NEW x \in S, \A y \in S : x <= y
  PROVE  T!Least(S) = x
<1> DEFINE m == CHOOSE z \in S : \A y \in S : z <= y
<1>1. m \in S /\ \A y \in S : m <= y
  OBVIOUS
<1>2. m = x
  <2> HIDE DEF m
  <2>1. m \in Nat /\ x \in Nat /\ m <= x /\ x <= m
    BY <1>1
  <2> QED
    BY <2>1
<1> QED
  BY <1>2 DEF T!Least

LEMMA Remainder ==
  ASSUME NEW x \in Nat, NEW p \in Nat \ {0}
  PROVE  (x % p) \in 0..p - 1
OBVIOUS

Painted(s, first, n, t) ==
  [g \in T!AllGranules |-> IF g \in first..first + n - 1 THEN t ELSE s[g]]

(* TagMemoryAligned writes the shadow of its range, whichever way. *)
LEMMA TaggedIs ==
  ASSUME CheckConstants, NEW s, NEW first \in Nat, NEW n \in Nat, NEW t
  PROVE  T!Tagged(s, first, n, t) = Painted(s, first, n, t)
<1> DEFINE end == first + n
           up == first + ShadowPage - 1
<1>1. ShadowPage \in Nat \ {0} /\ ClearThreshold \in Nat /\ end \in Nat /\ up \in Nat
  BY DEF CheckConstants
<1>2. (up % ShadowPage) \in 0..ShadowPage - 1 /\ (end % ShadowPage) \in 0..ShadowPage - 1
  BY <1>1, Remainder
<1>3. T!RoundUp(first, ShadowPage) = up - (up % ShadowPage)
  BY DEF T!RoundUp, T!RoundDown
<1>4. T!RoundDown(end, ShadowPage) = end - (end % ShadowPage)
  BY DEF T!RoundDown
<1>5. PICK u \in Int : u = T!RoundUp(first, ShadowPage) /\ first <= u
  <2>1. ASSUME NEW r \in 0..ShadowPage - 1 PROVE up - r \in Int /\ first <= up - r
    BY <1>1
  <2> QED
    BY <2>1, <1>2, <1>3
<1>6. PICK d \in Int : d = T!RoundDown(end, ShadowPage) /\ d <= end
  <2>1. ASSUME NEW r \in 0..ShadowPage - 1 PROVE end - r \in Int /\ end - r <= end
    BY <1>1
  <2> QED
    BY <2>1, <1>2, <1>4
<1>7. d >= u + ClearThreshold => (first..u - 1) \cup (d..end - 1) \cup (u..d - 1) = first..end - 1
  <2> HIDE DEF end
  <2> QED
    BY <1>1, <1>5, <1>6
<1> QED
  BY <1>5, <1>6, <1>7 DEF T!Tagged, T!Cleared, Painted

LEMMA TaggedNow ==
  ASSUME CheckConstants, NEW first \in Nat, NEW n \in Nat, NEW t
  PROVE  T!Tagged(stackShadow, first, n, t) =
           [g \in T!AllGranules |-> IF g \in first..first + n - 1 THEN t ELSE stackShadow[g]]
<1>1. PICK s : s = stackShadow
  OBVIOUS
<1>2. T!Tagged(s, first, n, t) = Painted(s, first, n, t)
  BY TaggedIs
<1> QED
  BY <1>1, <1>2 DEF Painted

(* What a frame and the granules are. *)
LEMMA FrameIs ==
  ASSUME CheckConstants, Stacked, NEW i \in 1..Len(frames)
  PROVE  /\ frames[i].first \in Nat /\ frames[i].n \in Nat /\ frames[i].tag \in StackTags \cup {0}
         /\ frames[i] \in OneFrame
         /\ frames[i].first + frames[i].n <= StackGranules
<1>1. frames[i] \in OneFrame
  BY DEF Stacked
<1> QED
  BY <1>1 DEF OneFrame, Stacked

LEMMA GranulesAre ==
  ASSUME CheckConstants
  PROVE  /\ T!AllGranules = 0..StackGranules + GlobalGranules - 1
         /\ \A g \in 0..StackGranules - 1 : g \in T!AllGranules
         /\ \A j \in 0..GlobalGranules - 1 : StackGranules + j \in T!AllGranules
         /\ StackGranules \in Nat /\ GlobalGranules \in Nat
BY DEF CheckConstants, T!AllGranules

LEMMA SpIs ==
  ASSUME CheckConstants, Stacked
  PROVE  /\ T!Sp \in 0..StackGranules
         /\ \A i \in 1..Len(frames) : T!Sp <= frames[i].first
<1>1. CASE frames = <<>>
  BY <1>1 DEF T!Sp, CheckConstants
<1>2. CASE frames # <<>>
  <2>1. Len(frames) \in 1..Len(frames) /\ Len(frames) \in Nat
    BY <1>2 DEF Stacked
  <2>2. T!Sp = frames[Len(frames)].first
    BY <1>2 DEF T!Sp
  <2>3. ASSUME NEW i \in 1..Len(frames) PROVE T!Sp <= frames[i].first
    <3>1. frames[i].first \in Nat /\ frames[Len(frames)].first \in Nat /\ frames[Len(frames)].n \in Nat
      BY <2>1, FrameIs
    <3>2. CASE i = Len(frames)
      BY <3>2, <3>1, <2>2
    <3>3. CASE i < Len(frames)
      <4>1. frames[Len(frames)].first + frames[Len(frames)].n <= frames[i].first
        BY <3>3, <2>1 DEF Stacked
      <4> QED
        BY <4>1, <3>1, <2>2
    <3> QED
      BY <3>2, <3>3, <2>1
  <2>4. T!Sp \in 0..StackGranules
    <3>1. /\ frames[Len(frames)].first \in Nat /\ frames[Len(frames)].n \in Nat
          /\ frames[Len(frames)].first + frames[Len(frames)].n <= StackGranules
      BY <2>1, FrameIs
    <3> QED
      BY <3>1, <2>2 DEF CheckConstants
  <2> QED
    BY <2>3, <2>4
<1> QED
  BY <1>1, <1>2

LEMMA InitChecks == ASSUME CheckConstants, T!Init PROVE CheckInv
<1> USE DEF T!Init, CheckConstants
<1>1. BytesTyped
  BY GranulesAre DEF BytesTyped
<1>2. Stacked
  BY DEF Stacked
<1>3. NoByte /\ GlobalTagged
  BY GranulesAre DEF NoByte, GlobalTagged
<1>4. StackTagged
  BY GranulesAre DEF StackTagged
<1> QED
  BY <1>1, <1>2, <1>3, <1>4 DEF CheckInv

(* A step on the stack does not touch the library's granules. *)
LEMMA StackOnly ==
  ASSUME CheckConstants, CheckInv, NEW first \in Nat, NEW n \in Nat,
         first + n <= StackGranules, NEW t \in Nat,
         stackShadow' = T!Tagged(stackShadow, first, n, t) \/ stackShadow' = stackShadow,
         UNCHANGED <<stackByte, global, loaded>>
  PROVE  BytesTyped' /\ NoByte' /\ GlobalTagged'
<1>1. \/ stackShadow' = [g \in T!AllGranules |-> IF g \in first..first + n - 1 THEN t ELSE stackShadow[g]]
      \/ stackShadow' = stackShadow
  BY TaggedNow
<1>2. BytesTyped'
  BY <1>1 DEF BytesTyped, CheckInv, T!AllGranules
<1>3. NoByte'
  BY DEF NoByte, CheckInv
<1>4. GlobalTagged'
  <2>1. ASSUME NEW j \in 0..GlobalGranules - 1 PROVE stackShadow'[StackGranules + j] = stackShadow[StackGranules + j]
    BY <1>1, GranulesAre
  <2>2. Whole' = Whole /\ Short' = Short
    BY DEF Whole, Short
  <2> QED
    BY <2>1, <2>2 DEF GlobalTagged, CheckInv
<1> QED
  BY <1>2, <1>3, <1>4

(* The frames that are left when the last ones go are as they were. *)
LEMMA Shorter ==
  ASSUME CheckConstants, Stacked, NEW m \in 0..Len(frames), frames' = SubSeq(frames, 1, m),
         parent' \in 0..m
  PROVE  /\ Stacked' /\ Len(frames') = m
         /\ \A i \in 1..m : frames'[i] = frames[i] /\ i \in 1..Len(frames)
<1>1. frames \in Seq(OneFrame) /\ Len(frames) \in Nat
  BY DEF Stacked
<1>2. /\ frames' \in Seq(OneFrame) /\ Len(frames') = m
      /\ \A i \in 1..m : frames'[i] = frames[i] /\ i \in 1..Len(frames)
  BY <1>1
<1> QED
  BY <1>2, <1>1 DEF Stacked

(* The granules of the frames that go are cleared, those of no other. *)
LEMMA Popped ==
  ASSUME CheckConstants, CheckInv, NEW m \in 0..Len(frames), frames' = SubSeq(frames, 1, m),
         parent' \in 0..m, NEW first \in Nat, NEW n \in Nat,
         first + n <= StackGranules,
         stackShadow' = T!Tagged(stackShadow, first, n, 0),
         \A i \in 1..m : first + n <= frames[i].first,
         \A i \in m + 1..Len(frames) :
           first <= frames[i].first /\ frames[i].first + frames[i].n <= first + n,
         UNCHANGED <<stackByte, global, loaded, ignored>>
  PROVE  CheckInv'
<1>1. BytesTyped' /\ NoByte' /\ GlobalTagged'
  BY StackOnly
<1>2. /\ Stacked' /\ Len(frames') = m
      /\ \A i \in 1..m : frames'[i] = frames[i] /\ i \in 1..Len(frames)
  BY Shorter DEF CheckInv
<1>3. stackShadow' = [g \in T!AllGranules |-> IF g \in first..first + n - 1 THEN 0 ELSE stackShadow[g]]
  BY TaggedNow
<1>4. ASSUME StackTagged PROVE StackTagged'
  <2> SUFFICES ASSUME NEW g \in 0..StackGranules - 1
               PROVE  /\ \A i \in 1..m : Holds(frames[i], g) => stackShadow'[g] = frames[i].tag
                      /\ (\A i \in 1..m : ~Holds(frames[i], g)) => stackShadow'[g] = 0
    BY <1>2 DEF StackTagged, Holds
  <2>1. stackShadow'[g] = IF g \in first..first + n - 1 THEN 0 ELSE stackShadow[g]
    BY <1>3, GranulesAre
  <2>2. ASSUME NEW i \in 1..m, Holds(frames[i], g) PROVE stackShadow'[g] = frames[i].tag
    <3>1. frames[i].first \in Nat /\ frames[i].n \in Nat /\ i \in 1..Len(frames)
      BY <1>2, FrameIs DEF CheckInv
    <3>2. g \notin first..first + n - 1
      BY <2>2, <3>1 DEF Holds
    <3> QED
      BY <3>2, <3>1, <2>1, <2>2, <1>4 DEF StackTagged
  <2>3. ASSUME \A i \in 1..m : ~Holds(frames[i], g), g \notin first..first + n - 1
        PROVE  stackShadow[g] = 0
    <3>1. ASSUME NEW i \in 1..Len(frames), i \notin 1..m PROVE ~Holds(frames[i], g)
      <4>1. frames[i].first \in Nat /\ frames[i].n \in Nat
        BY FrameIs DEF CheckInv
      <4>2. i \in m + 1..Len(frames)
        BY <3>1
      <4>3. first <= frames[i].first /\ frames[i].first + frames[i].n <= first + n
        BY <4>2
      <4> QED
        BY <4>1, <4>3, <2>3 DEF Holds
    <3> QED
      BY <3>1, <2>3, <1>4 DEF StackTagged
  <2> QED
    BY <2>1, <2>2, <2>3
<1> QED
  BY <1>1, <1>2, <1>4 DEF CheckInv

LEMMA CallChecks == ASSUME CheckConstants, CheckInv, T!Call PROVE CheckInv'
<1>1. PICK n \in 1..MaxFrame, t \in StackTags \cup {0} :
        /\ n <= T!Sp
        /\ frames' = Append(frames, [first |-> T!Sp - n, n |-> n, tag |-> t])
        /\ stackShadow' = IF t = 0 THEN stackShadow ELSE T!Tagged(stackShadow, T!Sp - n, n, t)
  BY DEF T!Call
<1>2. UNCHANGED <<stackByte, parent, ignored, global, loaded>>
  BY DEF T!Call
<1>3. PICK sp : sp = T!Sp
  OBVIOUS
<1>4. sp \in 0..StackGranules /\ \A i \in 1..Len(frames) : sp <= frames[i].first
  BY SpIs, <1>3 DEF CheckInv
<1>5. n \in Nat \ {0} /\ n <= sp /\ t \in Nat /\ StackGranules \in Nat
  BY <1>1, <1>3 DEF CheckConstants
<1>6. PICK first \in Nat : first = sp - n /\ first + n = sp
  BY <1>4, <1>5
<1> DEFINE f == [first |-> first, n |-> n, tag |-> t]
<1>7. f \in OneFrame /\ f.first = first /\ f.n = n /\ f.tag = t
  BY <1>5 DEF OneFrame
<1>8. frames' = Append(frames, f)
  BY <1>1, <1>3, <1>6
<1> HIDE DEF f
<1>9. frames \in Seq(OneFrame) /\ Len(frames) \in Nat
  BY DEF CheckInv, Stacked
<1>10. /\ frames' \in Seq(OneFrame) /\ Len(frames') = Len(frames) + 1
       /\ \A i \in 1..Len(frames) : frames'[i] = frames[i]
       /\ frames'[Len(frames) + 1] = f
  BY <1>7, <1>8, <1>9
<1>11. \A i \in 1..Len(frames') : i \in 1..Len(frames) \/ i = Len(frames) + 1
  BY <1>10, <1>9
<1>12. BytesTyped' /\ NoByte' /\ GlobalTagged'
  <2>1. stackShadow' = T!Tagged(stackShadow, first, n, t) \/ stackShadow' = stackShadow
    BY <1>1, <1>3, <1>6
  <2> QED
    BY <2>1, <1>2, <1>4, <1>5, <1>6, StackOnly
<1>13. Stacked'
  <2>1. \A i \in 1..Len(frames') : frames'[i].first + frames'[i].n <= StackGranules
    BY <1>10, <1>11, <1>7, <1>6, <1>4, <1>5 DEF CheckInv, Stacked
  <2>2. ASSUME NEW i \in 1..Len(frames'), NEW j \in 1..Len(frames'), i < j
        PROVE  frames'[j].first + frames'[j].n <= frames'[i].first
    <3>1. i \in 1..Len(frames)
      BY <2>2, <1>10, <1>9
    <3>2. CASE j \in 1..Len(frames)
      BY <3>1, <3>2, <2>2, <1>10 DEF CheckInv, Stacked
    <3>3. CASE j = Len(frames) + 1
      BY <3>1, <3>3, <1>10, <1>7, <1>6, <1>4
    <3> QED
      BY <3>2, <3>3, <1>11
  <2>3. parent' \in 0..Len(frames')
    BY <1>2, <1>10, <1>9 DEF CheckInv, Stacked
  <2> QED
    BY <2>1, <2>2, <2>3, <1>10 DEF Stacked
<1>14. ASSUME StackTagged PROVE StackTagged'
  <2> SUFFICES ASSUME NEW g \in 0..StackGranules - 1
               PROVE  /\ \A i \in 1..Len(frames') : Holds(frames'[i], g) => stackShadow'[g] = frames'[i].tag
                      /\ (\A i \in 1..Len(frames') : ~Holds(frames'[i], g)) => stackShadow'[g] = 0
    BY DEF StackTagged, Holds
  <2>1. g \in T!AllGranules
    BY GranulesAre
  <2>2. Holds(f, g) <=> g \in first..first + n - 1
    BY <1>7 DEF Holds
  <2>3. ASSUME NEW i \in 1..Len(frames), Holds(frames[i], g) PROVE ~Holds(f, g)
    <3>1. frames[i].first \in Nat /\ frames[i].n \in Nat /\ sp <= frames[i].first
      BY <1>4, FrameIs DEF CheckInv
    <3> QED
      BY <3>1, <2>2, <2>3, <1>6, <1>5, <1>4 DEF Holds
  <2>4. (\A i \in 1..Len(frames) : ~Holds(frames[i], g)) => stackShadow[g] = 0
    BY <1>14 DEF StackTagged
  <2>5. \A i \in 1..Len(frames) : Holds(frames[i], g) => stackShadow[g] = frames[i].tag
    BY <1>14 DEF StackTagged
  <2>6. Holds(f, g) => stackShadow'[g] = t
    <3>1. CASE t = 0
      BY <3>1, <2>3, <2>4, <1>1
    <3>2. CASE t # 0
      <4>1. stackShadow' = [h \in T!AllGranules |-> IF h \in first..first + n - 1 THEN t ELSE stackShadow[h]]
        BY <3>2, <1>1, <1>3, <1>6, <1>5, TaggedNow
      <4> QED
        BY <4>1, <2>1, <2>2
    <3> QED
      BY <3>1, <3>2
  <2>7. ~Holds(f, g) => stackShadow'[g] = stackShadow[g]
    <3>1. CASE t = 0
      BY <3>1, <1>1
    <3>2. CASE t # 0
      <4>1. stackShadow' = [h \in T!AllGranules |-> IF h \in first..first + n - 1 THEN t ELSE stackShadow[h]]
        BY <3>2, <1>1, <1>3, <1>6, <1>5, TaggedNow
      <4> QED
        BY <4>1, <2>1, <2>2
    <3> QED
      BY <3>1, <3>2
  <2>8. ASSUME NEW i \in 1..Len(frames'), Holds(frames'[i], g) PROVE stackShadow'[g] = frames'[i].tag
    <3>1. CASE i \in 1..Len(frames)
      BY <3>1, <2>8, <1>10, <2>3, <2>5, <2>7
    <3>2. CASE i = Len(frames) + 1
      BY <3>2, <2>8, <1>10, <2>6, <1>7
    <3> QED
      BY <3>1, <3>2, <1>11
  <2>9. ASSUME \A i \in 1..Len(frames') : ~Holds(frames'[i], g) PROVE stackShadow'[g] = 0
    <3>1. ~Holds(f, g)
      <4>1. Len(frames) + 1 \in 1..Len(frames')
        BY <1>9, <1>10
      <4> QED
        BY <4>1, <2>9, <1>10
    <3>2. \A i \in 1..Len(frames) : i \in 1..Len(frames') /\ ~Holds(frames[i], g)
      BY <2>9, <1>10, <1>9
    <3> QED
      BY <3>1, <3>2, <2>4, <2>7
  <2> QED
    BY <2>8, <2>9
<1> QED
  BY <1>2, <1>12, <1>13, <1>14 DEF CheckInv

LEMMA ReturnChecks == ASSUME CheckConstants, CheckInv, T!Return PROVE CheckInv'
<1> DEFINE m == Len(frames) - 1
           f == frames[Len(frames)]
<1>1. /\ Len(frames) > parent
      /\ stackShadow' = IF f.tag = 0 THEN stackShadow ELSE T!Tagged(stackShadow, f.first, f.n, 0)
      /\ frames' = SubSeq(frames, 1, m)
      /\ UNCHANGED <<stackByte, parent, ignored, global, loaded>>
  BY DEF T!Return
<1>2. Len(frames) \in Nat /\ parent \in Nat /\ m \in 0..Len(frames) /\ parent \in 0..m
      /\ Len(frames) \in 1..Len(frames)
  BY <1>1 DEF CheckInv, Stacked
<1>3. /\ f.first \in Nat /\ f.n \in Nat /\ f.first + f.n <= StackGranules
  BY <1>2, FrameIs DEF CheckInv
<1>4. \A i \in 1..m : f.first + f.n <= frames[i].first
  BY <1>2 DEF CheckInv, Stacked
<1>5. parent' \in 0..m
  BY <1>1, <1>2
<1>6. CASE f.tag # 0
  <2>1. PICK first \in Nat, n \in Nat : first = f.first /\ n = f.n
    BY <1>3
  <2>2. \A i \in m + 1..Len(frames) : i = Len(frames)
    BY <1>2
  <2>3. stackShadow' = T!Tagged(stackShadow, first, n, 0)
    BY <2>1, <1>1, <1>6
  <2>4. \A i \in m + 1..Len(frames) : first <= frames[i].first /\ frames[i].first + frames[i].n <= first + n
    BY <2>1, <2>2, <1>3
  <2>5. first + n <= StackGranules /\ \A i \in 1..m : first + n <= frames[i].first
    BY <2>1, <1>3, <1>4
  <2> QED
    BY <2>3, <2>4, <2>5, <1>1, <1>2, <1>5, Popped
<1>7. CASE f.tag = 0
  <2>1. stackShadow' = stackShadow
    BY <1>1, <1>7
  <2>2. BytesTyped' /\ NoByte' /\ GlobalTagged'
    <3>1. 0 + 0 <= StackGranules
      BY DEF CheckConstants
    <3> QED
      BY <3>1, <2>1, <1>1, StackOnly
  <2>3. /\ Stacked' /\ Len(frames') = m
        /\ \A i \in 1..m : frames'[i] = frames[i] /\ i \in 1..Len(frames)
    BY <1>1, <1>2, <1>5, Shorter DEF CheckInv
  <2>4. ASSUME StackTagged PROVE StackTagged'
    <3> SUFFICES ASSUME NEW g \in 0..StackGranules - 1
                 PROVE  /\ \A i \in 1..m : Holds(frames[i], g) => stackShadow[g] = frames[i].tag
                        /\ (\A i \in 1..m : ~Holds(frames[i], g)) => stackShadow[g] = 0
      BY <2>1, <2>3 DEF StackTagged, Holds
    <3>1. \A i \in 1..m : Holds(frames[i], g) => stackShadow[g] = frames[i].tag
      BY <2>3, <2>4 DEF StackTagged
    <3>2. ASSUME \A i \in 1..m : ~Holds(frames[i], g) PROVE stackShadow[g] = 0
      <4>1. \A i \in 1..Len(frames) : i \in 1..m \/ i = Len(frames)
        BY <1>2
      <4>2. CASE Holds(f, g)
        <5>1. stackShadow[g] = f.tag
          BY <4>2, <1>2, <2>4 DEF StackTagged
        <5> QED
          BY <5>1, <1>7
      <4>3. CASE ~Holds(f, g)
        BY <4>1, <4>3, <3>2, <2>4 DEF StackTagged
      <4> QED
        BY <4>2, <4>3
    <3> QED
      BY <3>1, <3>2
  <2> QED
    BY <2>2, <2>3, <2>4, <1>1 DEF CheckInv
<1> QED
  BY <1>6, <1>7

LEMMA LongjmpChecks == ASSUME CheckConstants, CheckInv, T!Longjmp PROVE CheckInv'
<1>1. PICK k \in 1..Len(frames) - 1 :
        /\ k >= parent
        /\ frames' = SubSeq(frames, 1, k)
        /\ IF frames[k].first - T!Sp > MaxCleanup
           THEN ignored' = TRUE /\ UNCHANGED stackShadow
           ELSE stackShadow' = T!Tagged(stackShadow, T!Sp, frames[k].first - T!Sp, 0) /\ UNCHANGED ignored
  BY DEF T!Longjmp
<1>2. UNCHANGED <<stackByte, parent, global, loaded>>
  BY DEF T!Longjmp
<1>3. /\ Len(frames) \in Nat /\ k \in 0..Len(frames) /\ k \in 1..Len(frames) /\ parent' \in 0..k
  BY <1>1, <1>2 DEF CheckInv, Stacked
<1>4. PICK sp : sp = T!Sp
  OBVIOUS
<1>5. sp \in 0..StackGranules /\ \A i \in 1..Len(frames) : sp <= frames[i].first
  BY SpIs, <1>4 DEF CheckInv
<1>6. /\ frames[k].first \in Nat /\ frames[k].n \in Nat
      /\ frames[k].first + frames[k].n <= StackGranules
  BY <1>3, FrameIs DEF CheckInv
<1>7. CASE frames[k].first - sp > MaxCleanup
  <2>1. ignored' = TRUE /\ stackShadow' = stackShadow
    BY <1>1, <1>4, <1>7
  <2>2. Stacked'
    BY <1>1, <1>3, Shorter DEF CheckInv
  <2>3. BytesTyped' /\ NoByte' /\ GlobalTagged'
    <3>1. 0 + 0 <= StackGranules
      BY DEF CheckConstants
    <3> QED
      BY <3>1, <2>1, <1>2, StackOnly
  <2> QED
    BY <2>1, <2>2, <2>3 DEF CheckInv
<1>8. CASE ~(frames[k].first - sp > MaxCleanup)
  <2>1. ignored' = ignored /\ stackShadow' = T!Tagged(stackShadow, T!Sp, frames[k].first - T!Sp, 0)
    BY <1>1, <1>4, <1>8
  <2>2. PICK n \in Nat : n = frames[k].first - sp /\ sp + n = frames[k].first
    BY <1>5, <1>6, <1>3
  <2>3. PICK first \in Nat : first = sp
    BY <1>5, <1>6
  <2>4. stackShadow' = T!Tagged(stackShadow, first, n, 0)
    BY <2>1, <2>2, <2>3, <1>4
  <2>5. first + n = frames[k].first
    BY <2>2, <2>3
  <2>6. first + n <= StackGranules
    BY <2>5, <1>6 DEF CheckConstants
  <2>7. ASSUME NEW i \in 1..k PROVE first + n <= frames[i].first
    <3>1. i \in 1..Len(frames)
      BY <1>3
    <3>2. frames[i].first \in Nat
      BY <3>1, FrameIs DEF CheckInv
    <3>3. i < k => frames[k].first + frames[k].n <= frames[i].first
      BY <3>1, <1>3 DEF CheckInv, Stacked
    <3> QED
      BY <3>2, <3>3, <2>5, <1>6, <1>3
  <2>8. ASSUME NEW i \in k + 1..Len(frames)
        PROVE  first <= frames[i].first /\ frames[i].first + frames[i].n <= first + n
    <3>1. i \in 1..Len(frames) /\ k < i
      BY <1>3
    <3>2. frames[i].first + frames[i].n <= frames[k].first
      BY <3>1, <1>3 DEF CheckInv, Stacked
    <3> QED
      BY <3>1, <3>2, <2>5, <2>3, <1>5
  <2> QED
    BY <2>1, <2>4, <2>6, <2>7, <2>8, <1>1, <1>2, <1>3, Popped
<1> QED
  BY <1>7, <1>8

LEMMA VforkChecks == ASSUME CheckConstants, CheckInv, T!Vfork PROVE CheckInv'
<1>1. parent' = Len(frames) /\ UNCHANGED <<stackShadow, stackByte, frames, ignored, global, loaded>>
  BY DEF T!Vfork
<1>2. Stacked'
  BY <1>1 DEF CheckInv, Stacked
<1>3. BytesTyped' /\ NoByte' /\ GlobalTagged' /\ (ignored' \/ StackTagged')
  BY <1>1 DEF CheckInv, BytesTyped, NoByte, GlobalTagged, Whole, Short, StackTagged, Holds
<1> QED
  BY <1>2, <1>3 DEF CheckInv

LEMMA HandleVforkChecks == ASSUME CheckConstants, CheckInv, T!HandleVfork PROVE CheckInv'
<1>1. /\ parent # 0 /\ frames' = SubSeq(frames, 1, parent) /\ parent' = 0
      /\ stackShadow' = T!Tagged(stackShadow, 0, frames[parent].first, 0)
      /\ UNCHANGED <<stackByte, ignored, global, loaded>>
  BY DEF T!HandleVfork
<1>2. PICK k \in 1..Len(frames) : k = parent
  BY <1>1 DEF CheckInv, Stacked
<1>3. Len(frames) \in Nat /\ k \in 0..Len(frames) /\ parent' \in 0..k
  BY <1>1, <1>2 DEF CheckInv, Stacked
<1>4. PICK n \in Nat : n = frames[k].first
  BY FrameIs DEF CheckInv
<1>5. frames[k].n \in Nat /\ n + frames[k].n <= StackGranules /\ StackGranules \in Nat
  BY <1>4, FrameIs DEF CheckInv, CheckConstants
<1>6. 0 + n <= StackGranules
  BY <1>5
<1>7. ASSUME NEW i \in 1..k PROVE 0 + n <= frames[i].first
  <2>1. i \in 1..Len(frames)
    BY <1>3
  <2>2. frames[i].first \in Nat
    BY <2>1, FrameIs DEF CheckInv
  <2>3. i < k => frames[k].first + frames[k].n <= frames[i].first
    BY <2>1 DEF CheckInv, Stacked
  <2> QED
    BY <2>2, <2>3, <1>4, <1>5
<1>8. ASSUME NEW i \in k + 1..Len(frames)
      PROVE  0 <= frames[i].first /\ frames[i].first + frames[i].n <= 0 + n
  <2>1. i \in 1..Len(frames) /\ k < i
    BY <1>3
  <2>2. frames[i].first \in Nat /\ frames[i].n \in Nat
    BY <2>1, FrameIs DEF CheckInv
  <2>3. frames[i].first + frames[i].n <= frames[k].first
    BY <2>1 DEF CheckInv, Stacked
  <2> QED
    BY <2>2, <2>3, <1>4
<1>9. stackShadow' = T!Tagged(stackShadow, 0, n, 0)
  BY <1>1, <1>2, <1>4
<1>10. frames' = SubSeq(frames, 1, k)
  BY <1>1, <1>2
<1> QED
  BY <1>1, <1>3, <1>6, <1>7, <1>8, <1>9, <1>10, Popped

(* The granules of the global: whole ones and at most a short one.  *)
LEMMA GlobalIs ==
  ASSUME CheckConstants, BytesTyped
  PROVE  /\ global.tag \in StackTags /\ global.tag \in Nat /\ global.tag > 3
         /\ global.size \in Nat \ {0}
         /\ Whole \in Nat /\ Short \in 0..3 /\ global.size = 4 * Whole + Short
         /\ Whole + (IF Short = 0 THEN 0 ELSE 1) <= GlobalGranules
         /\ Short # 0 => (global.size - 1) \div 4 = Whole
<1>1. global.tag \in StackTags /\ global.size \in 1..4 * GlobalGranules /\ GlobalGranules \in Nat
  BY DEF BytesTyped, CheckConstants
<1>2. PICK n \in 1..4 * GlobalGranules : n = global.size
  BY <1>1
<1>3. global.tag \in Nat /\ global.tag > 3
  <2>1. PICK t \in StackTags : t = global.tag
    BY <1>1
  <2>2. t \in Nat /\ t \notin 0..3
    BY DEF CheckConstants
  <2> QED
    BY <2>1, <2>2
<1>4. /\ n \div 4 \in Nat /\ n % 4 \in 0..3 /\ n = 4 * (n \div 4) + (n % 4)
  BY <1>1
<1>5. (n \div 4) + (IF n % 4 = 0 THEN 0 ELSE 1) <= GlobalGranules
  BY <1>4, <1>1
<1>6. n % 4 # 0 => (n - 1) \div 4 = n \div 4
  BY <1>4, <1>1
<1>7. Whole = n \div 4 /\ Short = n % 4
  BY <1>2 DEF Whole, Short
<1>8. n \in Nat \ {0}
  BY <1>1
<1> QED
  BY <1>1, <1>2, <1>3, <1>4, <1>5, <1>6, <1>7, <1>8

(* The step of a library leaves the stack as it is. *)
LEMMA LibraryOnly ==
  ASSUME CheckConstants, CheckInv, BytesTyped', GlobalTagged',
         \A g \in 0..StackGranules - 1 :
           stackShadow'[g] = stackShadow[g] /\ stackByte'[g] = stackByte[g],
         UNCHANGED <<frames, parent, ignored>>
  PROVE  CheckInv'
<1>1. Stacked'
  BY DEF CheckInv, Stacked
<1>2. NoByte'
  BY DEF CheckInv, NoByte
<1>3. ignored' \/ StackTagged'
  BY DEF CheckInv, StackTagged, Holds
<1> QED
  BY <1>1, <1>2, <1>3 DEF CheckInv

LEMMA LoadChecks == ASSUME CheckConstants, CheckInv, T!LibraryLoaded PROVE CheckInv'
<1>1. /\ ~loaded /\ loaded' = TRUE
      /\ stackShadow' = T!InitializeSingleGlobal(stackShadow)
      /\ stackByte' = [stackByte EXCEPT ![StackGranules + ((global.size - 1) \div 4)] =
                         IF Short = 0 THEN stackByte[StackGranules + ((global.size - 1) \div 4)] ELSE global.tag]
      /\ UNCHANGED <<frames, parent, ignored, global>>
  BY DEF T!LibraryLoaded, T!stackVars, T!Segment, Short
<1>2. BytesTyped /\ GlobalTagged
  BY DEF CheckInv
<1>3. PICK full \in Nat, rest \in 0..3, tag \in Nat :
        full = Whole /\ rest = Short /\ tag = global.tag /\ tag \in StackTags
  BY <1>2, GlobalIs
<1>4. full + (IF rest = 0 THEN 0 ELSE 1) <= GlobalGranules
  BY <1>2, <1>3, GlobalIs
<1>5. StackGranules \in Nat /\ GlobalGranules \in Nat
  BY DEF CheckConstants
<1>6. PICK filled : filled = Painted(stackShadow, StackGranules, full, tag)
  OBVIOUS
<1>7. T!Tagged(stackShadow, StackGranules, full, tag) = filled
  BY <1>6, <1>5, TaggedNow DEF Painted
<1>8. T!Tagged(filled, StackGranules + full, 1, rest) = Painted(filled, StackGranules + full, 1, rest)
  <2>1. PICK b \in Nat : b = StackGranules + full
    BY <1>5
  <2>2. T!Tagged(filled, b, 1, rest) = Painted(filled, b, 1, rest)
    BY TaggedIs
  <2> QED
    BY <2>1, <2>2
<1>9. stackShadow' = IF rest = 0 THEN filled ELSE Painted(filled, StackGranules + full, 1, rest)
  BY <1>1, <1>3, <1>7, <1>8 DEF T!InitializeSingleGlobal, T!Segment, Whole, Short
<1>10. stackShadow' \in [T!AllGranules -> Nat]
  BY <1>2, <1>6, <1>9, <1>3 DEF Painted, BytesTyped
<1>11. ASSUME NEW j \in 0..GlobalGranules - 1
       PROVE  stackShadow'[StackGranules + j] = IF j < full THEN tag ELSE IF j = full THEN rest ELSE 0
  <2>1. StackGranules + j \in T!AllGranules
    BY GranulesAre
  <2>2. stackShadow[StackGranules + j] = 0
    BY <1>1, <1>2 DEF GlobalTagged
  <2>3. filled[StackGranules + j] = IF j < full THEN tag ELSE 0
    BY <1>6, <2>1, <2>2, <1>5 DEF Painted
  <2>4. Painted(filled, StackGranules + full, 1, rest)[StackGranules + j] = IF j = full THEN rest ELSE filled[StackGranules + j]
    BY <2>1, <1>5 DEF Painted
  <2> QED
    BY <2>3, <2>4, <1>9
<1>12. ASSUME NEW g \in 0..StackGranules - 1 PROVE stackShadow'[g] = stackShadow[g]
  <2>1. g \in T!AllGranules
    BY GranulesAre
  <2>2. filled[g] = stackShadow[g]
    BY <1>6, <2>1, <1>5 DEF Painted
  <2>3. Painted(filled, StackGranules + full, 1, rest)[g] = filled[g]
    BY <2>1, <1>5 DEF Painted
  <2> QED
    BY <2>2, <2>3, <1>9
<1>13. \/ rest = 0 /\ stackByte' = stackByte
       \/ rest # 0 /\ stackByte' = [stackByte EXCEPT ![StackGranules + full] = tag]
  <2>1. CASE rest = 0
    BY <2>1, <1>1, <1>2, <1>3 DEF BytesTyped
  <2>2. CASE rest # 0
    <3>1. (global.size - 1) \div 4 = full
      BY <2>2, <1>2, <1>3, GlobalIs
    <3> QED
      BY <3>1, <2>2, <1>1, <1>3
  <2> QED
    BY <2>1, <2>2
<1>14. /\ stackByte' \in [T!AllGranules -> Nat]
       /\ \A g \in 0..StackGranules - 1 : stackByte'[g] = stackByte[g]
       /\ \A j \in 0..GlobalGranules - 1 :
            stackByte'[StackGranules + j] = IF j = full /\ rest # 0 THEN tag ELSE 0
  <2>1. stackByte \in [T!AllGranules -> Nat]
    BY <1>2 DEF BytesTyped
  <2>2. \A j \in 0..GlobalGranules - 1 : stackByte[StackGranules + j] = 0
    BY <1>1, <1>2 DEF GlobalTagged
  <2>3. CASE rest = 0
    BY <2>1, <2>2, <2>3, <1>13
  <2>4. CASE rest # 0
    <3>1. full \in 0..GlobalGranules - 1
      BY <2>4, <1>4, <1>5
    <3>2. StackGranules + full \in T!AllGranules
      BY <3>1, GranulesAre
    <3>3. stackByte' = [stackByte EXCEPT ![StackGranules + full] = tag]
      BY <2>4, <1>13
    <3>4. stackByte' \in [T!AllGranules -> Nat]
      BY <2>1, <3>2, <3>3
    <3>5. \A g \in 0..StackGranules - 1 : stackByte'[g] = stackByte[g]
      BY <2>1, <3>3, <1>5, GranulesAre
    <3>6. \A j \in 0..GlobalGranules - 1 : stackByte'[StackGranules + j] = IF j = full THEN tag ELSE 0
      BY <2>1, <2>2, <3>3, <1>5, GranulesAre
    <3> QED
      BY <2>4, <3>4, <3>5, <3>6
  <2> QED
    BY <2>3, <2>4
<1>15. BytesTyped'
  BY <1>10, <1>14, <1>1, <1>2 DEF BytesTyped, T!AllGranules
<1>16. GlobalTagged'
  <2>1. Whole' = full /\ Short' = rest /\ global'.tag = tag
    BY <1>1, <1>3 DEF Whole, Short
  <2> QED
    BY <2>1, <1>1, <1>11, <1>14 DEF GlobalTagged
<1> QED
  BY <1>1, <1>12, <1>14, <1>15, <1>16, LibraryOnly

LEMMA UnloadChecks == ASSUME CheckConstants, CheckInv, T!LibraryUnloaded PROVE CheckInv'
<1>1. /\ loaded' = FALSE
      /\ stackShadow' = T!Tagged(stackShadow, StackGranules, GlobalGranules, 0)
      /\ stackByte' = [g \in T!AllGranules |-> IF g >= StackGranules THEN 0 ELSE stackByte[g]]
      /\ UNCHANGED <<frames, parent, ignored, global>>
  BY DEF T!LibraryUnloaded, T!stackVars, T!Segment
<1>2. StackGranules \in Nat /\ GlobalGranules \in Nat
  BY DEF CheckConstants
<1>3. stackShadow' = Painted(stackShadow, StackGranules, GlobalGranules, 0)
  BY <1>1, <1>2, TaggedNow DEF Painted
<1>4. /\ \A g \in 0..StackGranules - 1 : stackShadow'[g] = stackShadow[g]
      /\ \A j \in 0..GlobalGranules - 1 : stackShadow'[StackGranules + j] = 0
      /\ \A g \in 0..StackGranules - 1 : stackByte'[g] = stackByte[g]
      /\ \A j \in 0..GlobalGranules - 1 : stackByte'[StackGranules + j] = 0
  BY <1>1, <1>2, <1>3, GranulesAre DEF Painted
<1>5. BytesTyped'
  <2>1. BytesTyped
    BY DEF CheckInv
  <2>2. stackByte' \in [T!AllGranules -> Nat]
    BY <2>1, <1>1 DEF BytesTyped
  <2>3. stackShadow' \in [T!AllGranules -> Nat]
    BY <2>1, <1>3 DEF BytesTyped, Painted
  <2> QED
    BY <2>1, <2>2, <2>3, <1>1 DEF BytesTyped, T!AllGranules
<1>6. GlobalTagged'
  BY <1>1, <1>4 DEF GlobalTagged
<1> QED
  BY <1>1, <1>4, <1>5, <1>6, LibraryOnly

LEMMA StepChecks == ASSUME CheckConstants, CheckInv, T!Next PROVE CheckInv'
BY CallChecks, ReturnChecks, LongjmpChecks, VforkChecks, HandleVforkChecks, LoadChecks,
   UnloadChecks DEF T!Next

------------------------------------------------------------------------------
(* A byte of a granule. *)
LEMMA ByteIs ==
  ASSUME CheckConstants, NEW b \in T!Bytes
  PROVE  /\ b \in Nat /\ b \div 4 \in T!AllGranules /\ b % 4 \in 0..3
         /\ b = 4 * (b \div 4) + (b % 4)
         /\ T!GranuleAt(b) = b \div 4
<1>1. b \in 0..4 * (StackGranules + GlobalGranules) - 1 /\ StackGranules \in Nat /\ GlobalGranules \in Nat
  BY DEF T!Bytes, CheckConstants
<1>2. PICK n \in Nat : n = StackGranules + GlobalGranules
  BY <1>1
<1>3. b \in 0..4 * n - 1
  BY <1>1, <1>2
<1>4. b \in Nat /\ b \div 4 \in 0..n - 1 /\ b % 4 \in 0..3 /\ b = 4 * (b \div 4) + (b % 4)
  BY <1>3
<1>5. T!AllGranules = 0..n - 1
  BY <1>1, <1>2 DEF T!AllGranules
<1>6. T!GranuleAt(b) = b \div 4
  BY DEF T!GranuleAt
<1> QED
  BY <1>4, <1>5, <1>6

LEMMA ReachesIs ==
  ASSUME CheckConstants, NEW t, NEW b \in T!Bytes, NEW g, NEW r,
         g = b \div 4, r = b % 4
  PROVE  T!Reaches(t, b) <=>
           (stackShadow[g] = t) \/ (stackShadow[g] < 4 /\ r + 1 <= stackShadow[g] /\ stackByte[g] = t)
<1>1. T!Reaches(t, b) <=>
        (stackShadow[b \div 4] = t)
          \/ (stackShadow[b \div 4] < 4 /\ (b % 4) + 1 <= stackShadow[b \div 4] /\ stackByte[b \div 4] = t)
  BY ByteIs DEF T!Reaches, T!PossiblyShortTagMatches
<1> QED
  BY <1>1

LEMMA TagsAreExact == ASSUME CheckConstants, CheckInv PROVE T!TagsExact
<1> SUFFICES ASSUME ~ignored, NEW t \in StackTags, NEW b \in T!Bytes
             PROVE  T!Reaches(t, b) <=> b \in T!Owned(t)
  <2>1. \A t \in StackTags : T!Owned(t) \subseteq T!Bytes
    BY DEF T!Owned
  <2> QED
    BY <2>1 DEF T!TagsExact
<1>1. BytesTyped /\ Stacked /\ NoByte /\ GlobalTagged /\ StackTagged
  BY DEF CheckInv
<1>2. PICK g \in T!AllGranules, r \in 0..3 : g = b \div 4 /\ r = b % 4 /\ b = 4 * g + r /\ T!GranuleAt(b) = g
  BY ByteIs
<1>3. StackGranules \in Nat /\ GlobalGranules \in Nat /\ t \in Nat /\ t > 3 /\ g \in Nat /\ b \in Nat
  BY GranulesAre, ByteIs DEF CheckConstants, T!AllGranules
<1>4. T!Reaches(t, b) <=> (stackShadow[g] = t) \/ (stackShadow[g] < 4 /\ r + 1 <= stackShadow[g] /\ stackByte[g] = t)
  BY <1>2, ReachesIs
<1>5. b \in T!Owned(t) <=>
        \/ \E i \in 1..Len(frames) : frames[i].tag = t /\ Holds(frames[i], g)
        \/ loaded /\ global.tag = t /\ b - 4 * StackGranules \in 0..global.size - 1
  BY <1>2 DEF T!Owned, T!Segment, Holds
<1>6. CASE g < StackGranules
  <2>1. g \in 0..StackGranules - 1
    BY <1>6, <1>3
  <2>2. stackByte[g] # t
    BY <2>1, <1>1, <1>3 DEF NoByte
  <2>3. ~(b - 4 * StackGranules \in 0..global.size - 1)
    BY <1>2, <1>3, <1>6
  <2>4. stackShadow[g] = t <=> \E i \in 1..Len(frames) : frames[i].tag = t /\ Holds(frames[i], g)
    BY <2>1, <1>1, <1>3 DEF StackTagged
  <2>5. stackByte[g] # t
    BY <2>2
  <2> QED
    BY <2>5, <2>3, <2>4, <1>4, <1>5, Zenon
<1>7. CASE g >= StackGranules
  <2>1. PICK j \in 0..GlobalGranules - 1 : g = StackGranules + j
    <3>1. g - StackGranules \in 0..GlobalGranules - 1
      BY <1>7, <1>3, <1>2, GranulesAre
    <3> QED
      BY <3>1, <1>3
  <2>2. ASSUME NEW i \in 1..Len(frames) PROVE ~Holds(frames[i], g)
    <3>1. /\ frames[i].first \in Nat /\ frames[i].n \in Nat
          /\ frames[i].first + frames[i].n <= StackGranules
      BY <1>1, FrameIs
    <3> QED
      BY <3>1, <1>7, <1>3 DEF Holds
  <2>3. PICK full \in Nat, rest \in 0..3, size_ \in Nat :
          full = Whole /\ rest = Short /\ size_ = global.size /\ size_ = 4 * full + rest
    BY <1>1, GlobalIs
  <2>4. b - 4 * StackGranules \in 0..size_ - 1 <=> j < full \/ (j = full /\ r < rest)
    <3>1. b - 4 * StackGranules = 4 * j + r
      BY <1>2, <2>1, <1>3
    <3> QED
      BY <3>1, <2>3, <2>1, <1>2
  <2>5. /\ stackShadow[g] = IF ~loaded THEN 0 ELSE IF j < full THEN global.tag ELSE IF j = full THEN rest ELSE 0
        /\ stackByte[g] = IF loaded /\ j = full /\ rest # 0 THEN global.tag ELSE 0
    BY <2>1, <2>3, <1>1 DEF GlobalTagged
  <2>6. global.tag \in Nat /\ global.tag > 3
    BY <1>1, GlobalIs
  <2>7. b \in T!Owned(t) <=> loaded /\ global.tag = t /\ (j < full \/ (j = full /\ r < rest))
    BY <2>2, <2>3, <2>4, <1>5
  <2>8. PICK tag \in Nat : tag = global.tag /\ tag > 3
    BY <2>6
  <2>9. CASE ~loaded
    BY <2>7, <2>9, <2>5, <1>3, <1>4, <1>2
  <2>10. CASE loaded
    <3>1. /\ stackShadow[g] = IF j < full THEN tag ELSE IF j = full THEN rest ELSE 0
          /\ stackByte[g] = IF j = full /\ rest # 0 THEN tag ELSE 0
      BY <2>5, <2>8, <2>10
    <3>2. b \in T!Owned(t) <=> tag = t /\ (j < full \/ (j = full /\ r < rest))
      BY <2>7, <2>8, <2>10
    <3>3. CASE j < full
      BY <3>1, <3>2, <3>3, <2>8, <2>1, <1>4, <1>3
    <3>4. CASE j = full
      BY <3>1, <3>2, <3>4, <2>8, <2>3, <1>2, <1>4, <1>3
    <3>5. CASE j > full
      BY <3>1, <3>2, <3>5, <2>8, <2>3, <2>1, <1>2, <1>4, <1>3
    <3> QED
      BY <3>3, <3>4, <3>5, <2>1, <2>3
  <2> QED
    BY <2>9, <2>10
<1> QED
  BY <1>6, <1>7, <1>3

(* An access: its bytes are there, and those of one of a fixed size in one   *)
(* granule.                                                                *)
LEMMA AccessIs ==
  ASSUME CheckConstants, NEW a \in T!Accesses
  PROVE  /\ a.tag \in StackTags /\ a.addr \in T!Bytes
         /\ T!AccessSize(a) \in Nat \ {0}
         /\ a.addr + T!AccessSize(a) - 1 \in T!Bytes
         /\ a.code = 15 => T!AccessSize(a) = a.register
         /\ a.code # 15 =>
              /\ T!AccessSize(a) = 2 ^ a.code
              /\ (a.addr + T!AccessSize(a) - 1) \div 4 = a.addr \div 4
              /\ (a.addr + T!AccessSize(a) - 1) % 4 = (a.addr % 4) + T!AccessSize(a) - 1
<1>1. PICK n \in Nat : n = StackGranules + GlobalGranules
  BY DEF CheckConstants
<1>2. T!Bytes = 0..4 * n - 1
  BY <1>1 DEF T!Bytes
<1>3. a.tag \in StackTags /\ a.addr \in T!Bytes
  BY DEF T!Accesses
<1>4. PICK b \in 0..4 * n - 1 : b = a.addr
  BY <1>2, <1>3
<1>5. CASE a.code = 15
  <2>1. a.register \in 1..MaxAccess /\ a.addr + a.register - 1 \in T!Bytes
    BY <1>5 DEF T!Accesses
  <2>2. T!AccessSize(a) = a.register
    BY <1>5 DEF T!AccessSize
  <2>3. a.register \in Nat \ {0}
    BY <2>1 DEF CheckConstants
  <2> QED
    BY <1>3, <1>5, <2>1, <2>2, <2>3
<1>6. CASE a.code # 15
  <2>1. a.code \in 0..4 /\ 2 ^ a.code <= 4 /\ a.addr % (2 ^ a.code) = 0
    BY <1>6 DEF T!Accesses
  <2>2. T!AccessSize(a) = 2 ^ a.code
    BY <1>6 DEF T!AccessSize
  <2>3. PowerOfTwo(0) = 1 /\ PowerOfTwo(1) = 2 /\ PowerOfTwo(2) = 4 /\ PowerOfTwo(3) = 8 /\ PowerOfTwo(4) = 16
    BY DEF PowerOfTwo
  <2>4. a.code \in {0, 1, 2, 3, 4} /\ PowerOfTwo(a.code) = 2 ^ a.code
    BY <2>1 DEF PowerOfTwo
  <2>5. 2 ^ a.code \in {1, 2, 4}
    BY <2>1, <2>3, <2>4
  <2>6. PICK k \in {1, 2, 4} : k = 2 ^ a.code
    BY <2>5
  <2>7. b % k = 0
    BY <2>1, <2>6, <1>4
  <2>8. /\ b + k - 1 \in 0..4 * n - 1
        /\ (b + k - 1) \div 4 = b \div 4
        /\ (b + k - 1) % 4 = (b % 4) + k - 1
    <3>1. CASE k = 1
      BY <3>1, <2>7, <1>4
    <3>2. CASE k = 2
      BY <3>2, <2>7, <1>4
    <3>3. CASE k = 4
      BY <3>3, <2>7, <1>4
    <3> QED
      BY <3>1, <3>2, <3>3
  <2>9. k \in Nat \ {0}
    OBVIOUS
  <2> QED
    BY <1>2, <1>3, <1>4, <1>6, <2>2, <2>6, <2>8, <2>9
<1> QED
  BY <1>5, <1>6

(* The check of an access passes when all its bytes are reached. *)
LEMMA Passes ==
  ASSUME CheckConstants, BytesTyped, NEW a \in T!Accesses,
         \A b \in a.addr..a.addr + T!AccessSize(a) - 1 : T!Reaches(a.tag, b)
  PROVE  T!Checked(a)
<1>1. PICK t \in StackTags, first \in T!Bytes, n \in Nat \ {0}, last \in T!Bytes :
        /\ t = a.tag /\ first = a.addr /\ n = T!AccessSize(a) /\ last = first + n - 1
        /\ \A b \in first..last : T!Reaches(t, b)
  BY AccessIs
<1>2. first \in Nat /\ last \in Nat /\ last \in first..last /\ first <= last
  <2>1. first \in Nat /\ last \in Nat
    BY ByteIs
  <2>2. last = first + n - 1
    BY <1>1
  <2> QED
    BY <2>1, <2>2
<1>3. \A g \in T!AllGranules : stackShadow[g] \in Nat
  BY DEF BytesTyped
<1>4. PICK h \in T!AllGranules, r \in 0..3 : h = last \div 4 /\ r = last % 4 /\ last = 4 * h + r
  BY ByteIs
<1>5. (stackShadow[h] = t) \/ (stackShadow[h] < 4 /\ r + 1 <= stackShadow[h] /\ stackByte[h] = t)
  BY <1>1, <1>2, <1>4, ReachesIs
<1>6. CASE a.code # 15
  <2>1. first \div 4 = h /\ n = 2 ^ a.code /\ (first % 4) + n = r + 1
    <3>1. /\ n = 2 ^ a.code /\ last \div 4 = first \div 4 /\ last % 4 = (first % 4) + n - 1
      BY <1>1, <1>6, AccessIs
    <3>2. first % 4 \in 0..3
      BY ByteIs
    <3> QED
      BY <3>1, <3>2, <1>4, <1>1
  <2>2. T!Checked(a) <=> T!PossiblyShortTagMatches(t, first, n)
    BY <1>1, <1>6, <2>1 DEF T!Checked, T!CheckAddress
  <2>3. T!PossiblyShortTagMatches(t, first, n) <=>
          (stackShadow[first \div 4] = t)
            \/ (stackShadow[first \div 4] < 4 /\ (first % 4) + n <= stackShadow[first \div 4] /\ stackByte[first \div 4] = t)
    BY ByteIs DEF T!PossiblyShortTagMatches
  <2> QED
    BY <2>1, <2>2, <2>3, <1>5
<1>7. CASE a.code = 15
  <2>1. PICK end \in Nat : end = first + n /\ end = last + 1
    BY <1>1, <1>2
  <2>2. T!Checked(a) <=>
          /\ \A g \in (first \div 4)..(end \div 4) - 1 : stackShadow[g] = t
          /\ end % 4 = 0 \/ T!PossiblyShortTagMatches(t, end - (end % 4), end % 4)
    <3>1. n = a.register
      BY <1>1, <1>7, AccessIs
    <3> QED
      BY <1>1, <1>7, <2>1, <3>1 DEF T!Checked, T!CheckAddressSized, T!GranuleAt
  <2>3. ASSUME NEW g \in (first \div 4)..(end \div 4) - 1 PROVE stackShadow[g] = t
    <3>1. PICK f \in Nat, e \in Nat : f = first \div 4 /\ e = end \div 4 /\ first <= 4 * f + 3 /\ 4 * e <= end
      BY <1>2, <2>1
    <3>2. PICK b \in Nat : b = 4 * g + 3
      BY <3>1, <2>3
    <3>3. b \in first..last
      BY <3>1, <3>2, <2>1, <1>2
    <3>4. b \in T!Bytes
      BY <3>3, <1>1, <1>2 DEF T!Bytes, CheckConstants
    <3>5. g = b \div 4 /\ 3 = b % 4
      BY <3>2, <3>1
    <3>6. (stackShadow[g] = t) \/ (stackShadow[g] < 4 /\ 3 + 1 <= stackShadow[g] /\ stackByte[g] = t)
      BY <3>3, <3>4, <3>5, <1>1, ReachesIs
    <3>7. g \in T!AllGranules
      BY <3>4, <3>5, ByteIs
    <3> QED
      BY <3>6, <3>7, <1>3
  <2>4. ASSUME end % 4 # 0 PROVE T!PossiblyShortTagMatches(t, end - (end % 4), end % 4)
    <3>1. end \div 4 = h /\ end % 4 = r + 1
      BY <2>4, <2>1, <1>2, <1>4
    <3>2. PICK b \in Nat, k \in Nat : b = end - (end % 4) /\ k = end % 4 /\ b \div 4 = h /\ b % 4 = 0 /\ k = r + 1
      BY <3>1, <2>1, <1>2
    <3>3. T!PossiblyShortTagMatches(t, b, k) <=>
            (stackShadow[h] = t) \/ (stackShadow[h] < 4 /\ 0 + k <= stackShadow[h] /\ stackByte[h] = t)
      BY <3>2 DEF T!PossiblyShortTagMatches, T!GranuleAt
    <3>4. 0 + k = r + 1
      BY <3>2
    <3> QED
      BY <3>2, <3>3, <3>4, <1>5
  <2> QED
    BY <2>2, <2>3, <2>4
<1> QED
  BY <1>6, <1>7

(* The report finds the first byte that is not reached. *)
LEMMA Found ==
  ASSUME CheckConstants, BytesTyped, NEW a \in T!Accesses,
         NEW bad, bad = {b \in a.addr..a.addr + T!AccessSize(a) - 1 : ~T!Reaches(a.tag, b)},
         bad # {}
  PROVE  T!ReportTagMismatch(a) = [checked |-> TRUE, offset |-> T!Least(bad) - a.addr]
<1>1. PICK t \in StackTags, first \in T!Bytes, n \in Nat \ {0}, last \in T!Bytes :
        /\ t = a.tag /\ first = a.addr /\ n = T!AccessSize(a) /\ last = first + n - 1
        /\ bad = {b \in first..last : ~T!Reaches(t, b)}
  BY AccessIs
<1>2. first \in Nat /\ last \in Nat /\ first <= last
  <2>1. first \in Nat /\ last \in Nat
    BY ByteIs
  <2>2. last = first + n - 1
    BY <1>1
  <2> QED
    BY <2>1, <2>2
<1>3. \A g \in T!AllGranules : stackShadow[g] \in Nat
  BY DEF BytesTyped
<1>4. ASSUME NEW b \in first..last
      PROVE  b \in T!Bytes /\ b \in Nat /\ b \div 4 \in T!AllGranules /\ b % 4 \in 0..3
             /\ b = 4 * (b \div 4) + (b % 4)
  <2>1. b \in T!Bytes
    BY <1>1, <1>2 DEF T!Bytes, CheckConstants
  <2> QED
    BY <2>1, ByteIs
<1>5. PICK low \in Nat, high \in Nat :
        low = first \div 4 /\ high = last \div 4 /\ 4 * low <= first /\ first <= 4 * low + 3
        /\ 4 * high <= last /\ last <= 4 * high + 3
  BY <1>2
<1> DEFINE G == {g \in low..high : stackShadow[g] # t}
<1>6. PICK b0 \in bad : b0 \in first..last /\ ~T!Reaches(t, b0)
  BY <1>1
<1>7. (b0 \div 4) \in G
  <2>1. stackShadow[b0 \div 4] # t
    BY <1>4, <1>6, ReachesIs
  <2>2. (b0 \div 4) \in low..high
    BY <1>6, <1>4, <1>5, <1>2
  <2> QED
    BY <2>1, <2>2
<1>8. G \in SUBSET Nat /\ G # {}
  <2>1. G \subseteq Nat
    BY <1>5
  <2> QED
    BY <2>1, <1>7
<1>9. PICK g0 \in low..high : stackShadow[g0] # t /\ g0 \in Nat /\ T!Least(G) = g0 /\ \A g \in G : g0 <= g
  <2>1. PICK m \in G : \A g \in G : m <= g
    <3> HIDE DEF G
    <3> QED
      BY <1>8, LeastExists
  <2>2. T!Least(G) = m
    <3> HIDE DEF G
    <3> QED
      BY <1>8, <2>1, LeastIs
  <2>3. m \in low..high /\ stackShadow[m] # t /\ m \in Nat
    BY <1>5
  <2> QED
    BY <2>1, <2>2, <2>3
<1>10. PICK p \in first..last : p = (IF 4 * g0 < first THEN first ELSE 4 * g0) /\ p \div 4 = g0
  <2>1. CASE 4 * g0 < first
    BY <2>1, <1>9, <1>5, <1>2
  <2>2. CASE 4 * g0 >= first
    BY <2>2, <1>9, <1>5, <1>2
  <2> QED
    BY <2>1, <2>2, <1>9, <1>2
<1>11. PICK o \in Nat, i \in 0..3, s \in Nat :
         /\ o = p - first /\ i = p % 4 /\ p = 4 * g0 + i /\ s = stackShadow[g0]
         /\ first + o = p /\ g0 \in T!AllGranules
  <2>1. p \div 4 \in T!AllGranules /\ p % 4 \in 0..3 /\ p = 4 * (p \div 4) + (p % 4) /\ p \in Nat
    BY <1>4
  <2>2. p - first \in Nat /\ first + (p - first) = p
    BY <2>1, <1>2
  <2> QED
    BY <2>1, <2>2, <1>10, <1>3
<1>12. T!TestShadow(a) = o
  <2>1. T!TestShadow(a) = IF G = {} THEN -1 ELSE IF 4 * T!Least(G) - first < 0 THEN 0 ELSE 4 * T!Least(G) - first
    BY <1>1, <1>5 DEF T!TestShadow, T!GranuleAt
  <2>2. T!TestShadow(a) = IF 4 * g0 - first < 0 THEN 0 ELSE 4 * g0 - first
    <3> HIDE DEF G
    <3> QED
      BY <2>1, <1>8, <1>9
  <2> QED
    BY <2>2, <1>9, <1>10, <1>11, <1>2
<1>13. o < n
  BY <1>1, <1>2, <1>11
<1> DEFINE short == s \in 1..3 /\ stackByte[g0] = t /\ s > i
           q == IF short THEN 4 * g0 + s ELSE p
<1>14. T!PastShort(a, o) = q - first
  <2>1. T!PastShort(a, o) = IF short THEN o + s - i ELSE o
    <3>1. T!GranuleAt(first + o) = g0 /\ (first + o) % 4 = i
      BY <1>10, <1>11 DEF T!GranuleAt
    <3>2. T!GranuleAt(a.addr + o) = g0 /\ (a.addr + o) % 4 = i /\ a.tag = t
      BY <3>1, <1>1
    <3>3. 4 - 1 = 3
      OBVIOUS
    <3> QED
      BY <3>2, <3>3, <1>11 DEF T!PastShort
  <2> QED
    BY <2>1, <1>11, <1>2, <1>9
<1>15. ASSUME NEW b \in first..last, b < q PROVE T!Reaches(t, b)
  <2>1. PICK g \in T!AllGranules, r \in 0..3 : g = b \div 4 /\ r = b % 4 /\ b = 4 * g + r /\ b \in T!Bytes
    BY <1>4
  <2>2. g \in low..high /\ g \in Nat
    BY <2>1, <1>5, <1>2, <1>4
  <2>3. CASE g < g0
    <3>1. stackShadow[g] = t
      BY <2>2, <2>3, <1>9
    <3> QED
      BY <3>1, <2>1, ReachesIs
  <2>4. CASE g >= g0
    <3>1. short /\ g = g0 /\ r < s
      BY <2>4, <2>1, <2>2, <1>15, <1>9, <1>10, <1>11, <1>2
    <3>2. stackShadow[g] < 4 /\ r + 1 <= stackShadow[g] /\ stackByte[g] = t
      BY <3>1, <1>11
    <3> QED
      BY <3>2, <2>1, ReachesIs
  <2> QED
    BY <2>3, <2>4, <2>2, <1>9
<1>16. q \in Nat /\ q \in first..last /\ q \div 4 = g0 /\ q % 4 = (IF short THEN s ELSE i)
  <2>1. q \in Nat /\ first <= q
    BY <1>11, <1>9, <1>2
  <2>2. q <= b0
    <3>1. b0 \in Nat
      BY <1>6, <1>2
    <3> HIDE DEF q
    <3> QED
      BY <3>1, <2>1, <1>6, <1>15
  <2>3. q \div 4 = g0 /\ q % 4 = (IF short THEN s ELSE i)
    <3>1. CASE short
      BY <3>1, <1>9
    <3>2. CASE ~short
      BY <3>2, <1>10, <1>11
    <3> QED
      BY <3>1, <3>2
  <2> HIDE DEF q, short
  <2> QED
    BY <2>1, <2>2, <2>3, <1>6, <1>2
<1>17. ~T!Reaches(t, q)
  <2>1. q \in T!Bytes
    BY <1>16, <1>4
  <2>2. CASE short
    <3>1. T!Reaches(t, q) <=> (stackShadow[g0] = t) \/ (stackShadow[g0] < 4 /\ s + 1 <= stackShadow[g0] /\ stackByte[g0] = t)
      <4>1. g0 = q \div 4 /\ s = q % 4
        BY <1>16, <2>2
      <4> HIDE DEF q
      <4> QED
        BY <4>1, <2>1, ReachesIs
    <3> QED
      BY <3>1, <1>9, <1>11
  <2>3. CASE ~short
    <3>1. T!Reaches(t, q) <=> (stackShadow[g0] = t) \/ (stackShadow[g0] < 4 /\ i + 1 <= stackShadow[g0] /\ stackByte[g0] = t)
      <4>1. g0 = q \div 4 /\ i = q % 4
        BY <1>16, <2>3
      <4> HIDE DEF q
      <4> QED
        BY <4>1, <2>1, ReachesIs
    <3> QED
      BY <3>1, <2>3, <1>9, <1>11
  <2> QED
    BY <2>2, <2>3
<1>18. T!Least(bad) = q
  <2> HIDE DEF q
  <2>1. q \in bad
    BY <1>1, <1>16, <1>17
  <2>2. bad \in SUBSET Nat
    BY <1>1, <1>2
  <2>3. ASSUME NEW b \in bad PROVE q <= b
    <3>1. b \in first..last /\ ~T!Reaches(t, b) /\ b \in Nat
      BY <1>1, <1>2
    <3> QED
      BY <3>1, <1>15, <1>16
  <2> QED
    BY <2>1, <2>2, <2>3, LeastIs
<1>19. 0 <= o /\ o < T!AccessSize(a)
  BY <1>1, <1>11, <1>13
<1>20. T!ReportTagMismatch(a) = [checked |-> 0 <= o /\ o < T!AccessSize(a), offset |-> T!PastShort(a, o)]
  BY <1>12, <1>19 DEF T!ReportTagMismatch
<1>21. (0 <= o /\ o < T!AccessSize(a)) = TRUE
  BY <1>19
<1> HIDE DEF q
<1>22. T!PastShort(a, o) = T!Least(bad) - a.addr
  BY <1>1, <1>14, <1>18
<1> QED
  BY <1>20, <1>21, <1>22, Zenon

LEMMA ReportsAreExact == ASSUME CheckConstants, BytesTyped PROVE T!ReportsWhere
<1> SUFFICES ASSUME NEW a \in T!Accesses, NEW bad,
                    bad = {b \in a.addr..a.addr + T!AccessSize(a) - 1 : ~T!Reaches(a.tag, b)}
             PROVE  IF bad = {} THEN T!Checked(a)
                    ELSE T!ReportTagMismatch(a) = [checked |-> TRUE, offset |-> T!Least(bad) - a.addr]
  BY DEF T!ReportsWhere
<1>1. CASE bad = {}
  <2>1. \A b \in a.addr..a.addr + T!AccessSize(a) - 1 : T!Reaches(a.tag, b)
    BY <1>1
  <2> QED
    BY <1>1, <2>1, Passes
<1>2. CASE bad # {}
  BY <1>2, Found
<1> QED
  BY <1>1, <1>2

CheckingInv == Checking => CheckInv

(* See ChecksExact: a pointer reaches the bytes of live frames and globals    *)
(* of its tag and no others, an access that reaches all its bytes passes,     *)
(* and a report names the first byte that is not reached.                    *)
THEOREM ChecksExactAlways == ASSUME CheckConstants PROVE MCSpec => []ChecksExact
<1>1. MCInit => CheckingInv
  BY InitChecks DEF MCInit, CheckingInv, Checking
<1>2. CheckingInv /\ [MCNext]_<<part, runVars, buildVars>> => CheckingInv'
  <2> SUFFICES ASSUME CheckingInv, [MCNext]_<<part, runVars, buildVars>>, Checking'
               PROVE  CheckInv'
    BY DEF CheckingInv
  <2>1. Checking /\ CheckInv
    BY DEF CheckingInv, Checking, MCNext, Running, Building
  <2>2. T!Next \/ UNCHANGED tagVars
    BY <2>1 DEF Checking, Holding, Dangling, Calling, MCNext, Running, Building, runVars
  <2>3. CASE UNCHANGED tagVars
    BY <2>1, <2>3 DEF tagVars, CheckInv, BytesTyped, Stacked, NoByte, GlobalTagged, StackTagged,
                      Holds, Whole, Short
  <2> QED
    BY <2>1, <2>2, <2>3, StepChecks
<1>3. CheckingInv => ChecksExact
  BY TagsAreExact, ReportsAreExact DEF CheckingInv, ChecksExact, CheckInv
<1> QED
  BY <1>1, <1>2, <1>3, PTL DEF MCSpec

------------------------------------------------------------------------------
(* The functions of malloc's family *)

(* What the constants of EntryPoints are.  The provers have no rule for the  *)
(* powers of two; that they are positive numbers is all that is needed of    *)
(* them.  Memory is much larger than the largest block, a word smaller than  *)
(* a granule, and the least class that has room for a multiple of a power of *)
(* two is one itself, as ClassKeepsAlignment in PlacesProofs says of the     *)
(* code's classes.                                                          *)
CallConstants ==
  /\ Width \in Nat /\ 2 < Width
  /\ \A k \in 0..Width : 2 ^ k \in Nat \ {0}
  /\ WordSize \in 1..3
  /\ \E k \in 0..Width : MallocPage = 2 ^ k
  /\ LargeHeader \in Nat /\ LargeAlignment \in Nat /\ MaxMalloc \in Nat \ {0}
  /\ MaxMalloc + 3 + LargeHeader + MallocPage < 2 ^ Width
  /\ Numbers \subseteq E!uptr /\ Alignments \subseteq E!uptr
  /\ Classes \subseteq Nat
  /\ \A k \in 0..Width, q \in Nat \ {0} :
       LET fitting == {c \in Classes : c >= q * 2 ^ k}
       IN  fitting # {} => E!Min(fitting) % 2 ^ k = 0
  /\ None # 3 /\ None \notin {"ENOMEM", "EINVAL"}
  /\ \A r, e : None # E!Answer(r, e)

(* The alignment of an address that is a multiple of a power of two. *)
LEMMA PowerInIs ==
  ASSUME CallConstants, NEW n \in Nat, NEW k \in 0..Width, n % 2 ^ k = 0
  PROVE  E!PowerIn(n) \in Nat /\ E!PowerIn(n) >= 2 ^ k
<1> DEFINE J == {j \in 0..Width : n % 2 ^ j = 0}
           S == {2 ^ j : j \in J}
<1>1. \A j \in 0..Width : 2 ^ j \in Nat
  BY DEF CallConstants
<1>2. S \in SUBSET Nat /\ 2 ^ k \in S
  BY <1>1
<1>3. IsFiniteSet(S)
  <2>1. IsFiniteSet(0..Width)
    <3>1. 0 \in Int /\ Width \in Int
      BY DEF CallConstants
    <3> QED
      BY <3>1, FS_Interval
  <2>2. IsFiniteSet(J)
    BY <2>1, FS_Subset
  <2> DEFINE f == [j \in J |-> 2 ^ j]
  <2>3. f \in Surjection(J, S)
    BY DEF Surjection
  <2> QED
    BY <2>2, <2>3, FS_Surjection
<1>4. PICK x \in S : \A y \in S : x >= y
  <2> HIDE DEF S
  <2> QED
    BY <1>2, <1>3, GreatestExists
<1>5. E!Max(S) \in S /\ \A y \in S : E!Max(S) >= y
  <2> HIDE DEF S
  <2> QED
    BY <1>4 DEF E!Max
<1>6. E!PowerIn(n) = E!Max(S)
  BY DEF E!PowerIn
<1> HIDE DEF S
<1> QED
  BY <1>2, <1>5, <1>6

(* Rounding up, where the sum does not wrap and where it does. *)
LEMMA Multiples ==
  ASSUME NEW x \in Nat, NEW b \in Nat \ {0}
  PROVE  \E q \in Nat : x \div b = q /\ q * b <= x /\ x < q * b + b
<1>1. x \div b \in Nat
  OBVIOUS
<1>2. PICK q \in Nat : q = x \div b
  BY <1>1
<1>3. x = b * q + (x % b) /\ x % b \in 0..b - 1
  BY <1>2, Z3
<1>4. PICK p : p = b * q
  OBVIOUS
<1>5. q * b = p /\ p \in Nat
  BY <1>4
<1>6. PICK r \in 0..b - 1 : r = x % b /\ x = p + r
  BY <1>3, <1>4
<1>7. p <= x /\ x < p + b
  BY <1>5, <1>6
<1> QED
  BY <1>2, <1>5, <1>7

LEMMA Unwrapped ==
  ASSUME CallConstants, NEW n \in Nat, n < 2 ^ Width
  PROVE  E!Wrapped(n) = n
<1>1. PICK m \in Nat : m = 2 ^ Width /\ n < m
  BY DEF CallConstants
<1>2. n % m = n
  BY <1>1
<1> QED
  BY <1>1, <1>2 DEF E!Wrapped

LEMMA RoundsUp ==
  ASSUME CallConstants, NEW n \in Nat, NEW b \in Nat \ {0}, n + b - 1 < 2 ^ Width
  PROVE  /\ E!RoundUpTo(n, b) \in Nat /\ E!RoundUpTo(n, b) >= n
         /\ E!RoundUpTo(n, b) <= n + b - 1
         /\ \E q \in Nat : E!RoundUpTo(n, b) = q * b
<1>1. PICK x \in Nat : x = n + b - 1
  OBVIOUS
<1>2. E!Wrapped(x) = x
  BY <1>1, Unwrapped
<1>3. PICK q \in Nat : x \div b = q /\ q * b <= x /\ x < q * b + b
  BY Multiples
<1>4. E!RoundUpTo(n, b) = q * b
  BY <1>1, <1>2, <1>3 DEF E!RoundUpTo
<1>5. PICK p \in Nat : p = q * b
  OBVIOUS
<1>6. p >= n /\ p <= n + b - 1
  BY <1>1, <1>3, <1>5
<1> QED
  BY <1>4, <1>5, <1>6

(* A sum that wraps is less than what is added to. *)
LEMMA Wraps ==
  ASSUME CallConstants, NEW n \in E!uptr, NEW b \in E!uptr, n + b >= 2 ^ Width
  PROVE  E!Wrapped(n + b) = n + b - 2 ^ Width /\ E!Wrapped(n + b) < n /\ E!Wrapped(n + b) < b
<1>1. PICK m \in Nat \ {0} : m = 2 ^ Width
  BY DEF CallConstants
<1>2. n \in 0..m - 1 /\ b \in 0..m - 1 /\ n + b >= m
  BY <1>1 DEF E!uptr
<1>3. PICK d \in Nat : d = n + b - m /\ d < n /\ d < b /\ d < m
  BY <1>2
<1>4. (n + b) % m = d
  <2>1. n + b = m + d
    BY <1>2, <1>3
  <2>2. (m + d) % m = d
    BY <1>3
  <2> QED
    BY <2>1, <2>2
<1> QED
  BY <1>1, <1>3, <1>4 DEF E!Wrapped

LEMMA PageIs ==
  ASSUME CallConstants
  PROVE  /\ MallocPage \in Nat \ {0} /\ 2 ^ Width \in Nat /\ MallocPage < 2 ^ Width
         /\ MallocPage \in E!uptr
<1>1. 2 ^ Width \in Nat
  BY DEF CallConstants
<1>2. MallocPage \in Nat \ {0}
  BY DEF CallConstants
<1>3. MallocPage < 2 ^ Width
  BY <1>1, <1>2 DEF CallConstants
<1> QED
  BY <1>1, <1>2, <1>3 DEF E!uptr

(* What CTAllocateCombined answers with has room for the size, at a multiple *)
(* of the alignment.                                                       *)
Fitting(r, size_, align_, zero_) ==
  \/ r = E!Null \/ r = E!Died
  \/ \E bytes, al \in Nat :
       r = E!Block(bytes, al, zero_) /\ bytes >= size_ /\ al >= align_

LEMMA CombinedFits ==
  ASSUME CallConstants, NEW n \in Nat \ {0}, n <= MaxMalloc + 3, NEW k \in 0..Width,
         2 ^ k >= 4, 2 ^ k \in E!uptr, NEW z, NEW r \in E!Combined(n, 2 ^ k, z)
  PROVE  Fitting(r, n, 2 ^ k, z)
<1>1. PICK a \in Nat \ {0} : a = 2 ^ k /\ a >= 4 /\ a \in E!uptr
  BY DEF CallConstants
<1>2. PICK m \in Nat \ {0} : m = 2 ^ Width
  BY DEF CallConstants
<1>3. /\ MallocPage \in Nat \ {0} /\ LargeHeader \in Nat /\ LargeAlignment \in Nat
      /\ MaxMalloc \in Nat /\ MaxMalloc + 3 + LargeHeader + MallocPage < m
      /\ WordSize \in 1..3 /\ Classes \subseteq Nat
  BY PageIs, <1>2 DEF CallConstants
<1>4. n < m /\ n \in E!uptr /\ n + LargeHeader + MallocPage - 1 < m
  <2>1. n < m /\ n + LargeHeader + MallocPage - 1 < m
    BY <1>3
  <2> QED
    BY <2>1, <1>2 DEF E!uptr
<1>5. a > WordSize
  BY <1>1, <1>3
<1> DEFINE rounded == E!RoundUpTo(n, a)
           class == {c \in Classes : c >= rounded}
           large == E!PowerIn(LargeAlignment + LargeHeader)
<1>6. \/ E!Wrapped(n + a) < n /\ r = E!Null
      \/ ~(E!Wrapped(n + a) < n) /\ class # {} /\ r = E!Block(E!Min(class), E!PowerIn(E!Min(class)), z)
      \/ ~(E!Wrapped(n + a) < n) /\ class = {} /\ r = E!Died
      \/ /\ ~(E!Wrapped(n + a) < n) /\ class = {} /\ large >= a
         /\ r = E!Block(E!RoundUpTo(n + LargeHeader, MallocPage) - LargeHeader, large, z)
  BY <1>1, <1>5 DEF E!Combined
<1>7. CASE n + a >= m
  <2>1. E!Wrapped(n + a) < n
    BY <1>7, <1>1, <1>2, <1>4, Wraps
  <2>2. r = E!Null
    <3> HIDE DEF class, large
    <3> QED
      BY <1>6, <2>1
  <2> QED
    BY <2>2 DEF Fitting
<1>8. CASE n + a < m
  <2>1. E!Wrapped(n + a) = n + a
    BY <1>8, <1>1, <1>2, Unwrapped
  <2>2. ~(E!Wrapped(n + a) < n)
    BY <2>1, <1>1
  <2>3. /\ rounded \in Nat /\ rounded >= n /\ \E q \in Nat : rounded = q * a
    <3>1. n + a - 1 < 2 ^ Width
      BY <1>8, <1>1, <1>2
    <3> QED
      BY <3>1, <1>1, RoundsUp
  <2>4. PICK q \in Nat : rounded = q * a
    BY <2>3
  <2>5. q # 0
    <3>1. q = 0 => q * a = 0
      BY <1>1
    <3> HIDE DEF rounded
    <3> QED
      BY <3>1, <2>3, <2>4
  <2>6. CASE class # {}
    <3>1. r = E!Block(E!Min(class), E!PowerIn(E!Min(class)), z)
      <4> HIDE DEF class, large
      <4> QED
        BY <1>6, <2>2, <2>6
    <3>2. E!Min(class) \in class
      <4>1. class \in SUBSET Nat
        BY <1>3
      <4>2. PICK x \in class : \A y \in class : x <= y
        <5> HIDE DEF class
        <5> QED
          BY <4>1, <2>6, LeastExists
      <4> HIDE DEF class
      <4> QED
        BY <4>2 DEF E!Min
    <3>3. E!Min(class) \in Nat /\ E!Min(class) >= n
      <4>1. E!Min(class) \in Nat /\ E!Min(class) >= rounded
        BY <3>2, <1>3
      <4> HIDE DEF rounded, class
      <4> QED
        BY <4>1, <2>3
    <3>4. E!Min(class) % 2 ^ k = 0
      <4>1. class = {c \in Classes : c >= q * 2 ^ k}
        BY <2>4, <1>1
      <4>2. q \in Nat \ {0}
        BY <2>5
      <4>3. LET fitting == {c \in Classes : c >= q * 2 ^ k}
            IN  fitting # {} => E!Min(fitting) % 2 ^ k = 0
        BY <4>2 DEF CallConstants
      <4> HIDE DEF class
      <4> QED
        BY <4>1, <4>3, <2>6
    <3>5. PICK c \in Nat : c = E!Min(class)
      BY <3>3
    <3>6. E!PowerIn(c) \in Nat /\ E!PowerIn(c) >= 2 ^ k
      BY <3>4, <3>5, PowerInIs
    <3> HIDE DEF class
    <3> QED
      BY <3>1, <3>3, <3>5, <3>6 DEF Fitting
  <2>7. CASE class = {}
    <3>1. \/ r = E!Died
          \/ large >= a /\ r = E!Block(E!RoundUpTo(n + LargeHeader, MallocPage) - LargeHeader, large, z)
      <4> HIDE DEF class, large
      <4> QED
        BY <1>6, <2>2, <2>7
    <3>2. CASE r = E!Died
      BY <3>2 DEF Fitting
    <3>3. CASE large >= a /\ r = E!Block(E!RoundUpTo(n + LargeHeader, MallocPage) - LargeHeader, large, z)
      <4>1. PICK h \in Nat : h = n + LargeHeader
        BY <1>3
      <4>2. h + MallocPage - 1 < 2 ^ Width
        BY <4>1, <1>4, <1>2
      <4>3. E!RoundUpTo(h, MallocPage) \in Nat /\ E!RoundUpTo(h, MallocPage) >= h
        BY <4>2, <1>3, RoundsUp
      <4>4. PICK b \in Nat : b = E!RoundUpTo(n + LargeHeader, MallocPage) - LargeHeader /\ b >= n
        BY <4>1, <4>3, <1>3
      <4>5. large \in Nat
        <5>1. PICK l \in Nat : l = LargeAlignment + LargeHeader
          BY <1>3
        <5>2. l % 2 ^ 0 = 0 /\ 0 \in 0..Width
          BY DEF CallConstants
        <5>3. E!PowerIn(l) \in Nat
          BY <5>2, PowerInIs
        <5> QED
          BY <5>1, <5>3
      <4> HIDE DEF large
      <4> QED
        BY <3>3, <4>4, <4>5, <1>1 DEF Fitting
    <3> QED
      BY <3>1, <3>2, <3>3
  <2> QED
    BY <2>6, <2>7
<1> QED
  BY <1>1, <1>2, <1>7, <1>8

Aligned(a) == a \in E!uptr /\ a \in Nat \ {0} /\ (a < 4 \/ \E k \in 0..Width : a = 2 ^ k)

Outcome(r, size_, align_, zero_) ==
  \/ r = E!Null \/ r = E!Died
  \/ \E bytes, al \in Nat :
       r = E!Block(bytes, al, zero_) /\ bytes >= size_ /\ bytes > 0 /\ al >= align_

LEMMA AllocateFits ==
  ASSUME CallConstants, NEW n \in Nat, NEW a, Aligned(a), NEW zeroise \in BOOLEAN,
         NEW r \in E!Allocate(n, a, zeroise)
  PROVE  \E z \in Nat : Outcome(r, n, a, z) /\ (zeroise => z >= n)
<1>1. CASE n > MaxMalloc \/ overRss
  <2>1. r = E!MayBeNull
    BY <1>1 DEF E!Allocate
  <2> QED
    BY <2>1 DEF E!MayBeNull, Outcome
<1>2. CASE ~(n > MaxMalloc \/ overRss)
  <2>1. PICK m \in Nat : m = 2 ^ Width
    BY DEF CallConstants
  <2>2. MallocPage \in Nat \ {0} /\ LargeHeader \in Nat /\ MaxMalloc \in Nat \ {0}
        /\ MaxMalloc + 3 + LargeHeader + MallocPage < m
    BY <2>1, PageIs DEF CallConstants
  <2>3. PICK s \in Nat \ {0} : s = (IF n = 0 THEN 1 ELSE n) /\ s >= n /\ s <= MaxMalloc
    BY <1>2, <2>2
  <2>4. s + 4 - 1 < 2 ^ Width
    BY <2>1, <2>2, <2>3
  <2>5. PICK t \in Nat : t = E!RoundUpTo(s, 4) /\ t >= s /\ t <= s + 4 - 1
    BY <2>4, RoundsUp
  <2>6. t \in Nat \ {0} /\ t <= MaxMalloc + 3 /\ t >= n
    BY <2>5, <2>3, <2>2
  <2>7. E!TaggedSize(n) = t
    BY <2>3, <2>5 DEF E!TaggedSize
  <2>8. PICK k \in 0..Width : E!Max({a, 4}) = 2 ^ k /\ 2 ^ k >= 4 /\ 2 ^ k \in E!uptr /\ 2 ^ k >= a
    <3>1. a \in Nat
      BY DEF Aligned
    <3>2. E!Max({a, 4}) \in {a, 4} /\ \A y \in {a, 4} : E!Max({a, 4}) >= y
      <4>1. \E x \in {a, 4} : \A y \in {a, 4} : x >= y
        BY <3>1
      <4> QED
        BY <4>1 DEF E!Max
    <3>3. CASE a < 4
      <4>1. E!Max({a, 4}) = 4
        BY <3>1, <3>2, <3>3
      <4>2. PICK k \in 0..Width : k = 2
        BY DEF CallConstants
      <4>5. 2 ^ k = 4
        <5>1. PowerOfTwo(2) = 4 /\ PowerOfTwo(k) = 2 ^ k
          BY DEF PowerOfTwo
        <5> QED
          BY <5>1, <4>2
      <4>3. 4 \in E!uptr
        BY <2>1, <2>2 DEF E!uptr
      <4> QED
        BY <4>1, <4>5, <4>3, <3>1, <3>3
    <3>4. CASE a >= 4
      <4>1. E!Max({a, 4}) = a
        BY <3>1, <3>2, <3>4
      <4>2. PICK k \in 0..Width : a = 2 ^ k
        BY <3>1, <3>4 DEF Aligned
      <4> QED
        BY <4>1, <4>2, <3>1, <3>4 DEF Aligned
    <3> QED
      BY <3>1, <3>3, <3>4
  <2>9. PICK z \in Nat : z = (IF zeroise THEN t ELSE 0)
    OBVIOUS
  <2>10. r \in E!Combined(t, 2 ^ k, z)
    <3>1. E!Allocate(n, a, zeroise) = E!Combined(E!TaggedSize(n), E!Max({a, 4}), IF zeroise THEN E!TaggedSize(n) ELSE 0)
      BY <1>2 DEF E!Allocate
    <3> QED
      BY <3>1, <2>7, <2>8, <2>9
  <2>11. Fitting(r, t, 2 ^ k, z)
    BY <2>6, <2>8, <2>10, CombinedFits
  <2>12. PICK b \in Nat : b = 2 ^ k /\ b >= a /\ a \in Nat
    BY <2>8 DEF CallConstants, Aligned
  <2>13. Outcome(r, n, a, z)
    <3>1. ASSUME NEW bytes \in Nat, NEW al \in Nat, bytes >= t, al >= b
          PROVE  bytes >= n /\ bytes > 0 /\ al >= a
      BY <3>1, <2>6, <2>12
    <3> QED
      BY <2>11, <2>12, <3>1 DEF Fitting, Outcome
  <2> QED
    BY <2>13, <2>9, <2>6
<1> QED
  BY <1>1, <1>2

(* What AnswersFit and OldKept say of a call c, its answer a and what became  *)
(* of the old block, o.                                                     *)
Fits(c, a) ==
  LET r == a.result
  IN  /\ r \notin {E!Null, E!Died} =>
           /\ r.bytes >= c.n * c.size /\ r.bytes > 0
           /\ c.name \in {"memalign", "aligned_alloc", "posix_memalign"} =>
                E!IsPowerOfTwo(c.align) /\ r.align >= c.align
           /\ c.name \in {"valloc", "pvalloc"} => r.align >= MallocPage
           /\ c.name = "calloc" => r.zero >= c.n * c.size
           /\ a.errno = None
      /\ r = E!Null => (a.errno # None <=> ~(c.name \in {"realloc", "reallocarray"}
                                             /\ c.n * c.size = 0))

Kept(c, a, o) ==
  o = None <=> /\ c.name \in {"realloc", "reallocarray"}
               /\ (a.result \notin {E!Died, E!Null} \/ c.n * c.size = 0)

LEMMA Distinct ==
  /\ E!Null # E!Died
  /\ \A b, al, z : /\ E!Block(b, al, z) # E!Null /\ E!Block(b, al, z) # E!Died
                   /\ E!Block(b, al, z).bytes = b /\ E!Block(b, al, z).align = al
                   /\ E!Block(b, al, z).zero = z
  /\ \A r, e : E!Answer(r, e).result = r /\ E!Answer(r, e).errno = e
<1>1. E!Null # E!Died
  BY DEF E!Null, E!Died
<1>2. ASSUME NEW b, NEW al, NEW z PROVE E!Block(b, al, z) # E!Null /\ E!Block(b, al, z) # E!Died
  BY DEF E!Null, E!Died, E!Block
<1>3. ASSUME NEW b, NEW al, NEW z
      PROVE  E!Block(b, al, z).bytes = b /\ E!Block(b, al, z).align = al /\ E!Block(b, al, z).zero = z
  BY DEF E!Block
<1>4. ASSUME NEW r, NEW e PROVE E!Answer(r, e).result = r /\ E!Answer(r, e).errno = e
  BY DEF E!Answer
<1> QED
  BY <1>1, <1>2, <1>3, <1>4

(* What a call has HwasanAllocate give it. *)
Asks(c, s, al, zeroise) ==
  /\ c.n * c.size \in Nat /\ c.n * c.size <= s
  /\ c.name \in {"memalign", "aligned_alloc", "posix_memalign"} =>
       E!IsPowerOfTwo(c.align) /\ c.align = al
  /\ c.name \in {"valloc", "pvalloc"} => al = MallocPage
  /\ c.name = "calloc" => zeroise
  /\ c.name \in {"realloc", "reallocarray"} => c.n * c.size # 0

(* An answer of HwasanAllocate through SetErrnoOnNull. *)
LEMMA AnswerFits ==
  ASSUME CallConstants, NEW c, NEW s \in Nat, NEW al, Aligned(al), NEW zeroise \in BOOLEAN,
         Asks(c, s, al, zeroise), NEW a \in E!WithErrno(E!Allocate(s, al, zeroise))
  PROVE  Fits(c, a) /\ \E r : a.result = r /\ a # None
<1> USE DEF Asks
<1>0. PICK n \in Nat : n = c.n * c.size /\ n <= s
  OBVIOUS
<1>1. PICK r \in E!Allocate(s, al, zeroise) : a = E!Answer(r, IF r = E!Null THEN "ENOMEM" ELSE None)
  BY DEF E!WithErrno
<1>2. PICK z \in Nat : Outcome(r, s, al, z) /\ (zeroise => z >= s)
  BY AllocateFits
<1>3. a.result = r /\ a.errno = (IF r = E!Null THEN "ENOMEM" ELSE None) /\ a # None /\ None # "ENOMEM"
  BY <1>1, Distinct DEF CallConstants
<1>4. al \in Nat
  BY DEF Aligned
<1>5. ASSUME r \notin {E!Null, E!Died}
      PROVE  r.bytes >= n /\ r.bytes > 0 /\ r.align >= al /\ (zeroise => r.zero >= n)
  <2>1. PICK bytes \in Nat, b \in Nat : r = E!Block(bytes, b, z) /\ bytes >= s /\ bytes > 0 /\ b >= al
    BY <1>2, <1>5 DEF Outcome
  <2>2. r.bytes = bytes /\ r.align = b /\ r.zero = z
    BY <2>1, Distinct
  <2> QED
    BY <1>0, <2>1, <2>2, <1>2
<1>6. CASE r = E!Null
  BY <1>0, <1>3, <1>6 DEF Fits
<1>7. CASE r = E!Died
  BY <1>3, <1>7, Distinct DEF Fits
<1>8. CASE r \notin {E!Null, E!Died}
  BY <1>0, <1>3, <1>5, <1>8 DEF Fits
<1> QED
  BY <1>3, <1>6, <1>7, <1>8

LEMMA RefusalFits ==
  ASSUME CallConstants, NEW c, NEW e \in {"ENOMEM", "EINVAL"},
         c.name \in {"realloc", "reallocarray"} => c.n * c.size # 0,
         NEW a \in E!Refuse(e)
  PROVE  Fits(c, a) /\ a.result \in {E!Null, E!Died} /\ a # None
<1>1. a = E!Answer(E!MayBeNull, e)
  BY DEF E!Refuse
<1>2. PICK r : r = E!MayBeNull /\ r \in {E!Null, E!Died}
  BY DEF E!MayBeNull
<1>3. a.result = r /\ a.errno = e /\ a # None /\ e # None
  BY <1>1, <1>2, Distinct DEF CallConstants
<1> QED
  BY <1>2, <1>3, Distinct DEF Fits

(* Products *)
LEMMA NoOverflow ==
  ASSUME CallConstants, NEW n \in E!uptr, NEW s \in E!uptr, ~E!CallocOverflow(n, s)
  PROVE  n * s \in Nat /\ E!Wrapped(n * s) = n * s
<1>1. PICK m \in Nat \ {0} : m = 2 ^ Width
  BY DEF CallConstants
<1>2. n \in Nat /\ s \in Nat
  BY <1>1 DEF E!uptr
<1>3. PICK p \in Nat : p = n * s
  BY <1>2
<1>4. p < m
  <2>1. CASE s = 0
    BY <2>1, <1>1, <1>2, <1>3
  <2>2. CASE s # 0
    <3>1. PICK M \in Nat : M = m - 1
      BY <1>1
    <3>2. ~(M \div s < n)
      BY <2>2, <3>1, <1>1 DEF E!CallocOverflow
    <3>3. PICK q \in Nat : M \div s = q /\ q * s <= M
      BY <2>2, <1>2, Multiples
    <3>4. PICK d \in Nat : q = n + d
      <4>1. n <= q
        BY <3>2, <3>3, <1>2
      <4>2. q - n \in Nat /\ q = n + (q - n)
        BY <4>1, <1>2
      <4> QED
        BY <4>2
    <3>5. PICK e \in Nat : e = d * s
      BY <1>2
    <3>6. q * s = p + e
      BY <3>4, <3>5, <1>2, <1>3, Z3
    <3> QED
      BY <3>1, <3>3, <3>5, <3>6, <1>1
  <2> QED
    BY <2>1, <2>2
<1> QED
  BY <1>1, <1>3, <1>4, Unwrapped

LEMMA Overflow ==
  ASSUME CallConstants, NEW n \in E!uptr, NEW s \in E!uptr, E!CallocOverflow(n, s)
  PROVE  n * s # 0
<1>1. PICK m \in Nat \ {0} : m = 2 ^ Width
  BY DEF CallConstants
<1>2. n \in Nat /\ s \in Nat \ {0} /\ (m - 1) \div s < n
  BY <1>1 DEF E!uptr, E!CallocOverflow
<1>3. PICK M \in Nat : M = m - 1
  BY <1>1
<1>4. n \in Nat \ {0}
  BY <1>2, <1>3, Multiples
<1>5. PICK k \in Nat : n = k + 1
  <2>1. n - 1 \in Nat /\ n = (n - 1) + 1
    BY <1>4
  <2> QED
    BY <2>1
<1>6. PICK p \in Nat : p = k * s
  BY <1>2
<1>7. n * s = p + s
  BY <1>5, <1>6, <1>2, Z3
<1> QED
  BY <1>2, <1>6, <1>7

LEMMA PvallocRounds ==
  ASSUME CallConstants, NEW s \in E!uptr, ~E!PvallocOverflow(s)
  PROVE  E!RoundUpTo(s, MallocPage) \in Nat /\ E!RoundUpTo(s, MallocPage) >= s
<1>1. PICK m \in Nat \ {0} : m = 2 ^ Width
  BY DEF CallConstants
<1>2. MallocPage \in Nat \ {0} /\ MallocPage < m /\ s \in Nat /\ s < m
  BY <1>1, PageIs DEF E!uptr
<1>3. CASE s + MallocPage - 1 < m
  BY <1>1, <1>2, <1>3, RoundsUp
<1>4. CASE s + MallocPage - 1 >= m
  <2>1. PICK b \in E!uptr : b = MallocPage - 1 /\ b \in Nat /\ b < MallocPage
    BY <1>1, <1>2 DEF E!uptr
  <2>2. s + MallocPage - 1 = s + b
    BY <2>1, <1>2
  <2>3. PICK w : w = E!Wrapped(s + b)
    OBVIOUS
  <2>4. w = s + b - m /\ w < b
    BY <2>2, <2>3, <1>1, <1>4, Wraps
  <2>5. w \in Nat /\ w < MallocPage
    BY <2>1, <2>2, <2>4, <1>1, <1>2, <1>4
  <2>6. w \div MallocPage = 0
    BY <2>5, <1>2
  <2>7. E!RoundUpTo(s, MallocPage) = 0
    BY <2>2, <2>3, <2>6, <1>2 DEF E!RoundUpTo
  <2>8. s > 0
    BY <1>2, <1>4
  <2> QED
    BY <2>7, <2>8 DEF E!PvallocOverflow
<1> QED
  BY <1>3, <1>4, <1>2

CallInv ==
  /\ call \in E!Call
  /\ answer = None => oldBlock = 3
  /\ answer # None => Fits(call, answer) /\ Kept(call, answer, oldBlock)

LEMMA AlignedWord == ASSUME CallConstants PROVE Aligned(WordSize)
<1>1. PICK m \in Nat : m = 2 ^ Width
  BY DEF CallConstants
<1>2. WordSize \in 1..3 /\ 3 < m
  BY <1>1, PageIs DEF CallConstants
<1> QED
  BY <1>1, <1>2 DEF Aligned, E!uptr

LEMMA AlignedPage == ASSUME CallConstants PROVE Aligned(MallocPage)
BY PageIs DEF Aligned, CallConstants

LEMMA AlignedPower ==
  ASSUME CallConstants, NEW a \in Alignments, E!IsPowerOfTwo(a)
  PROVE  Aligned(a)
<1>1. PICK k \in 0..Width - 1 : a = 2 ^ k
  BY DEF E!IsPowerOfTwo
<1>2. k \in 0..Width
  BY DEF CallConstants
<1>3. a \in Nat \ {0}
  BY <1>1, <1>2 DEF CallConstants
<1>4. a \in E!uptr
  BY DEF CallConstants
<1> QED
  BY <1>1, <1>2, <1>3, <1>4 DEF Aligned

LEMMA NumbersAre ==
  ASSUME CallConstants, call \in E!Call
  PROVE  /\ call.n \in Nat /\ call.size \in Nat /\ call.size \in E!uptr
         /\ call.name \in {"calloc", "reallocarray"} => call.n \in E!uptr
         /\ call.name \notin {"calloc", "reallocarray"} => call.n = 1 /\ call.n * call.size = call.size
         /\ call.name \in {"memalign", "aligned_alloc", "posix_memalign"} => call.align \in Alignments
<1>1. PICK m \in Nat \ {0} : m = 2 ^ Width
  BY DEF CallConstants
<1>2. E!uptr \subseteq Nat
  BY <1>1 DEF E!uptr
<1>3. call.size \in Numbers
  BY DEF E!Call
<1>4. call.size \in E!uptr /\ call.size \in Nat
  BY <1>2, <1>3 DEF CallConstants
<1>5. call.name \in {"calloc", "reallocarray"} => call.n \in Numbers
  BY DEF E!Call
<1>6. call.name \notin {"calloc", "reallocarray"} => call.n = 1
  BY DEF E!Call
<1>7. call.name \in {"memalign", "aligned_alloc", "posix_memalign"} => call.align \in Alignments
  BY DEF E!Call
<1>8. call.n = 1 => call.n * call.size = call.size
  BY <1>4
<1>9. call.name \in {"calloc", "reallocarray"} => call.n \in E!uptr /\ call.n \in Nat
  BY <1>5, <1>2 DEF CallConstants
<1> QED
  BY <1>4, <1>6, <1>7, <1>8, <1>9

(* A call other than realloc and reallocarray ends with an answer. *)
LEMMA Concludes ==
  ASSUME CallInv, answer = None, NEW a, Fits(call, a), a # None, answer' = a,
         call.name \notin {"realloc", "reallocarray"}, UNCHANGED <<call, oldBlock>>,
         CallConstants
  PROVE  CallInv'
<1>1. oldBlock' = 3 /\ 3 # None
  BY DEF CallInv, CallConstants
<1>2. Kept(call, a, 3)
  BY <1>1 DEF Kept
<1>3. call' = call /\ call \in E!Call
  BY DEF CallInv
<1>4. E!Call' = E!Call
  BY DEF E!Call
<1> QED
  BY <1>1, <1>2, <1>3, <1>4 DEF CallInv

LEMMA MallocCalls ==
  ASSUME CallConstants, CallInv, E!Malloc \/ E!Valloc
  PROVE  CallInv'
<1>1. answer = None /\ UNCHANGED <<call, oldBlock>> /\ call \in E!Call
  BY DEF E!Malloc, E!Valloc, E!Called, E!Ends, CallInv
<1>2. PICK c : c = call
  OBVIOUS
<1>3. PICK n \in Nat : n = c.size /\ c.n * c.size = n
  BY <1>1, <1>2, NumbersAre DEF E!Malloc, E!Valloc, E!Called
<1>4. PICK a : a = answer'
  OBVIOUS
<1>5. CASE E!Malloc
  <2>1. c.name = "malloc" /\ a \in E!WithErrno(E!Allocate(n, WordSize, FALSE))
    BY <1>2, <1>3, <1>4, <1>5 DEF E!Malloc, E!Called, E!Ends
  <2>2. Fits(c, a) /\ a # None
    <3>1. Asks(c, n, WordSize, FALSE)
      BY <1>3, <2>1 DEF Asks
    <3> QED
      BY <3>1, <2>1, AlignedWord, AnswerFits
  <2> QED
    BY <2>1, <2>2, <1>1, <1>2, <1>4, Concludes
<1>6. CASE E!Valloc
  <2>1. c.name = "valloc" /\ a \in E!WithErrno(E!Allocate(n, MallocPage, FALSE))
    BY <1>2, <1>3, <1>4, <1>6 DEF E!Valloc, E!Called, E!Ends
  <2>2. Fits(c, a) /\ a # None
    <3>1. Asks(c, n, MallocPage, FALSE)
      BY <1>3, <2>1 DEF Asks
    <3> QED
      BY <3>1, <2>1, AlignedPage, AnswerFits
  <2> QED
    BY <2>1, <2>2, <1>1, <1>2, <1>4, Concludes
<1> QED
  BY <1>5, <1>6

LEMMA AlignedCalls ==
  ASSUME CallConstants, CallInv, E!Memalign \/ E!AlignedAlloc \/ E!PosixMemalign
  PROVE  CallInv'
<1>1. answer = None /\ UNCHANGED <<call, oldBlock>> /\ call \in E!Call
      /\ call.name \in {"memalign", "aligned_alloc", "posix_memalign"}
  BY DEF E!Memalign, E!AlignedAlloc, E!PosixMemalign, E!Called, E!Ends, CallInv
<1>2. PICK c : c = call /\ c.name \in {"memalign", "aligned_alloc", "posix_memalign"}
  BY <1>1
<1>3. PICK n \in Nat : n = c.size /\ c.n * c.size = n /\ c.align \in Alignments
  BY <1>1, <1>2, NumbersAre
<1>4. PICK a : a = answer'
  OBVIOUS
<1>5. \/ E!IsPowerOfTwo(c.align) /\ a \in E!WithErrno(E!Allocate(n, c.align, FALSE))
      \/ a \in E!Refuse("EINVAL")
  <2>1. \/ E!IsPowerOfTwo(c.align) /\ answer' \in E!WithErrno(E!Allocate(n, c.align, FALSE))
        \/ answer' \in E!Refuse("EINVAL")
    <3>1. CASE E!Memalign
      BY <3>1, <1>2, <1>3 DEF E!Memalign, E!Ends
    <3>2. CASE E!AlignedAlloc
      BY <3>2, <1>2, <1>3 DEF E!AlignedAlloc, E!Ends, E!AlignedAllocFits
    <3>3. CASE E!PosixMemalign
      BY <3>3, <1>2, <1>3 DEF E!PosixMemalign, E!Ends, E!PosixMemalignFits, E!WithErrno
    <3> QED
      BY <3>1, <3>2, <3>3
  <2> QED
    BY <2>1, <1>4
<1>6. CASE a \in E!Refuse("EINVAL")
  <2>1. Fits(c, a) /\ a # None
    BY <1>2, <1>6, RefusalFits
  <2> QED
    BY <2>1, <1>1, <1>2, <1>4, Concludes
<1>7. CASE E!IsPowerOfTwo(c.align) /\ a \in E!WithErrno(E!Allocate(n, c.align, FALSE))
  <2>1. PICK al \in Alignments : al = c.align /\ E!IsPowerOfTwo(al)
    BY <1>3, <1>7
  <2>2. Aligned(al)
    BY <2>1, AlignedPower
  <2>3. Fits(c, a) /\ a # None
    <3>1. Asks(c, n, al, FALSE)
      BY <1>2, <1>3, <1>7, <2>1 DEF Asks
    <3> QED
      BY <3>1, <2>1, <2>2, <1>7, AnswerFits
  <2> QED
    BY <2>3, <1>1, <1>2, <1>4, Concludes
<1> QED
  BY <1>5, <1>6, <1>7

LEMMA CallocCalls == ASSUME CallConstants, CallInv, E!Calloc PROVE CallInv'
<1>1. answer = None /\ UNCHANGED <<call, oldBlock>> /\ call \in E!Call /\ call.name = "calloc"
  BY DEF E!Calloc, E!Called, E!Ends, CallInv
<1>2. PICK c : c = call /\ c.name = "calloc"
  BY <1>1
<1>3. PICK n \in E!uptr, s \in E!uptr : n = c.n /\ s = c.size
  BY <1>1, <1>2, NumbersAre
<1>4. PICK a : a = answer'
  OBVIOUS
<1>5. CASE E!CallocOverflow(n, s)
  <2>1. a \in E!WithErrno({E!MayBeNull})
    BY <1>2, <1>3, <1>4, <1>5 DEF E!Calloc, E!Ends
  <2>2. PICK r : r \in {E!Null, E!Died} /\ a = E!Answer(r, IF r = E!Null THEN "ENOMEM" ELSE None)
    BY <2>1 DEF E!WithErrno, E!MayBeNull
  <2>3. a.result = r /\ a.errno = (IF r = E!Null THEN "ENOMEM" ELSE None) /\ a # None /\ None # "ENOMEM"
    BY <2>2, Distinct DEF CallConstants
  <2>4. Fits(c, a)
    BY <2>2, <2>3, <1>2, Distinct DEF Fits
  <2> QED
    BY <2>3, <2>4, <1>1, <1>2, <1>4, Concludes
<1>6. CASE ~E!CallocOverflow(n, s)
  <2>1. PICK p \in Nat : p = n * s /\ E!Wrapped(n * s) = p
    BY <1>6, NoOverflow
  <2>2. a \in E!WithErrno(E!Allocate(p, WordSize, TRUE))
    BY <2>1, <1>2, <1>3, <1>4, <1>6 DEF E!Calloc, E!Ends
  <2>3. c.n * c.size = p
    BY <2>1, <1>3
  <2>4. Fits(c, a) /\ a # None
    <3>1. Asks(c, p, WordSize, TRUE)
      BY <1>2, <2>3 DEF Asks
    <3> QED
      BY <3>1, <2>2, AlignedWord, AnswerFits
  <2> QED
    BY <2>4, <1>1, <1>2, <1>4, Concludes
<1> QED
  BY <1>5, <1>6

LEMMA PvallocCalls == ASSUME CallConstants, CallInv, E!Pvalloc PROVE CallInv'
<1>1. answer = None /\ UNCHANGED <<call, oldBlock>> /\ call \in E!Call /\ call.name = "pvalloc"
  BY DEF E!Pvalloc, E!Called, E!Ends, CallInv
<1>2. PICK c : c = call /\ c.name = "pvalloc"
  BY <1>1
<1>3. PICK n \in Nat : n = c.size /\ c.n * c.size = n /\ n \in E!uptr
  BY <1>1, <1>2, NumbersAre
<1>4. PICK a : a = answer'
  OBVIOUS
<1>5. CASE E!PvallocOverflow(n)
  <2>1. a \in E!Refuse("ENOMEM")
    BY <1>2, <1>3, <1>4, <1>5 DEF E!Pvalloc, E!Ends
  <2>2. Fits(c, a) /\ a # None
    BY <1>2, <2>1, RefusalFits
  <2> QED
    BY <2>2, <1>1, <1>2, <1>4, Concludes
<1>6. CASE ~E!PvallocOverflow(n)
  <2>1. PICK s \in Nat : s = (IF n = 0 THEN MallocPage ELSE E!RoundUpTo(n, MallocPage)) /\ n <= s
    <3>1. CASE n = 0
      BY <3>1, PageIs
    <3>2. CASE n # 0
      BY <3>2, <1>3, <1>6, PvallocRounds
    <3> QED
      BY <3>1, <3>2
  <2>2. a \in E!WithErrno(E!Allocate(s, MallocPage, FALSE))
    BY <2>1, <1>2, <1>3, <1>4, <1>6 DEF E!Pvalloc, E!Ends
  <2>3. Fits(c, a) /\ a # None
    <3>1. Asks(c, s, MallocPage, FALSE)
      BY <1>2, <1>3, <2>1 DEF Asks
    <3> QED
      BY <3>1, <2>2, AlignedPage, AnswerFits
  <2> QED
    BY <2>3, <1>1, <1>2, <1>4, Concludes
<1> QED
  BY <1>5, <1>6

LEMMA ReallocCalls ==
  ASSUME CallConstants, CallInv, E!Realloc \/ E!Reallocarray
  PROVE  CallInv'
<1>1. answer = None /\ call' = call /\ call \in E!Call /\ oldBlock = 3 /\ 3 # None
      /\ call.name \in {"realloc", "reallocarray"}
  BY DEF E!Realloc, E!Reallocarray, E!ReallocTo, E!Called, E!Ends, CallInv, CallConstants
<1>2. PICK c : c = call /\ c.name \in {"realloc", "reallocarray"}
  BY <1>1
<1>3. PICK a, o : a = answer' /\ o = oldBlock'
  OBVIOUS
<1>4. E!Call' = E!Call
  BY DEF E!Call
<1>5. SUFFICES Fits(c, a) /\ Kept(c, a, o) /\ a # None
  BY <1>1, <1>2, <1>3, <1>4 DEF CallInv
<1>6. \/ a \in E!Refuse("ENOMEM") /\ o = 3 /\ c.n * c.size # 0
      \/ \E p \in Nat : p = c.n * c.size /\ E!ReallocTo(p)
  <2>1. CASE E!Realloc
    <3>1. c.size \in Nat /\ c.n * c.size = c.size
      <4>1. call.name = "realloc"
        BY <2>1 DEF E!Realloc, E!Called
      <4> QED
        BY <4>1, <1>1, <1>2, NumbersAre
    <3> QED
      BY <2>1, <3>1, <1>2 DEF E!Realloc
  <2>2. CASE E!Reallocarray
    <3>1. c.name = "reallocarray"
      BY <2>2, <1>2 DEF E!Reallocarray, E!Called
    <3>2. PICK n \in E!uptr, s \in E!uptr : n = c.n /\ s = c.size
      BY <3>1, <1>1, <1>2, NumbersAre
    <3>3. CASE E!CallocOverflow(n, s)
      <4>1. a \in E!Refuse("ENOMEM") /\ o = 3
        BY <3>2, <3>3, <2>2, <1>1, <1>2, <1>3 DEF E!Reallocarray, E!Ends
      <4>2. c.n * c.size # 0
        BY <3>2, <3>3, Overflow
      <4> QED
        BY <4>1, <4>2
    <3>4. CASE ~E!CallocOverflow(n, s)
      <4>1. E!ReallocTo(E!Wrapped(n * s))
        BY <3>2, <3>4, <2>2, <1>2 DEF E!Reallocarray
      <4>2. n * s \in Nat /\ E!Wrapped(n * s) = n * s
        BY <3>4, NoOverflow
      <4> QED
        BY <4>1, <4>2, <3>2
    <3> QED
      BY <3>3, <3>4
  <2> QED
    BY <2>1, <2>2
<1>7. CASE a \in E!Refuse("ENOMEM") /\ o = 3 /\ c.n * c.size # 0
  <2>1. Fits(c, a) /\ a.result \in {E!Null, E!Died} /\ a # None
    BY <1>7, RefusalFits
  <2> QED
    BY <2>1, <1>1, <1>7 DEF Kept
<1>8. ASSUME NEW p \in Nat, p = c.n * c.size, E!ReallocTo(p)
      PROVE  Fits(c, a) /\ Kept(c, a, o) /\ a # None
  <2>1. CASE p = 0
    <3>1. a = E!Answer(E!Null, None) /\ o = None
      BY <2>1, <1>3, <1>8 DEF E!ReallocTo
    <3>2. a.result = E!Null /\ a.errno = None /\ a # None
      BY <3>1, Distinct DEF CallConstants
    <3> QED
      BY <3>1, <3>2, <2>1, <1>2, <1>8 DEF Fits, Kept
  <2>2. CASE p # 0
    <3>1. a \in E!WithErrno(E!Allocate(p, WordSize, FALSE))
          /\ o = (IF a.result \in {E!Null, E!Died} THEN 3 ELSE None)
      BY <2>2, <1>1, <1>3, <1>8 DEF E!ReallocTo, E!Reallocated
    <3>2. Fits(c, a) /\ a # None
      <4>1. Asks(c, p, WordSize, FALSE)
        BY <1>2, <1>8, <2>2 DEF Asks
      <4> QED
        BY <4>1, <3>1, AlignedWord, AnswerFits
    <3>3. Kept(c, a, o)
      BY <3>1, <2>2, <1>1, <1>2, <1>8 DEF Kept
    <3> QED
      BY <3>2, <3>3
  <2> QED
    BY <2>1, <2>2
<1> QED
  BY <1>6, <1>7, <1>8

CallingInv == Calling => CallInv

(* See CallsExact: a block has as many bytes as the arguments ask for,       *)
(* whatever overflows on the way, and a realloc that fails leaves the old     *)
(* one.                                                                    *)
THEOREM CallsExactAlways == ASSUME CallConstants PROVE MCSpec => []CallsExact
<1>1. MCInit => CallingInv
  BY DEF MCInit, CallingInv, Calling, E!Init, CallInv
<1>2. CallingInv /\ [MCNext]_<<part, runVars, buildVars>> => CallingInv'
  <2> SUFFICES ASSUME CallingInv, [MCNext]_<<part, runVars, buildVars>>, Calling'
               PROVE  CallInv'
    BY DEF CallingInv
  <2>1. Calling /\ CallInv
    BY DEF CallingInv, Calling, MCNext, Running, Building
  <2>2. E!Next \/ UNCHANGED callVars
    BY <2>1 DEF Checking, Holding, Dangling, Calling, MCNext, Running, Building, runVars
  <2>3. CASE UNCHANGED callVars
    <3>1. call' = call /\ answer' = answer /\ oldBlock' = oldBlock
      BY <2>3 DEF callVars
    <3> QED
      BY <2>1, <3>1 DEF CallInv, E!Call, Fits, Kept, E!IsPowerOfTwo, E!Null, E!Died
  <2>4. CASE E!Next
    BY <2>1, <2>4, MallocCalls, AlignedCalls, CallocCalls, PvallocCalls, ReallocCalls DEF E!Next
  <2> QED
    BY <2>2, <2>3, <2>4
<1>3. CallingInv => CallsExact
  BY DEF CallingInv, CallsExact, CallInv, Fits, Kept, E!AnswersFit, E!OldKept, E!Asked
<1> QED
  BY <1>1, <1>2, <1>3, PTL DEF MCSpec

==============================================================================
