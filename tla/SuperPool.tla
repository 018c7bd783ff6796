------------------------------ MODULE SuperPool ------------------------------
(***************************************************************************)
(* One SuperPool of ClusterTag: the allocator of one small size class      *)
(* (sanitizer_allocator_primary64.h, sanitizer_allocator_local_cache.h).   *)
(*                                                                         *)
(* A SuperPool holds pools, a pool holds regions (the "clusters"), and a   *)
(* region holds chunks of one size behind a header.  Chunks are handed out *)
(* from one global batch, each with a tag; a freed chunk's last tag is     *)
(* kept in the header of its region.  An empty batch is refilled from the  *)
(* regions that hold freed chunks, rotating their tags among them, or else *)
(* from a new region with a random permutation of the tags 1..Available.   *)
(* Once in a while a deallocation releases the regions that are all free.  *)
(*                                                                         *)
(* The locks make every operation atomic for the others; the loops of      *)
(* CTRefillFromRegionList and CTReleasePeriodically are taken one region   *)
(* at a time, with pc telling where the operation in progress stands.      *)
(***************************************************************************)
EXTENDS Integers, FiniteSets, SequencesExt

CONSTANTS
  NumPools,         \* kSuperPoolSize / kPoolSize
  AllRegionsInPool, \* AllRegionsInPool[class_id]
  Available,        \* AvailableChunksInRegion[class_id]
  MinChunk,         \* MinChunkInPerClass[class_id]
  TriggerFree,      \* spc->trigger_free
  PoolDensity,      \* ct_pool_density
  StartSpan,        \* the random start of a refill is among this many regions
  MaxLive           \* bound: chunks the program holds at once

ASSUME SuperPoolAssumption ==
  /\ NumPools \in Nat \ {0}
  /\ AllRegionsInPool \in Nat \ {0}
  /\ Available \in 1..255
  /\ MinChunk \in Nat \ {0}
  /\ TriggerFree \in Nat \ {0}
  /\ PoolDensity \in Nat
  /\ StartSpan \in Nat \ {0}
  /\ MaxLive \in Nat

Pool == 1..NumPools

(* A region is known by its pool and its index there. *)
Region == Pool \X (1..AllRegionsInPool)

(* Chunk c is the chunk_id (256 - Available) + c - 1 of the code: the ids  *)
(* below are the header's.                                                 *)
Chunk == 1..Available
Tag == 1..Available

(* A tagged pointer: a chunk of a region and the tag in its top byte. *)
Slot == [region : Region, chunk : Chunk, tag : Tag]

VARIABLES
  poolList,     \* SuperPoolsPoolLinkedList: pools in the order of appending
  density,      \* CTPoolNode.density of each pool
  regionList,   \* SuperPoolsRegionList: the regions in use (an address-ordered
                \*   list, hence determined by its set of elements)
  freedList,    \* SuperPoolsFreedRegionList, head first
  status,       \* CTRegionInfo.status
  freedNum,     \* CTRegionInfo.freed_num
  inFreeList,   \* CTRegionInfo.in_free_list
  lastTag,      \* CTRegionInfo.chunk_last_tag, 0 for a chunk not freed
  freeChunkNum, \* CTSuperPoolChunkInfo.free_chunk_num
  regionNum,    \* CTSuperPoolChunkInfo.region_num
  freeRegionNum,\* CTSuperPoolChunkInfo.free_region_num
  batch,        \* CTPerClass.batch and chunk_tag, the entries written
  count,        \* CTPerClass.count
  elapsed,      \* last_release_at_ns + free_list_interval_ns < now
  pc,           \* where the operation in progress stands
  cursor,       \* position in freedList of the loop's cur_region
  live          \* the tagged pointers the program holds

regionVars == <<status, freedNum, inFreeList, lastTag>>
counters == <<freeChunkNum, regionNum, freeRegionNum>>
poolVars == <<poolList, density, regionList>>
cacheVars == <<batch, count>>
vars == <<poolVars, freedList, regionVars, counters, cacheVars, elapsed, pc,
          cursor, live>>

Idle == "idle"             \* no operation in progress
Refilling == "refilling"   \* in the loop of CTRefillFromRegionList
NewRegion == "newRegion"   \* CTRefill calls CTAllocateNewRegion
Popping == "popping"       \* CTRefill has returned true
Releasing == "releasing"   \* in the loop of CTReleasePeriodically

Init ==
  /\ poolList = <<>>
  /\ density = [p \in Pool |-> 0]
  /\ regionList = {}
  /\ freedList = <<>>
  /\ status = [r \in Region |-> 0]
  /\ freedNum = [r \in Region |-> 0]
  /\ inFreeList = [r \in Region |-> FALSE]
  /\ lastTag = [r \in Region |-> [c \in Chunk |-> 0]]
  /\ freeChunkNum = 0 /\ regionNum = 0 /\ freeRegionNum = 0
  /\ batch = <<>> /\ count = 0
  /\ elapsed = FALSE
  /\ pc = Idle /\ cursor = 0
  /\ live = {}

------------------------------------------------------------------------------
(* Allocation *)

(* The chunks of r that chunk_last_tag records as freed. *)
FreedChunks(r) == {c \in Chunk : lastTag[r][c] # 0}

(* The freed chunks of r in the order of the loop over chunk_last_tag. *)
Ascending(S) ==
  {f \in [1..Cardinality(S) -> S] :
     /\ \A i, j \in 1..Cardinality(S) : i < j => f[i] < f[j]
     /\ \A c \in S : \E i \in 1..Cardinality(S) : f[i] = c}

(* Mutant: the first chunk keeps its tag. *)
Rotated_KeepFirst(r, f) ==
  LET n == Cardinality(FreedChunks(r))
  IN  [i \in 1..n |->
         [region |-> r, chunk |-> f[i],
          tag |-> lastTag[r][f[IF i = 1 THEN 1 ELSE i - 1]]]]

(* Mutant: no chunk gets another tag. *)
Rotated_Not(r, f) ==
  LET n == Cardinality(FreedChunks(r))
  IN  [i \in 1..n |->
         [region |-> r, chunk |-> f[i],
          tag |-> lastTag[r][f[i]]]]

(* What the loop writes to the batch: each chunk gets the last tag of the  *)
(* freed chunk before it, and the first one that of the last.              *)
Rotated(r, f) ==
  LET n == Cardinality(FreedChunks(r))
  IN  [i \in 1..n |->
         [region |-> r, chunk |-> f[i],
          tag |-> lastTag[r][f[IF i = 1 THEN n ELSE i - 1]]]]

(* Mutant: the chunk stays in the batch. *)
Pop_Keep ==
  /\ live' = live \cup {batch[count]}
  /\ batch' = batch
  /\ count' = count
  /\ pc' = Idle
  /\ UNCHANGED <<poolVars, freedList, regionVars, counters, elapsed, cursor>>

(* Take the last entry of the batch. *)
Pop ==
  /\ live' = live \cup {batch[count]}
  /\ batch' = SubSeq(batch, 1, count - 1)
  /\ count' = count - 1
  /\ pc' = Idle
  /\ UNCHANGED <<poolVars, freedList, regionVars, counters, elapsed, cursor>>

(* CTAllocateSmallChunk with a batch that is not empty. *)
AllocFromBatch ==
  /\ pc = Idle
  /\ count > 0
  /\ Cardinality(live) < MaxLive
  /\ Pop

(* CTAllocateSmallChunk after the refill. *)
AllocAfterRefill ==
  /\ pc = Popping
  /\ Pop

(* Mutant: one chunk more is wanted. *)
Enough_More(n) == n > MinChunk

(* Mutant: a whole region more is wanted, as need_chunk_max. *)
Enough_Max(n) == n >= MinChunk + Available

(* n chunks are enough for a refill: the test of CTRefill before it and of *)
(* the loop during it.                                                     *)
Enough(n) == n >= MinChunk

(* Mutant: the start is not bounded by the number of freed regions. *)
Starts_Any == 1..StartSpan

(* Where in the list of freed regions a refill may start. *)
Starts == 1..(IF freeRegionNum > StartSpan THEN StartSpan ELSE freeRegionNum)

(* CTRefill: from the freed regions, starting at a random one near the     *)
(* head, when they hold enough chunks; otherwise from a new region.        *)
BeginRefill ==
  /\ pc = Idle
  /\ count = 0
  /\ Cardinality(live) < MaxLive
  /\ \/ /\ Enough(freeChunkNum)
        /\ cursor' \in Starts
        /\ batch' = <<>>
        /\ pc' = Refilling
     \/ /\ ~Enough(freeChunkNum)
        /\ pc' = NewRegion
        /\ UNCHANGED <<cursor, batch>>
  /\ UNCHANGED <<poolVars, freedList, regionVars, counters, count, elapsed,
                 live>>

(* Mutant: the tags are left behind. *)
TagsTaken_Keep(r) == lastTag

(* chunk_last_tag after a refill took the freed chunks of r. *)
TagsTaken(r) == [lastTag EXCEPT ![r] = [c \in Chunk |-> 0]]

(* Mutant: freed_num is left as it was. *)
NumTaken_Keep(r) == freedNum

(* freed_num after it. *)
NumTaken(r) == [freedNum EXCEPT ![r] = 0]

(* Mutant: the loop goes back to the head each time. *)
Onward_Head(rest) == 1

(* Where the loop goes on in what is left: to freed_next, or from the end   *)
(* of the list back to its head.                                           *)
Onward(rest) == IF cursor > Len(rest) THEN 1 ELSE cursor

(* One turn of CTRefillFromRegionList's loop: take every freed chunk of    *)
(* cur_region, then move on.                                               *)
(* The loop ends with no region left, or with MinChunk chunks.             *)
RefillFromRegion ==
  LET r == freedList[cursor]
      rest == RemoveAt(freedList, cursor)
  IN  /\ pc = Refilling
      /\ \E f \in Ascending(FreedChunks(r)) : batch' = batch \o Rotated(r, f)
      /\ lastTag' = TagsTaken(r)
      /\ count' = count + freedNum[r]
      /\ freeChunkNum' = freeChunkNum - freedNum[r]
      /\ freeRegionNum' = freeRegionNum - 1
      /\ freedNum' = NumTaken(r)
      /\ inFreeList' = [inFreeList EXCEPT ![r] = FALSE]
      /\ freedList' = rest
      /\ \/ /\ rest # <<>> /\ ~Enough(Len(batch'))
            /\ pc' = Refilling
            /\ cursor' = Onward(rest)
         \/ /\ rest # <<>> /\ Enough(Len(batch'))
            /\ pc' = Popping
            /\ cursor' = 0
         \/ /\ rest = <<>>
            /\ pc' = IF count' = 0 THEN NewRegion ELSE Popping
            /\ cursor' = 0
      /\ UNCHANGED <<poolVars, status, regionNum, elapsed, live>>

(* The test CTAllocateNewRegion makes of a pool before it places a region. *)
HasRoom(p) == density[p] * PoolDensity < AllRegionsInPool

(* The pool CTAllocateNewRegion takes: the first of the list with room, or *)
(* any that CTAllocateNewPool can still map.                               *)
ChosenPool(p) ==
  \/ \E i \in DOMAIN poolList :
       /\ poolList[i] = p
       /\ HasRoom(p)
       /\ \A j \in 1..(i - 1) : ~HasRoom(poolList[j])
  \/ \A i \in DOMAIN poolList : poolList[i] # p /\ ~HasRoom(poolList[i])

(* What CTRefill makes of a new region: its chunks with shuffled tags. *)
FreshBatch(r, tags) ==
  [c \in Chunk |-> [region |-> r, chunk |-> c, tag |-> tags[c]]]

(* CTAllocateNewRegion and the rest of CTRefill.  A random search that can *)
(* find no pool or no region does not end: then no step is enabled.        *)
AllocateNewRegion ==
  /\ pc = NewRegion
  /\ \E p \in Pool, x \in 1..AllRegionsInPool, tags \in Bijection(Chunk, Tag) :
       LET r == <<p, x>>
       IN /\ ChosenPool(p)
          /\ status[r] = 0
          /\ poolList' = IF \E i \in DOMAIN poolList : poolList[i] = p
                           THEN poolList ELSE Append(poolList, p)
          /\ density' = [density EXCEPT ![p] = @ + 1]
          /\ regionList' = regionList \cup {r}
          /\ status' = [status EXCEPT ![r] = 1]
          /\ freedNum' = [freedNum EXCEPT ![r] = 0]
          /\ inFreeList' = [inFreeList EXCEPT ![r] = FALSE]
          /\ batch' = FreshBatch(r, tags)
  /\ regionNum' = regionNum + 1
  /\ count' = Available
  /\ pc' = Popping
  /\ UNCHANGED <<freedList, lastTag, freeChunkNum, freeRegionNum, elapsed,
                 cursor, live>>

------------------------------------------------------------------------------
(* Deallocation *)

(* Mutant: in_free_list is not looked at. *)
Listed_Never(r) == FALSE

(* The region is in the list of freed regions already. *)
Listed(r) == inFreeList[r]

(* CTDeallocateSmallChunk.  HwasanDeallocate has compared the pointer's    *)
(* tag with the memory's before, so s is a pointer the program holds.      *)
Free(s) ==
  LET r == s.region
  IN  /\ pc = Idle
      /\ s \in live
      /\ live' = live \ {s}
      /\ freedNum' = [freedNum EXCEPT ![r] = (@ + 1) % 256]
      /\ lastTag' = [lastTag EXCEPT ![r][s.chunk] = s.tag]
      /\ freeChunkNum' = freeChunkNum + 1
      /\ IF Listed(r)
           THEN UNCHANGED <<freedList, freeRegionNum, inFreeList>>
           ELSE /\ freedList' = <<r>> \o freedList
                /\ freeRegionNum' = freeRegionNum + 1
                /\ inFreeList' = [inFreeList EXCEPT ![r] = TRUE]
      /\ IF freeChunkNum' >= TriggerFree /\ elapsed
           THEN pc' = Releasing /\ cursor' = 1
           ELSE UNCHANGED <<pc, cursor>>
      /\ UNCHANGED <<poolVars, status, regionNum, cacheVars, elapsed>>

(* Mutant: one chunk may still be in use. *)
AllFree_Almost(r) == freedNum[r] >= Available - 1

(* Every chunk of the region is free. *)
AllFree(r) == freedNum[r] = Available

(* Mutant: the pool's density is left as it was. *)
DensityWithout_Same(r) == density

(* The densities when r has left its parent_pool. *)
DensityWithout(r) == [density EXCEPT ![r[1]] = @ - 1]

(* One turn of CTReleasePeriodically's loop over a region that is all      *)
(* free: it leaves both lists and its memory, header included, goes back   *)
(* to the system, which hands it out zeroed again.                         *)
ReleaseRegion ==
  LET r == freedList[cursor]
  IN  /\ pc = Releasing
      /\ cursor <= Len(freedList)
      /\ AllFree(r)
      /\ freedList' = RemoveAt(freedList, cursor)
      /\ regionList' = regionList \ {r}
      /\ density' = DensityWithout(r)
      /\ freeChunkNum' = freeChunkNum - Available
      /\ regionNum' = regionNum - 1
      /\ freeRegionNum' = freeRegionNum - 1
      /\ status' = [status EXCEPT ![r] = 0]
      /\ freedNum' = [freedNum EXCEPT ![r] = 0]
      /\ inFreeList' = [inFreeList EXCEPT ![r] = FALSE]
      /\ lastTag' = [lastTag EXCEPT ![r] = [c \in Chunk |-> 0]]
      /\ UNCHANGED <<poolList, cacheVars, elapsed, pc, cursor, live>>

(* Mutant: the loop starts over. *)
KeepRegion_Stay ==
  /\ pc = Releasing
  /\ cursor <= Len(freedList)
  /\ ~AllFree(freedList[cursor])
  /\ cursor' = 1
  /\ UNCHANGED <<poolVars, freedList, regionVars, counters, cacheVars, elapsed,
                 pc, live>>

(* The same loop over a region with chunks in use: at most pages of freed  *)
(* chunks are dropped, which changes nothing the allocator keeps.          *)
KeepRegion ==
  /\ pc = Releasing
  /\ cursor <= Len(freedList)
  /\ ~AllFree(freedList[cursor])
  /\ cursor' = cursor + 1
  /\ UNCHANGED <<poolVars, freedList, regionVars, counters, cacheVars, elapsed,
                 pc, live>>

(* The end of CTReleasePeriodically: last_release_at_ns is set to now. *)
EndRelease ==
  /\ pc = Releasing
  /\ cursor > Len(freedList)
  /\ elapsed' = FALSE
  /\ pc' = Idle
  /\ cursor' = 0
  /\ UNCHANGED <<poolVars, freedList, regionVars, counters, cacheVars, live>>

(* Time: free_list_interval_ns have gone by since the last release. *)
Tick ==
  /\ elapsed = FALSE
  /\ elapsed' = TRUE
  /\ UNCHANGED <<poolVars, freedList, regionVars, counters, cacheVars, pc,
                 cursor, live>>

------------------------------------------------------------------------------
(* The steps of an operation that has begun. *)
Continue ==
  \/ AllocAfterRefill
  \/ RefillFromRegion
  \/ AllocateNewRegion
  \/ ReleaseRegion
  \/ KeepRegion
  \/ EndRelease

Next ==
  \/ AllocFromBatch
  \/ BeginRefill
  \/ \E s \in live : Free(s)
  \/ Tick
  \/ Continue

Spec == Init /\ [][Next]_vars

(* A thread inside the allocator holds a spin lock and keeps running. *)
FairSpec == Spec /\ WF_vars(Continue)

------------------------------------------------------------------------------
(* Properties *)

(* The pointers of chunks in the batch, and the last ones of freed chunks. *)
Cached == {batch[i] : i \in 1..count}
Freed == {s \in Slot : lastTag[s.region][s.chunk] = s.tag}
Held == live \cup Cached \cup Freed

(* Every variable has its type: in particular no counter goes below zero   *)
(* and freed_num stays in its u8.                                          *)
TypeOK ==
  /\ poolList \in Seq(Pool)
  /\ density \in [Pool -> Nat]
  /\ regionList \in SUBSET Region
  /\ freedList \in Seq(Region)
  /\ status \in [Region -> {0, 1}]
  /\ freedNum \in [Region -> 0..Available]
  /\ inFreeList \in [Region -> BOOLEAN]
  /\ lastTag \in [Region -> [Chunk -> Tag \cup {0}]]
  /\ freeChunkNum \in Nat /\ regionNum \in Nat /\ freeRegionNum \in Nat
  /\ batch \in Seq(Slot)
  /\ count = Len(batch)
  /\ elapsed \in BOOLEAN
  /\ pc \in {Idle, Refilling, NewRegion, Popping, Releasing}
  /\ cursor \in Nat
  /\ live \in SUBSET Slot

SameChunk(s, t) == s.region = t.region /\ s.chunk = t.chunk

(* No chunk is in two places: the program, the batch and the record of     *)
(* freed chunks never share one, and the batch holds none twice.  Handing  *)
(* a chunk out twice would take a refill that leaves a tag behind.         *)
SingleOwner ==
  /\ \A i, j \in 1..count : i # j => ~SameChunk(batch[i], batch[j])
  /\ \A s \in live, t \in Cached \cup Freed : ~SameChunk(s, t)
  /\ \A s \in Cached, t \in Freed : ~SameChunk(s, t)

(* The promise of the cluster: in a region every chunk carries a tag of    *)
(* its own, through any number of refills and whether it is in use, in the *)
(* batch or freed; so a pointer into a region never matches another chunk  *)
(* of it.                                                                  *)
TagsUniqueInRegion ==
  \A s, t \in Held :
    s.region = t.region => (s.chunk = t.chunk <=> s.tag = t.tag)

(* A region in use has all its chunks held somewhere, none is lost; a      *)
(* region that is not has none, so no pointer survives its release.        *)
RegionsAccounted ==
  \A r \in Region, c \in Chunk :
    (\E s \in Held : s.region = r /\ s.chunk = c) <=> status[r] = 1

(* The counters that decide on refills and releases are exact after every  *)
(* region the loops take: freed_num, free_chunk_num, region_num.           *)
CountersExact ==
  /\ \A r \in Region : freedNum[r] = Cardinality(FreedChunks(r))
  /\ freeChunkNum = Cardinality(Freed)
  /\ regionNum = Cardinality(regionList)
  /\ regionList = {r \in Region : status[r] = 1}

(* The freed list has every region with a freed chunk once, and no other:  *)
(* so a refill never meets a region that would make it write chunk_tag[-1].*)
FreedListExact ==
  /\ IsInjective(freedList)
  /\ \A r \in Region :
       /\ inFreeList[r] <=> r \in Range(freedList)
       /\ inFreeList[r] <=> freedNum[r] > 0
  /\ freeRegionNum = Len(freedList)

(* The loops stay in bounds: the region a refill is about to read is one   *)
(* of the list (the random start counted by free_region_num never runs off *)
(* its end), and a refill that ends has a chunk for the allocation to pop  *)
(* from the batch, which is empty when a new region overwrites it.         *)
LoopsInBounds ==
  /\ pc = Refilling => cursor \in DOMAIN freedList /\ Len(batch) < MinChunk
  /\ pc = Popping => count > 0
  /\ pc = NewRegion => count = 0
  /\ pc = Releasing => cursor \in 1..(Len(freedList) + 1)

(* The density of a pool counts its regions in use and never passes the    *)
(* first value that has no room: at most one region over the share the     *)
(* ct_pool_density setting gives.                                          *)
DensityBounded ==
  /\ \A p \in Pool :
       /\ density[p] = Cardinality({r \in regionList : r[1] = p})
       /\ density[p] > 0 => (density[p] - 1) * PoolDensity < AllRegionsInPool
  /\ IsInjective(poolList)
  /\ \A r \in regionList : r[1] \in Range(poolList)

(* The batch array is never overrun: a refill stops at the first region    *)
(* that brings it to MinChunk (with the code's sizes, 256 + 255 - 1 < 1024).*)
BatchBounded == Len(batch) < MinChunk + Available

(* A refill gives every chunk a tag other than its last one, unless it is  *)
(* the only freed chunk of its region: a pointer that outlived its chunk   *)
(* no longer matches it.                                                   *)
TagsRotate ==
  [][\A i \in DOMAIN batch' :
       LET s == batch'[i]
       IN  /\ pc = Refilling /\ i > Len(batch)
           /\ Cardinality(FreedChunks(s.region)) > 1
           => s.tag # lastTag[s.region][s.chunk]]_vars

(* A new region is taken only while the regions in use hold fewer chunks   *)
(* than the program has plus MinChunk, whatever the history of frees: the  *)
(* memory of a SuperPool stays within MinChunk chunks of its live ones.    *)
NewRegionsWhenNeeded ==
  [][regionNum' > regionNum =>
       regionNum * Available < Cardinality(live) + MinChunk]_vars

(* Every operation ends: the loops terminate, and the random search finds  *)
(* a region.                                                               *)
OperationsEnd == pc # Idle ~> pc = Idle

------------------------------------------------------------------------------
(* The promise of a SuperPool to the program: seen through the pointers    *)
(* the program holds and the regions in use, it is a TaggedHeap.           *)
Heap == INSTANCE TaggedHeap WITH mapped <- regionList
ImplementsHeap == Heap!Spec

(* Its two lists move as those of ClusterLists do, which RegionLists shows  *)
(* to be what the pointers in the headers of the regions stand for.        *)
Walk ==
  CASE pc = Refilling -> "refill"
    [] pc = Releasing -> "release"
    [] OTHER -> "none"

Lists == INSTANCE ClusterLists WITH walk <- Walk
ImplementsLists == Lists!Spec

==============================================================================
