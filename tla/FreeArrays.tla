------------------------------ MODULE FreeArrays ------------------------------
(***************************************************************************)
(* SizeClassAllocator64 and its local caches, for one size class: what the *)
(* sanitizers of this tree that do not set is_clustertag allocate with     *)
(* (sanitizer_allocator_primary64.h, sanitizer_allocator_local_cache.h).   *)
(*                                                                         *)
(* A region has the chunks in front, their metadata growing down towards   *)
(* them, and behind it the free array, the stack of the chunks that no     *)
(* cache has.  A cache is of one thread and needs no lock; an action that   *)
(* reaches the region holds its mutex once, so that it is one step.        *)
(***************************************************************************)
EXTENDS Integers, Sequences, FiniteSets

LOCAL INSTANCE FiniteSetsExt
LOCAL INSTANCE SequencesExt

CONSTANTS
  Threads,
  MaxCount,       \* max_count of a cache, 2 * MaxCachedHint
  ChunkSizes,     \* the sizes of the class considered
  PageSize,
  UserMapSize, MetaMapSize, ArrayMapSlots,   \* what mmap is asked for at least
  MetadataSize,   \* kMetadataSize
  RegionSpace,    \* kRegionSize - kFreeArraySize
  ArraySlots,     \* kFreeArraySize, in elements
  WordBits,       \* bits of an element of PackedCounterArray::buffer, 64
  SpaceBeg,       \* where the regions of the classes begin
  ClassId,        \* the class considered; the regions of the others are empty
  NumClasses,     \* kNumClasses; class 0 has no chunks
  Null,
  MaxHeld         \* bound: chunks the program holds at a time

VARIABLES
  chunkSize,
  array,        \* free_array[0 .. num_freed_chunks - 1]
  mappedSlots,  \* mapped_free_array
  allocatedUser, mappedUser, mappedMeta,
  inUse,        \* stats: n_allocated - n_freed
  since,        \* stats.n_freed - rtoi.n_freed_at_last_release
  dropped,      \* the pages that the last step gave back
  cache,        \* chunks[0 .. count - 1] of each thread
  maxCount,     \* max_count of each thread, 0 before InitCache
  held,         \* chunks the program holds
  died          \* Die() or a failed CHECK, and where

region == <<array, mappedSlots, allocatedUser, mappedUser, mappedMeta, inUse, since, dropped>>
vars == <<chunkSize, region, cache, maxCount, held, died>>

RoundUpTo(n, boundary) == ((n + boundary - 1) \div boundary) * boundary
Log2Up(n) == CHOOSE k \in 0..n : 2^k >= n /\ (k = 0 \/ 2^(k - 1) < n)

Allocated == 0..(allocatedUser \div chunkSize - 1)
AllocatedMeta == Cardinality(Allocated) * MetadataSize

Init ==
  /\ chunkSize \in ChunkSizes
  /\ array = <<>>
  /\ mappedSlots = 0 /\ allocatedUser = 0 /\ mappedUser = 0 /\ mappedMeta = 0
  /\ inUse = 0 /\ since = 0 /\ dropped = {}
  /\ cache = [t \in Threads |-> <<>>]
  /\ maxCount = [t \in Threads |-> 0]
  /\ held = {}
  /\ died = "no"

------------------------------------------------------------------------------
(* The pages of freed chunks (ReleaseFreeMemoryToOS) *)

Rest == PageSize % chunkSize

SameCount ==
  IF chunkSize <= PageSize
    THEN Rest = 0 \/ chunkSize % Rest = 0
    ELSE chunkSize % PageSize = 0

(* full_pages_chunk_count_max *)
FullCount ==
  IF chunkSize > PageSize THEN IF SameCount THEN 1 ELSE 2
  ELSE PageSize \div chunkSize
         + (IF Rest = 0 THEN 0 ELSE IF SameCount THEN 1 ELSE 2)

(* The bits of a counter: a power of two of them, enough for FullCount. *)
CounterBits == 2^Log2Up(Log2Up(FullCount + 1))

PerWord == WordBits \div CounterBits

(* The counter of page p as PackedCounterArray has it after IncRange for    *)
(* every freed chunk: sums of its word's counters, shifted and masked.     *)
Counter(p, free) ==
  LET first == (p \div PerWord) * PerWord
      freedOn(q) ==
        Cardinality({c \in free : /\ (c * chunkSize) \div PageSize <= q
                                  /\ q <= (c * chunkSize + chunkSize - 1) \div PageSize})
      word == MapThenSumSet(LAMBDA q : freedOn(q) * 2^((q % PerWord) * CounterBits),
                            first..(first + PerWord - 1))
  IN  (word \div 2^((p % PerWord) * CounterBits)) % 2^CounterBits

(* pn *)
Whole == IF chunkSize < PageSize THEN PageSize \div chunkSize ELSE 1

(* current_boundary when the turn of page p comes *)
Boundary[p \in Nat] ==
  IF p = 0 THEN 0
  ELSE LET before == Boundary[p - 1]
           after == before + Whole * chunkSize
       IN  IF before >= p * PageSize THEN before
           ELSE IF after < p * PageSize THEN after + chunkSize
           ELSE after

(* Mutant: the chunk that crosses the end of the page is not expected. *)
Expected_Inside(p) ==
  IF SameCount THEN FullCount
  ELSE Whole + (IF /\ p * PageSize < Boundary[p]
                   /\ Boundary[p] < (p + 1) * PageSize THEN 1 ELSE 0)

(* chunks_per_page *)
Expected(p) ==
  IF SameCount THEN FullCount
  ELSE Whole
         + (IF /\ p * PageSize < Boundary[p]
               /\ Boundary[p] < (p + 1) * PageSize THEN 1 ELSE 0)
         + (IF Boundary[p] + Whole * chunkSize < (p + 1) * PageSize THEN 1 ELSE 0)

(* The ranges that FreePagesRangeTracker gives ReleasePageRangeToOS. *)
FreePages(free) ==
  {p \in 0..(RoundUpTo(allocatedUser, PageSize) \div PageSize - 1) :
     Counter(p, free) = Expected(p)}

(* Chunks of a page: since is compared with nothing larger. *)
Enough == RoundUpTo(PageSize, chunkSize) \div chunkSize

(* MaybeReleaseToOS with the free array a, freed chunks having been freed   *)
(* since the last release; due stands for force and for the clock.         *)
MaybeReleaseToOS(a, freed, due) ==
  LET pages == FreePages(ToSet(a))
  IN  IF due /\ Len(a) * chunkSize >= PageSize /\ freed * chunkSize >= PageSize
        THEN /\ dropped' = pages
             /\ since' = IF pages = {} THEN freed ELSE 0
        ELSE dropped' = {} /\ since' = freed

------------------------------------------------------------------------------
(* The region *)

(* Mutant: the free array is taken to have room. *)
SlotsFor_Mapped(n) == IF mappedSlots = 0 THEN RoundUpTo(n, ArrayMapSlots) ELSE mappedSlots

(* What EnsureFreeArraySpace makes of mapped_free_array. *)
SlotsFor(n) == IF mappedSlots < n THEN RoundUpTo(n, ArrayMapSlots) ELSE mappedSlots

IsRegionExhausted(user, meta, more) == user + meta + more > RegionSpace

(* PopulateFreeArray: n chunks more, and all that the mapped memory has     *)
(* room for, refused being the mappings that the system refuses.  A refusal *)
(* leaves the mappings made before it.                                     *)
Populate(n, refused) ==
  LET total    == allocatedUser + n * chunkSize
      userMap  == IF total > mappedUser THEN RoundUpTo(total - mappedUser, UserMapSize) ELSE 0
      noUser   == userMap > 0 /\ \/ IsRegionExhausted(mappedUser, mappedMeta, userMap)
                                 \/ "user" \in refused
      user     == IF noUser THEN mappedUser ELSE mappedUser + userMap
      chunks   == (user - allocatedUser) \div chunkSize
      metaOver == AllocatedMeta + chunks * MetadataSize - mappedMeta
      metaMap  == IF metaOver > 0 THEN RoundUpTo(metaOver, MetaMapSize) ELSE 0
      noMeta   == metaMap > 0 /\ \/ IsRegionExhausted(user, mappedMeta, metaMap)
                                 \/ "meta" \in refused
      slots    == SlotsFor(Len(array) + chunks)
      noSlots  == slots > mappedSlots /\ "array" \in refused
      old      == Cardinality(Allocated)
      new      == [i \in 1..chunks |-> old + chunks - i]
  IN  [ok    |-> ~noUser /\ ~noMeta /\ ~noSlots,
       user  |-> user,
       meta  |-> IF noUser \/ noMeta THEN mappedMeta ELSE mappedMeta + metaMap,
       slots |-> IF noUser \/ noMeta \/ noSlots THEN mappedSlots ELSE slots,
       array |-> array \o new,
       allocated |-> allocatedUser + chunks * chunkSize]

NoneMapped == [ok |-> TRUE, user |-> mappedUser, meta |-> mappedMeta,
               slots |-> mappedSlots, array |-> array, allocated |-> allocatedUser]

LastOf(a, n) == SubSeq(a, Len(a) - n + 1, Len(a))

(* Mutant: the chunks stay in the free array. *)
Without_All(a, n) == a

(* What is left of a stack a without its last n. *)
Without(a, n) == SubSeq(a, 1, Len(a) - n)

(* ReturnToAllocator of chunks, under the mutex. *)
ReturnToAllocator(chunks, due, refused) ==
  LET n == Len(array) + Len(chunks)
  IN  IF SlotsFor(n) > ArraySlots
        THEN died' = "array full" /\ UNCHANGED region
      ELSE IF SlotsFor(n) > mappedSlots /\ "array" \in refused
        THEN died' = "array refused" /\ UNCHANGED region
      ELSE /\ mappedSlots' = SlotsFor(n)
           /\ array' = array \o chunks
           /\ inUse' = inUse - Len(chunks)
           /\ MaybeReleaseToOS(array', Min({since + Len(chunks), Enough}), due)
           /\ UNCHANGED <<allocatedUser, mappedUser, mappedMeta, died>>

------------------------------------------------------------------------------
(* The caches *)

Refusals == {{}, {"user"}, {"meta"}, {"array"}}

(* Allocate from what the cache has. *)
AllocateCached(t) ==
  /\ cache[t] # <<>>
  /\ Cardinality(held) < MaxHeld
  /\ held' = held \cup {Last(cache[t])}
  /\ cache' = [cache EXCEPT ![t] = Front(@)]
  /\ dropped' = {}
  /\ UNCHANGED <<chunkSize, array, mappedSlots, allocatedUser, mappedUser, mappedMeta,
                 inUse, since, maxCount, died>>

InUseAfter(ok, n) == IF ok THEN inUse + n ELSE inUse

(* Allocate through Refill and GetFromAllocator.  Where it fails the caller *)
(* gets nullptr.                                                           *)
AllocateRefill(t, refused) ==
  LET n  == MaxCount \div 2
      by == IF Len(array) < n THEN Populate(n - Len(array), refused) ELSE NoneMapped
  IN  /\ cache[t] = <<>>
      /\ Cardinality(held) < MaxHeld
      /\ maxCount' = [maxCount EXCEPT ![t] = MaxCount]
      /\ mappedUser' = by.user /\ mappedMeta' = by.meta /\ mappedSlots' = by.slots
      /\ IF by.ok
           THEN /\ array' = Without(by.array, n)
                /\ allocatedUser' = by.allocated
                /\ held' = held \cup {Last(by.array)}
                /\ cache' = [cache EXCEPT ![t] = Front(LastOf(by.array, n))]
           ELSE UNCHANGED <<array, allocatedUser, held, cache>>
      /\ inUse' = InUseAfter(by.ok, n)
      /\ dropped' = {}
      /\ UNCHANGED <<chunkSize, since, died>>

(* max_count after InitCache *)
InitCache(t) == MaxCount

(* Deallocate, by any thread; a full cache returns its upper half first. *)
Deallocate(t, c, due, refused) ==
  LET full == Len(cache[t]) = InitCache(t)
      half == InitCache(t) \div 2
      kept == IF full THEN Without(cache[t], half) ELSE cache[t]
  IN  /\ c \in held
      /\ held' = held \ {c}
      /\ maxCount' = [maxCount EXCEPT ![t] = InitCache(t)]
      /\ cache' = [cache EXCEPT ![t] = Append(kept, c)]
      /\ IF full
           THEN ReturnToAllocator(LastOf(cache[t], half), due, refused)
           ELSE /\ dropped' = {}
                /\ UNCHANGED <<array, mappedSlots, allocatedUser, mappedUser, mappedMeta,
                               inUse, since, died>>
      /\ UNCHANGED chunkSize

(* Drain, when a thread ends (Destroy) or its cache is swallowed; the next  *)
(* thread in its place begins with zeroed memory.                          *)
Drain(t, due, refused) ==
  /\ cache[t] # <<>>
  /\ ReturnToAllocator(cache[t], due, refused)
  /\ cache' = [cache EXCEPT ![t] = <<>>]
  /\ maxCount' \in {maxCount, [maxCount EXCEPT ![t] = 0]}
  /\ UNCHANGED <<chunkSize, held>>

(* ForceReleaseToOS *)
ForceReleaseToOS ==
  /\ MaybeReleaseToOS(array, since, TRUE)
  /\ UNCHANGED <<chunkSize, array, mappedSlots, allocatedUser, mappedUser, mappedMeta,
                 inUse, cache, maxCount, held, died>>

Next ==
  /\ died = "no"
  /\ \/ \E t \in Threads : AllocateCached(t)
     \/ \E t \in Threads, refused \in Refusals : AllocateRefill(t, refused)
     \/ \E t \in Threads, c \in held, due \in BOOLEAN, refused \in {{}, {"array"}} :
          Deallocate(t, c, due, refused)
     \/ \E t \in Threads, due \in BOOLEAN, refused \in {{}, {"array"}} :
          Drain(t, due, refused)
     \/ ForceReleaseToOS

Spec == Init /\ [][Next]_vars

------------------------------------------------------------------------------
(* What is asked of a pointer.  An element of the free array is as large as  *)
(* a byte here.                                                            *)

(* kRegionSize and kFreeArraySize *)
RegionSize == RegionSpace + ArraySlots

(* Numbers of classes, a power of two of them (kNumClassesRounded).          *)
NumClassesRounded == 2^Log2Up(NumClasses)

PointerIsMine(p) == SpaceBeg <= p /\ p < SpaceBeg + RegionSize * NumClassesRounded

GetRegionBegin(p) == ((p - SpaceBeg) \div RegionSize) * RegionSize + SpaceBeg
GetRegionBeginBySizeClass == SpaceBeg + RegionSize * ClassId
GetSizeClass(p) == ((p - SpaceBeg) \div RegionSize) % NumClassesRounded

GetMetadataEnd == GetRegionBeginBySizeClass + RegionSize - ArraySlots

GetChunkIdx(p) == ((p - SpaceBeg) % RegionSize) \div chunkSize

(* Mutant: the offset is not taken from where the space begins.              *)
GetBlockBegin_Absolute(p) ==
  LET beg == ((p % RegionSize) \div chunkSize) * chunkSize
  IN  IF GetSizeClass(p) = ClassId /\ mappedUser >= beg + chunkSize
      THEN GetRegionBegin(p) + beg ELSE Null

(* Where the block of a pointer of the space begins; a chunk that has its    *)
(* memory but has not been populated is taken for a block as well.          *)
GetBlockBegin(p) ==
  LET beg == GetChunkIdx(p) * chunkSize
  IN  IF GetSizeClass(p) = ClassId /\ mappedUser >= beg + chunkSize
      THEN GetRegionBegin(p) + beg ELSE Null

GetMetaData(p) == GetMetadataEnd - (1 + GetChunkIdx(p)) * MetadataSize

(* The chunks that ForEachChunk gives its callback. *)
ForEachChunk ==
  {GetRegionBeginBySizeClass + n * chunkSize :
     n \in {k \in 0..RegionSpace : k * chunkSize < allocatedUser}}

(* The counters that PrintStats prints of a class. *)
PrintStats ==
  [inuse |-> inUse, num_freed_chunks |-> Len(array), avail |-> allocatedUser \div chunkSize]

------------------------------------------------------------------------------
(* Properties *)

Places(c) ==
  Len(SelectSeq(array, LAMBDA x : x = c))
    + MapThenSumSet(LAMBDA t : Len(SelectSeq(cache[t], LAMBDA x : x = c)), Threads)
    + (IF c \in held THEN 1 ELSE 0)

(* Every chunk handed out so far is in one place, the free array, the cache *)
(* of a thread or the program, through refills, drains, the end of threads *)
(* and mappings refused half way: none is given out twice and none is lost. *)
OneOwner ==
  /\ died = "no" => \A c \in Allocated : Places(c) = 1
  /\ \A c \in ToSet(array) \cup held : c \in Allocated

(* PrintStats adds up: the chunks it calls in use, n_allocated - n_freed, and *)
(* those in the free array are all that have been populated, and in use are  *)
(* those in caches and in the program.                                     *)
StatsExact ==
  died = "no" =>
    /\ PrintStats.avail = PrintStats.inuse + PrintStats.num_freed_chunks
    /\ PrintStats.inuse =
         Cardinality(held) + MapThenSumSet(LAMBDA t : Len(cache[t]), Threads)

(* Every byte of a populated chunk leads to the chunk's begin and metadata,  *)
(* and the check that ForEachChunk leaves out as too slow, that a chunk is   *)
(* its own GetBlockBegin, would pass.  What has a block is mapped for        *)
(* chunks, so that no pointer to the metadata, to the free array or into    *)
(* the region of another class has one; and the metadata of chunks have     *)
(* places of their own in what is mapped for them.                         *)
LookupsExact ==
  LET begin == GetRegionBeginBySizeClass
      blocks == {begin + c * chunkSize : c \in Allocated}
  IN  /\ ForEachChunk = blocks
      /\ \A b \in blocks :
           /\ \A p \in b..(b + chunkSize - 1) :
                /\ PointerIsMine(p) /\ GetSizeClass(p) = ClassId
                /\ GetBlockBegin(p) = b /\ GetMetaData(p) = GetMetaData(b)
           /\ GetMetaData(b) >= GetMetadataEnd - mappedMeta
           /\ GetMetaData(b) >= begin + mappedUser
           /\ \A other \in blocks : b < other => GetMetaData(other) + MetadataSize <= GetMetaData(b)
      /\ \A p \in SpaceBeg..(SpaceBeg + RegionSize * NumClassesRounded - 1) :
           GetBlockBegin(p) # Null => p \in begin..(begin + mappedUser - 1)

(* The free array ends within what is mapped for it, however many caches    *)
(* are returned to it at a time, and the CHECK on its size holds: only a    *)
(* mapping that the system refuses ends the process.                       *)
ArrayHasRoom ==
  /\ Len(array) <= mappedSlots /\ mappedSlots <= ArraySlots
  /\ died # "array full"

(* The chunks growing up and their metadata growing down do not meet, and   *)
(* both are mapped, after a populate that got part of its mappings too.     *)
SpacesApart ==
  /\ mappedUser + mappedMeta <= RegionSpace
  /\ allocatedUser <= mappedUser /\ AllocatedMeta <= mappedMeta

(* A cache stays within its array, also when a thread's first call is a     *)
(* deallocation.                                                           *)
CacheBounded == \A t \in Threads : Len(cache[t]) <= MaxCount

ChunksOn(p) ==
  {c \in Allocated : c * chunkSize < (p + 1) * PageSize /\ (c + 1) * chunkSize > p * PageSize}

(* A page is given back to the system only if all the chunks with a byte on *)
(* it are in the free array: not one that the program holds and not one in *)
(* the cache of another thread, which takes no lock to hand it out.         *)
DropsOnlyFree == \A p \in dropped : ChunksOn(p) \subseteq ToSet(array)

(* A release gives back every page that chunks fill and of which all are    *)
(* in the free array.                                                      *)
DropsAllFree ==
  dropped # {} =>
    \A p \in 0..(allocatedUser \div PageSize - 1) :
      ChunksOn(p) \subseteq ToSet(array) => p \in dropped

==============================================================================
