------------------------------- MODULE Dispatch -------------------------------
(***************************************************************************)
(* From a request to an address and back: the dispatch of the combined     *)
(* allocator by size and alignment, the place of a small chunk in its      *)
(* region, the place of a large chunk behind its header, and what a        *)
(* deallocation makes of a small chunk's address                           *)
(* (sanitizer_allocator_combined.h, sanitizer_allocator_local_cache.h,     *)
(* sanitizer_allocator_primary64.h).                                       *)
(*                                                                         *)
(* An address is an offset in a pool for a small chunk, pools and          *)
(* SuperPools being aligned to their sizes, and an offset from an even     *)
(* multiple of LargeAlignment for a large one.                             *)
(***************************************************************************)
EXTENDS SizeClassMap

CONSTANTS
  HeaderSize,     \* sizeof(CTRegionInfo)
  PoolSize,       \* kPoolSize
  LargeHeader,    \* bytes of a CTLargeChunkHeader
  LargeAlignment, \* addr_alignment of CTAllocateLargeChunk
  Sizes,          \* bound: the sizes of requests
  Alignments      \* bound: their alignments

VARIABLES
  outcome,   \* what has become of the request
  size,      \* what was asked for
  alignment,
  class,     \* the size class, 0 for a large chunk
  place,     \* region of the pool and chunk_id, for a small chunk
  address,   \* untagged
  parsed     \* region and chunk_id as the deallocation reads them

vars == <<outcome, size, alignment, class, place, address, parsed>>

RoundUpTo(n, boundary) == ((n + boundary - 1) \div boundary) * boundary

(* The chunk_ids that the header takes (init_for_clustertag). *)
HeaderChunks(c) == (HeaderSize + Size(c) - 1) \div Size(c)

RegionSize(c) == Size(c) * 256

AllRegionsInPool(c) == PoolSize \div RegionSize(c)

Nowhere == [region |-> 0, chunk |-> 0]

Init ==
  /\ outcome = "none"
  /\ size = 0 /\ alignment = 0 /\ class = 0 /\ address = 0
  /\ place = Nowhere /\ parsed = Nowhere

(* Mutant: the size is not rounded up to the alignment. *)
Rounded_Not(n, a) == n

(* The size that CTAllocateCache dispatches by. *)
Rounded(n, a) == IF a > 8 THEN RoundUpTo(n, a) ELSE n

CanAllocate(n, a) == n <= kMaxSize /\ a <= kMaxSize

(* The CHECK_EQ at the end of CTAllocateCombined. *)
Checked(a, at) == IF a > 8 /\ at % a # 0 THEN "died" ELSE "returned"

(* Bounds: first and last regions of a pool and chunks of a region. *)
SomeRegions(c) == {0, 1, AllRegionsInPool(c) - 1}
SomeChunks(c) == {HeaderChunks(c), 255}

(* CTAllocateSmallChunk of a chunk wherever the SuperPool has one. *)
AllocateSmall(n, a) ==
  LET c == ClassID(Rounded(n, a))
  IN  /\ CanAllocate(Rounded(n, a), a)
      /\ class' = c
      /\ \E x \in SomeRegions(c), i \in SomeChunks(c) :
           /\ place' = [region |-> x, chunk |-> i]
           /\ address' = x * RegionSize(c) + i * Size(c)

(* CTAllocateLargeChunk: behind the header of an aligned mapping. *)
AllocateLarge(n, a) ==
  /\ ~CanAllocate(Rounded(n, a), a)
  /\ class' = 0
  /\ place' = Nowhere
  /\ address' \in {LargeHeader, LargeAlignment + LargeHeader}

(* CTAllocateCombined *)
Allocate(n, a) ==
  /\ outcome = "none"
  /\ AllocateSmall(n, a) \/ AllocateLarge(n, a)
  /\ size' = n /\ alignment' = a
  /\ outcome' = Checked(a, address')
  /\ UNCHANGED parsed

(* Mutant: a region is taken to span its chunks without those of the header. *)
RegionAt_Available(at, c) == at \div (Size(c) * (256 - HeaderChunks(c)))

(* The region of its pool that an address is in (getRegionInfo). *)
RegionAt(at, c) == at \div RegionSize(c)

(* parseSmallChunkPtr *)
Parse ==
  LET x == RegionAt(address, class)
  IN  /\ outcome = "returned"
      /\ class # 0
      /\ parsed' = [region |-> x,
                    chunk |-> (address - x * RegionSize(class)) \div Size(class)]
      /\ outcome' = "parsed"
      /\ UNCHANGED <<size, alignment, class, place, address>>

Next ==
  \/ \E n \in Sizes, a \in Alignments : Allocate(n, a)
  \/ Parse

Spec == Init /\ [][Next]_vars

------------------------------------------------------------------------------
(* Properties *)

(* A small chunk is of the smallest class that has room for the request and *)
(* is a multiple of its alignment, and a large chunk serves only what no    *)
(* class could have served.                                                *)
BestFit ==
  LET fits(c) == Size(c) >= size /\ Size(c) % alignment = 0
      fitting == {c \in 1..(kBatchClassID - 1) : fits(c)}
  IN  outcome # "none" =>
        IF class = 0 THEN fitting = {}
        ELSE class \in fitting /\ \A c \in fitting : class <= c

(* A small chunk is always where its alignment wants it, in every region:   *)
(* the CHECK of CTAllocateCombined never fails for one.  Nor does it for a  *)
(* large chunk that wants no more than the header's 16 bytes.              *)
AlignedUnlessLarge == outcome = "died" => class = 0 /\ alignment > LargeHeader

(* A chunk has the memory of its region to itself: it begins behind the     *)
(* header and ends within the region, which ends within the pool.          *)
ClearOfHeader ==
  LET inRegion == address - place.region * RegionSize(class)
  IN  class # 0 =>
        /\ inRegion >= HeaderSize
        /\ inRegion + Size(class) <= RegionSize(class)
        /\ (place.region + 1) * RegionSize(class) <= PoolSize

(* A deallocation finds the region and the chunk that were allocated, and   *)
(* the checks of HwasanDeallocate let the pointer pass.                    *)
ParsedBack ==
  outcome = "parsed" =>
    /\ parsed = place
    /\ (address - parsed.region * RegionSize(class)) % Size(class) = 0

(* Every request is answered with an address aligned as asked: "The         *)
(* secondary takes care of the alignment" of what the size classes do not  *)
(* serve (combined.h:66), so that CHECK_EQ never ends the process.         *)
AlwaysAligned == outcome # "died"

==============================================================================
