---------------------------- MODULE RegionFragment ----------------------------
(***************************************************************************)
(* CTReleaseRegionFragment and the range tracker: the pages of a region    *)
(* that only freed chunks lie on go back to the system                     *)
(* (sanitizer_allocator_primary64.h, my_tools.cpp).                        *)
(*                                                                         *)
(* The release counts for each page the freed chunks on it and compares    *)
(* with the number of chunks that lie on it at all, which it works out     *)
(* page by page without looking at the chunks.  Pages are counted from the *)
(* start of the region; a page of shadow is in a space of its own.         *)
(***************************************************************************)
EXTENDS Integers, FiniteSets

CONSTANTS
  PageSize,    \* page_size_
  GranuleSize, \* bytes of memory for a byte of shadow
  HeaderSize,  \* sizeof(CTRegionInfo)
  Chunks,      \* 256, the header's included
  ChunkSizes,  \* the chunk sizes of the SuperPools; regions of them end with a page
  FreedSets    \* bound: the sets of freed chunk_ids considered

VARIABLES
  pc,
  chunkSize,   \* chunk_size
  freed,       \* the chunk_ids whose chunk_last_tag is not 0
  page,        \* the page whose turn it is
  current,     \* current_boundary
  inRange,     \* in_the_range
  rangeStart,  \* current_range_start_page
  dropped,     \* pages of the region given back
  shadowDropped\* pages of its shadow given back

vars == <<pc, chunkSize, freed, page, current, inRange, rangeStart, dropped, shadowDropped>>

RoundUpDivide(n, d) == (n + d - 1) \div d
Pages == (chunkSize * Chunks) \div PageSize

(* The chunk_ids in front of the first chunk, for the header. *)
HeaderChunks(size) == RoundUpDivide(HeaderSize, size)

Init ==
  /\ pc = "idle"
  /\ chunkSize = 0 /\ freed = {}
  /\ page = 0 /\ current = 0
  /\ inRange = FALSE /\ rangeStart = 0
  /\ dropped = {} /\ shadowDropped = {}

(* The turn of CTReleasePeriodically for a region some of whose chunks are  *)
(* in use and enough are freed: check_fast_release_path and the first half *)
(* of CTReleaseRegionFragment.                                             *)
Begin(size, chunks) ==
  /\ pc = "idle"
  /\ chunks \subseteq HeaderChunks(size)..(Chunks - 1)
  /\ Cardinality(chunks) # Chunks - HeaderChunks(size)
  /\ Cardinality(chunks) > RoundUpDivide(PageSize, size)
  /\ chunkSize' = size /\ freed' = chunks
  /\ page' = 0 /\ current' = 0
  /\ inRange' = FALSE /\ rangeStart' = 0
  /\ dropped' = {} /\ shadowDropped' = {}
  /\ pc' = "pages"

ChunksOn(p) ==
  {c \in 0..(Chunks - 1) :
     c * chunkSize < (p + 1) * PageSize /\ (c + 1) * chunkSize > p * PageSize}

(* counters[p] *)
Counter(p) == Cardinality(freed \cap ChunksOn(p))

Rest == PageSize % chunkSize

SameCount ==
  IF chunkSize <= PageSize
    THEN Rest = 0 \/ chunkSize % Rest = 0
    ELSE chunkSize % PageSize = 0

FullCount ==
  IF chunkSize > PageSize THEN 1
  ELSE PageSize \div chunkSize + (IF Rest = 0 THEN 0 ELSE 1)

(* pn *)
Whole == IF chunkSize < PageSize THEN PageSize \div chunkSize ELSE 1

Behind == current < (page + 1) * PageSize
AfterWhole == current + Whole * chunkSize
OneMore == Behind /\ AfterWhole < (page + 1) * PageSize

(* Mutant: the chunk that crosses the start of the page is forgotten. *)
ChunksPerPage_Whole == Whole + (IF OneMore THEN 1 ELSE 0)

(* chunks_per_page, kept up with current_boundary, the end of the last      *)
(* chunk seen.                                                             *)
ChunksPerPage ==
  Whole + (IF Behind /\ current > page * PageSize THEN 1 ELSE 0)
        + (IF OneMore THEN 1 ELSE 0)

NextBoundary ==
  IF ~Behind THEN current
  ELSE AfterWhole + (IF OneMore THEN chunkSize ELSE 0)

(* CTFreePagesRangeTrackerCloseOpenedRange advises this range, and then     *)
(* the same range rounded to whole pages, which it is.                     *)
RangePages == IF inRange THEN rangeStart..(page - 1) ELSE {}

CloseOpenedRange ==
  /\ dropped' = dropped \cup RangePages
  /\ inRange' = FALSE
  /\ UNCHANGED <<rangeStart, shadowDropped>>

(* CTFreePagesRangeTrackerNextPage *)
Track(free) ==
  IF free
    THEN /\ rangeStart' = IF inRange THEN rangeStart ELSE page
         /\ inRange' = TRUE
         /\ UNCHANGED <<dropped, shadowDropped>>
    ELSE CloseOpenedRange

(* A turn of the loop of CTReleaseRegionFragment. *)
NextPage ==
  /\ pc = "pages" /\ page < Pages
  /\ IF SameCount
       THEN Track(Counter(page) = FullCount) /\ UNCHANGED current
       ELSE Track(Counter(page) = ChunksPerPage) /\ current' = NextBoundary
  /\ page' = page + 1
  /\ UNCHANGED <<pc, chunkSize, freed>>

(* CTFreePagesRangeTrackerDone *)
Done ==
  /\ pc = "pages" /\ page = Pages
  /\ CloseOpenedRange
  /\ pc' = "done"
  /\ UNCHANGED <<chunkSize, freed, page, current>>

Next ==
  \/ \E size \in ChunkSizes, chunks \in FreedSets : Begin(size, chunks)
  \/ NextPage
  \/ Done

Spec == Init /\ [][Next]_vars

------------------------------------------------------------------------------
(* Properties *)

(* A page goes back only if every chunk with a byte on it is freed, at      *)
(* every turn of the loop and for every way chunks and pages overlap: a    *)
(* chunk in use, one cached in the batch and the header keep their bytes.  *)
DropsOnlyFree == \A p \in dropped : ChunksOn(p) \subseteq freed

(* Every page that could go back has, once the release is done. *)
DropsAllFree ==
  pc = "done" => \A p \in 0..(Pages - 1) : ChunksOn(p) \subseteq freed => p \in dropped

(* Both: a release gives back exactly the pages whose chunks are all free.  *)
DropsExactly == DropsOnlyFree /\ DropsAllFree

(* The shadow of what goes back goes back too where it fills whole pages of *)
(* shadow: "Check whether the shadow memory corresponding to the fragment  *)
(* of this Region can form a complete page; if so, release it as well"     *)
(* (my_tools.cpp:223).  The region is taken to start on a page of shadow.  *)
ShadowGoesToo ==
  pc = "done" =>
    \A s \in 0..(Pages \div GranuleSize - 1) :
      (s * GranuleSize)..((s + 1) * GranuleSize - 1) \subseteq dropped
        => s \in shadowDropped

==============================================================================
