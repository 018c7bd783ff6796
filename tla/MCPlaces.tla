------------------------------- MODULE MCPlaces -------------------------------
(***************************************************************************)
(* TLC instance of the modules about where memory is and what goes back to *)
(* the system: Dispatch with the code's own numbers, and on small memories *)
(* RegionFragment, RegionLists, PersistentAllocator and LargeChunk.  They   *)
(* share no state here: a behaviour is one of one of them.                 *)
(***************************************************************************)
EXTENDS SizeClassMap, RegionFragment, TLC

CONSTANTS
  RegionHeader, PoolSize, LargeHeader, LargeAlignment, RequestSizes, RequestAlignments,
  RegionShadow, ListShadowPage, StartSpan,
  Mallocs, Symbolizers, Capacity, PoolNodeSize, CounterSizes, SymbolSizes, None,
  Threads, Tags, Page, ShadowPage, Space, SuperPool, LargeSizes, StackSize

VARIABLES
  part,
  outcome, size, alignment, class, place, address, parsed,
  head, prev, next, freedHead, freedNext, inFreeList, status, freeRegionNum,
  walk, cur, before, start, isCycle, advised,
  curLoc, lastLoc, fallbackMutex, releaseMutex, symbolMutex, persistentPc, use,
  persistentSize, at, blocks, counters, held, exit, mixed,
  heap, stack, shadow, chunks, mutex, largePc, work, died

dispatchVars == <<outcome, size, alignment, class, place, address, parsed>>
listVars ==
  <<head, prev, next, freedHead, freedNext, inFreeList, status, freeRegionNum,
    walk, cur, before, start, isCycle, advised>>
persistentVars ==
  <<curLoc, lastLoc, fallbackMutex, releaseMutex, symbolMutex, persistentPc, use,
    persistentSize, at, blocks, counters, held, exit, mixed>>
largeVars == <<heap, stack, shadow, chunks, mutex, largePc, work, died>>

(* HwasanAllocate rounds sizes up to granules of 16 bytes and alignments to *)
(* at least a granule.  Beyond the small ones, the sizes next to a class.    *)
AllSizes ==
  {16 * k : k \in 1..40}
    \cup {Size(c) + d : c \in 9..(kBatchClassID - 1), d \in {-16, 0, 16}}
    \cup {100000}
AllAlignments == {2^k : k \in 4..17}

(* Five regions in two pools.  With two bytes of shadow each, on pages of   *)
(* three, 1 and 2 share a page and so do 3 and 4; 2 ends with its page and  *)
(* 3 begins the next.                                                      *)
Regions == {1, 2, 3, 4, 6}

(* Every set of freed chunks of a small region. *)
AnyChunks == SUBSET (0..(Chunks - 1))

D == INSTANCE Dispatch WITH
       HeaderSize <- RegionHeader, Sizes <- RequestSizes, Alignments <- RequestAlignments
R == INSTANCE RegionLists WITH Region <- Regions, ShadowPage <- ListShadowPage
P == INSTANCE PersistentAllocator WITH
       cur <- curLoc, last <- lastLoc, pc <- persistentPc, size <- persistentSize
G == INSTANCE LargeChunk WITH Sizes <- LargeSizes, pc <- largePc

Symmetry ==
  Permutations(Mallocs) \cup Permutations(Symbolizers) \cup Permutations(Threads)

MCInit ==
  /\ part \in {"dispatch", "fragment", "lists", "persistent", "large"}
  /\ D!Init /\ Init /\ R!Init /\ P!Init /\ G!Init

Dispatching ==
  /\ part = "dispatch" /\ D!Next
  /\ UNCHANGED <<part, vars, listVars, persistentVars, largeVars>>
Releasing ==
  /\ part = "fragment" /\ Next
  /\ UNCHANGED <<part, dispatchVars, listVars, persistentVars, largeVars>>
Listing ==
  /\ part = "lists" /\ R!Next
  /\ UNCHANGED <<part, dispatchVars, vars, persistentVars, largeVars>>
Stacking ==
  /\ part = "persistent" /\ P!Next
  /\ UNCHANGED <<part, dispatchVars, vars, listVars, largeVars>>
Mapping ==
  /\ part = "large" /\ G!Next
  /\ UNCHANGED <<part, dispatchVars, vars, listVars, persistentVars>>

MCNext == Dispatching \/ Releasing \/ Listing \/ Stacking \/ Mapping

MCSpec ==
  MCInit /\ [][MCNext]_<<part, dispatchVars, vars, listVars, persistentVars, largeVars>>

(* What happens once two kinds of users of the persistent allocator have    *)
(* overlapped is not explored here.                                        *)
NotMixed == ~mixed

(* See BestFit, AlignedUnlessLarge, ClearOfHeader and ParsedBack in Dispatch: *)
(* the class is the smallest one that fits, a chunk has its memory to itself, *)
(* aligned as the request wants it, and its address leads back to it.       *)
PlacesExact == D!BestFit /\ D!AlignedUnlessLarge /\ D!ClearOfHeader /\ D!ParsedBack
(* See OrderedBothWays in RegionLists. *)
OrderedBothWays == R!OrderedBothWays
(* See ShadowExact in RegionLists: a release gives back the shadow of its    *)
(* region, and nothing of another's.                                       *)
ShadowExact == R!ShadowExact
(* See ImplementsLists in RegionLists: its pointers are ClusterLists' lists. *)
ImplementsLists == R!ImplementsLists
(* See Apart, FreeInOrder and ExitsOnlyWhenFull in PersistentAllocator:       *)
(* blocks never overlap, the top of the stack is what a release frees, and    *)
(* the process exits only when there is no room.                            *)
StackExact == P!StackExact
(* See TagsKept and OwnFreesPass in LargeChunk: a chunk keeps its tags till  *)
(* it is freed, which the checks allow.                                    *)
LargeTagsKept == G!TagsKept /\ G!OwnFreesPass

==============================================================================
