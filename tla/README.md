# A verification of ClusterTag's allocator

ClusterTag is a memory allocator inside HWASan (an overlay of LLVM 15's
compiler-rt). It groups the chunks of one size in *clusters*, called regions in
the code, gives every chunk of a region a tag of its own, and rotates the tags
when chunks are reused, to "mitigate tag collisions in both temporal and spatial
dimensions" (README of the repository). This directory has TLA+ modules that
model the allocator and what surrounds it in the repository (the front end and
its checks, initialisation, threads and forks, the upstream allocators and the
system layer the runtimes share, the symbolizer, and the clang driver), TLC
configurations that check them on small instances, and TLAPS proofs, for every
instance, of eight of them.

Paths below are relative to `src/compiler-rt/lib/` of the repository, those of
the driver to `src/clang/lib/Driver/`.

## Inventory

| Component | State | Operations | Hard part |
|---|---|---|---|
| **SuperPool**: small chunks of one size class (`sanitizer_allocator_primary64.h` 91-668, `sanitizer_allocator_local_cache.h` 49-156, `my_tools.h` 123-273) | pools with a density; regions with `chunk_last_tag`, `freed_num`, `in_free_list`, `status`; two region lists; three counters; the batch of `CTPerClass` | `CTAllocateSmallChunk`, `CTRefill`, `CTRefillFromRegionList`, `CTAllocateNewPool`, `CTAllocateNewRegion`, `CTDeallocateSmallChunk`, `CTReleasePeriodically` | long histories of frees, refills and releases; counters, lists and tags that must agree; loops over lists they change |
| **Region lists**: the pointers the lists are made of (`my_tools.h` 226-271, `primary64.h` 325-422, 562-589) | `prev`, `next`, `freed_next`, two heads | `insertInOrder`, `deleteFromList`, `insertAtFreedListHead`, the surgery of a refill, `CTReleaseShadowMemory` | wrap-around; shadow pages shared by neighbours |
| **Fragment release** (`primary64.h` 484-559, `my_tools.cpp` 186-232) | page counters, range tracker | `CTReleaseRegionFragment`, `check_fast_release_path`, `CTFreePagesRangeTracker*` | chunk sizes that do not divide a page |
| **HWASan front end** (`hwasan/hwasan_allocator.cpp`) | shadow tags, `fallback_mutex` | `HwasanAllocate`, `HwasanDeallocate`, `HwasanReallocate`, calloc, memalign | checks before the lock; realloc as three steps; hooks and forks under locks |
| **Combined allocator and large chunks** (`sanitizer_allocator_combined.h`, `local_cache.h` 72-125, `primary64.h` 671-703) | large chunk headers, mappings | `CTAllocateCombined`, `CTAllocateLargeChunk`, `CTDeallocateLargeChunk`, `CTMapBlackCheck` | alignment, shadow rounded to pages |
| **Persistent allocator** (`my_tools.cpp` 45-95) | `cur_loc`, `last_loc` | allocate, free of the top, exit on anything else | used as a stack, by some callers without its mutex |
| **Size class map** (`sanitizer_allocator_size_class_map.h`) | none | `Size`, `ClassID` | boundaries |
| **Initialisation** (`hwasan/hwasan.cpp` 329-406, `hwasan_linux.cpp`, `my_tools.cpp` 112-151, `sanitizer_allocator_dlsym.h`) | the globals each step sets; the layout of the shadow; the geometry of the SuperPools | `__hwasan_init`, `InitShadow`, `init_for_clustertag`, `stringToInteger`, `DlSymAllocator` | an order of steps that all depend on earlier ones, and `malloc` coming back in at any of them |
| **Checks and reports** (`hwasan.cpp`, `hwasan_linux.cpp`, `hwasan_report.cpp`) | the shadow of stacks and globals | loads and stores of every kind, `TagMemoryAligned`, longjmp, vfork, libraries loaded and unloaded, `ReportTagMismatch` | shadow left behind, granules that are reached in part |
| **Threads and forks** (`hwasan_thread.cpp`, `hwasan_linux.cpp`) | `Thread`, thread-specific data, the mutexes of the fork handlers | `__hwasan_thread_enter`, `HwasanTSDDtor`, `HwasanInstallAtForkHandler` | destructors in rounds; which mutexes a fork takes |
| **External symbolizer** (`sanitizer_symbolizer_libcdep.cpp`) | `mu_`, a process behind two pipes, `buffer_`, `times_restarted_` | `SymbolizePC`, `SendCommand`, `Restart` | a process that dies at any moment |
| **Upstream allocators** (`SizeClassAllocator64`, `SizeClassAllocator32`, their local caches, `LargeMmapAllocator`) | free arrays, transfer batches, caches of threads, the array of large chunks | allocate, deallocate, refill, drain, populate, release to the system, lookups | threads whose caches hold what others search; refused mappings. Not reached once `is_clustertag` is set, but used by the other sanitizers of the tree |
| **System layer** (`sanitizer_common.cpp`, `sanitizer_common.h`, `sanitizer_libc.cpp`, `sanitizer_linux.cpp`, `sanitizer_posix.cpp`, `sanitizer_allocator.cpp`, `sanitizer_symbolizer.cpp`) | mappings and their total, descriptors, vectors, the list of modules | `MmapAlignedOrDieOnFatalError`, `OpenFile`, `ListThreads`, `RefreshModules`, `internal_*` | other threads between two system calls; kernel interfaces that answer in part |
| **Clang driver** (`SanitizerArgs.cpp`, `ToolChains/CommonArgs.cpp`, `ToolChains/Linux.cpp`, `Sanitizers.def`) | a command line | `-fsanitize=` and its kin, coverage, recovery, runtimes, `-fPIC` and `-fPIE`, libraries | options that undo one another, groups and their members |
| Other sanitizers of the overlay, evaluation scripts | | | edits for compatibility; programs that exercise the allocator from outside |

How they interact: a `malloc` enters `HwasanAllocate`, which takes
`fallback_mutex`, calls `CTAllocateCombined` and through it `CTAllocateSmallChunk`
of the global cache for the size class, and writes the tag to the shadow before
it unlocks. A `free` compares the pointer's tag with the shadow, clears the
shadow, then takes the mutex and calls `CTDeallocateSmallChunk`, which may run
`CTReleasePeriodically`. A SuperPool is reached under `fallback_mutex` (and its own
spin lock), so its operations never overlap; SuperPools of different classes
share nothing but the persistent allocator.

What makes each component correct:

- SuperPool: a chunk has one owner; tags are unique in a region and rotate at
  reuse; no region is released with a chunk in use and none is lost; counters and
  lists agree; loops terminate in bounds; pools respect `ct_pool_density`; memory
  grows only with the program's.
- Region lists: they represent the sequences and sets of SuperPool; no shadow
  page of a neighbour is dropped.
- Fragment release: a page is dropped exactly if every chunk on it is freed.
- Front end: the shadow lets a pointer reach the bytes it was given and no
  others; every chunk has one owner through `free` and `realloc`; only wrong
  pointers are reported.
- Large chunks: aligned as asked; no shadow of others is cleared.
- Persistent allocator: allocations do not overlap; a legal free is accepted.
- Initialisation: no step reads what a later one sets; shadow and SuperPools fit
  where the system has room; what was allocated meanwhile stays known.
- Checks: an access gets through if and only if it is to what the pointer owns; a
  report names the first byte that is not.
- Threads: code of a thread always finds its `Thread`; a fork ends.
- Symbolizer: a thread parses what answers its own command; every command ends.
- Upstream allocators: no chunk is lost or given out twice; a page that goes back
  has no chunk in a cache; searches read mapped headers only; mutexes nest.
- System layer: what a thread has mapped stays its own; files never become
  standard streams; a list called complete is complete.
- Driver: the command line means what its arguments say in their order; an
  executable has the runtimes it calls and one `malloc`.

## Plan

In this order, the most important behaviour first. All of it is done, but for what
each item names as left.

1. `SuperPool`, with `TaggedHeap` as its abstract specification, and
   `SuperPoolProofs`: every safety property and both refinements are proved.
2. `RegionLists`: the same lists as pointers, with the shadow release; both
   modules shown and proved to implement `ClusterLists`. `RegionListsProofs`: the
   order of the pointers, the release of shadow, and this implementation.
3. `HwasanHeap`: threads, `fallback_mutex`, shadow tags, realloc, over
   `TaggedHeap` (what 1 implements); `EntryPoints`: what every function of
   `malloc`'s family makes of its arguments. `ProgramProofs`: the properties of both. Left: the flags that change tagging.
4. `PersistentAllocator`: callers with and without the mutexes, with
   `PersistentAllocatorProofs`.
5. `RegionFragment`, `SizeClassMap` and `Dispatch`: the arithmetic, at the code's
   own sizes where it has no state; `LargeChunk` with `LargeChunkProofs`: mappings of large
   chunks, with the shadow they share pages of; `PlacesProofs`: the theorems about
   `RegionFragment`, `SizeClassMap` and `Dispatch`, and those of 2, 4 and 5 for the instance that the
   run checks.
6. `Threads`, `Startup`, `TagChecks`: the rest of the process. `ProcessProofs`: the theorems
   about `Threads` and `Startup`, and that of 7;
   `ProgramProofs`: that about `TagChecks`.
7. `Symbolizing`, `Answers`, `Modules`: what a report asks.
8. `FreeArrays`, `TransferBatches`, `LargeMmap`: the upstream allocators.
   `InternalLibc`, `MmapVector`, `Mappings`, `Files`, `ThreadLister`: the system
   layer under all of them.
9. `SanitizerDriver`, `SanitizerFlags`, `LinkFlags`: how a program comes to be
   compiled and linked with all this, for each target; `DriverProofs`: their properties. Left: the features of targets, LTO,
   devices.

## Modules

| Module | What it is | Run |
|---|---|---|
| `TaggedHeap` | abstract specification: what the program sees of a SuperPool | |
| `SuperPool`, `MCSuperPool` | the small-chunk allocator of one size class, and its properties; its TLC instances | `superpool_*` |
| `SuperPoolProofs` | the theorems about it | |
| `ClusterLists` | abstract specification: what the two lists of regions are, without pointers | |
| `RegionLists`, `RegionListsProofs` | the lists as pointers in region headers, with the shadow release; the theorems about it | `places` |
| `RegionFragment`, `MCRegionFragment` | the pages a region gives back while some of its chunks are in use | `places`, `fragment_shadow` |
| `PersistentAllocator`, `MCPersistentAllocator`, `PersistentAllocatorProofs` | the stack of 16 pages and its users, access by access; the theorem about it | `places`, `persistent_mixed` |
| `SizeClassMap`, `Dispatch`, `MCDispatch` | from a request to a class, an address and back | `places`, `dispatch_large` |
| `LargeChunk`, `LargeChunkProofs` | large chunks: mapping, header, shadow, and the stacks beside them; the theorem about it | `places`, `large_shadow` |
| `HwasanHeap` | malloc, free and realloc of several threads over a `TaggedHeap`, with shadow and short granules | `front` |
| `EntryPoints` | the arguments and answers of malloc's family | `front` |
| `TagChecks` | tags of stacks and globals, checks of accesses, the report of a mismatch | `front` |
| `SanitizerDriver`, `SanitizerFlags`, `LinkFlags`, `DriverProofs` | the driver: sanitizers and runtimes; recovery, coverage, flags; PIC and libraries; the theorems about it | `front`, `driver_static` |
| `Startup` | `__hwasan_init`, with allocations that come back into it | `process` |
| `Threads` | threads, their destructors and forks | `process` |
| `Symbolizing` | the external symbolizer and its users | `process`, `answers` |
| `Answers` | the text of an answer of the symbolizer, and what is read from it | `sanitizer_common` |
| `FreeArrays` | `SizeClassAllocator64` with local caches | `sanitizer_common` |
| `TransferBatches` | `SizeClassAllocator32` with local caches | `sanitizer_common` |
| `LargeMmap` | `LargeMmapAllocator` | `sanitizer_common` |
| `InternalLibc`, `MmapVector` | memory and string functions; vectors | `sanitizer_common` |
| `Mappings`, `Files`, `ThreadLister`, `Modules` | mapped memory, descriptors, the list of threads, the list of modules | `sanitizer_common` |
| `MCProgram`, `MCPlaces`, `MCSanitizerCommon`, `MCProcess` | TLC instances of the above: the program from command line to access; where memory is; what the runtimes share; what is around the allocator | |
| `PlacesProofs`, `ProcessProofs`, `ProgramProofs` | the theorems about `MCPlaces`, `MCProcess` and `MCProgram`, and about those of their modules that have no proofs of their own: `RegionFragment`, `SizeClassMap` and `Dispatch`; `Threads`, `Symbolizing` and `Startup`; `HwasanHeap`, `TagChecks` and `EntryPoints` | |

`HwasanHeap` takes chunks from `TaggedHeap`, which `SuperPool` is proved to
implement: what holds over every `TaggedHeap` holds over the code's. `SuperPool` and
`RegionLists` both implement `ClusterLists`, the one by its set and sequence, the
other by its pointers, so that the lists `SuperPool` computes with are the ones the
pointers stand for. `SanitizerFlags` extends `SanitizerDriver`: one command line
goes through both. The other modules share no state in the code either (what they
share, such as a mutex or the shadow of neighbours, is part of the module), so the
composed instances run one of them in a behaviour, chosen by `part`, and a composite
property such as `PlacesExact` is the conjunction of the properties of the parts
that its definition names.

### SuperPool

State. A region is a pair of pool and index. The address-sorted list of regions
in use is determined by its elements, so `regionList` is a set; the list of
regions with freed chunks, singly linked through `freed_next`, is the sequence
`freedList`. `status`, `freedNum`, `inFreeList`, `lastTag` are the fields of
`CTRegionInfo`, `freeChunkNum`, `regionNum`, `freeRegionNum` those of
`CTSuperPoolChunkInfo`, `batch` and `count` those of `CTPerClass` with the
`chunk_tag` of an entry beside its chunk. `live` is the set of tagged pointers
the program holds. `elapsed` stands for the comparison of the clock with the last
release.

Actions. The lock makes an operation atomic for others, but the loops inside
`CTRefillFromRegionList` and `CTReleasePeriodically` change the lists they walk,
so each turn of a loop is an action and `pc` says where the operation in progress
stands; every property is checked between the turns too.

| Action | Code |
|---|---|
| `AllocFromBatch`, `AllocAfterRefill` | `CTAllocateSmallChunk` |
| `BeginRefill` | `CTRefill` up to the loop: which source, which random start |
| `RefillFromRegion` | one turn of the refill loop, its wrap and its two ends |
| `AllocateNewRegion` | `CTAllocateNewRegion`, `CTAllocateNewPool`, the random permutation of tags |
| `Free` | `CTDeallocateSmallChunk` up to the release |
| `ReleaseRegion`, `KeepRegion`, `EndRelease` | the release loop and its end |
| `Tick` | the clock passes the release interval |

The random draws (start of a refill, pool, region, permutation of the tags) are
nondeterministic. The code orders the two frees of a region in `EndRelease` as
here: `last_release_at_ns` is set after the loop. Left out: addresses, the
dropping of pages inside a region (`CTReleaseRegionFragment`, which changes
nothing the allocator keeps), the shadow, `ct_randomize_region` (always false), a
failing `mmap` (the process exits). `Free` is given pointers the program holds:
`HwasanDeallocate` has compared the tag by then. A released region's header is
zero because the kernel hands dropped pages out zeroed.

Properties. `SingleOwner`, `TagsUniqueInRegion`, `RegionsAccounted` say what the
program relies on; `CountersExact`, `FreedListExact`, `LoopsInBounds`,
`BatchBounded`, `DensityBounded` what the code relies on; `TagsRotate` and
`NewRegionsWhenNeeded` say what a step may never do; `OperationsEnd` is liveness;
`ImplementsHeap` says all of it is invisible to the program but for the promise
in `TaggedHeap`.

Three facts the model makes visible and no document denies:

- A refill leaves the tag of a chunk as it was if no other chunk of its region was
  freed; hence the condition in `TagsRotate`.
- `ct_pool_density = 0` is accepted (`hwasan.cpp:352`); then a full pool still has
  room by the test of `primary64.h:280` and the search for a region never ends.
- The same happens at the end of the SuperPool's capacity. `MCSuperPool` assumes
  instances with enough pools (`CapacityAssumption`); without it TLC reports the
  deadlock that stands for the endless search.

### RegionLists

State. The pointers of both lists with `Null` for `nullptr`, the loop in progress
(`walk`, `cur`, `before`, `start`, `isCycle` for the code's `cur_region`, `prev_region`,
`start_region`, `is_cycle`) and `advised`, the shadow pages the last step gave back.
Regions are their addresses in units of `region_size`.

| Action | Code |
|---|---|
| `NewRegion` | `insertInOrder` with its `insertAtHead`, from `CTAllocateNewRegion` |
| `Free` | `insertAtFreedListHead`, from `CTDeallocateSmallChunk`; perhaps the start of a release |
| `BeginRefill`, `Take` | the walk to the random start; a turn of `CTRefillFromRegionList` and the repair of the list at its end |
| `Drop`, `Pass`, `End` | a turn of `CTReleasePeriodically`: unlinking from both lists, `CTReleaseShadowMemory`, `CTReleaseRegion` |

How many freed chunks a region has is left open, so every turn may go either way.

Properties. `OrderedBothWays`: the address-sorted list is exactly the regions in use
and its two directions agree. `ShadowExact`: the release of
shadow, which looks at two neighbours only, drops no shadow of a region in use and
keeps none that could go. `ImplementsLists`: at every turn of a loop the pointers are
the lists of `ClusterLists`: `RegionList` is what `head` and `next` lead to,
`FreedList` what `freed_next` leads through in this order (`Linked`), during a refill
without the stretch that it has taken and that is still linked, and `Cursor` the
place of `cur_region` in it.

### HwasanHeap

State. `shadow` is the shadow byte of every granule of every chunk and `lastByte`
the last byte of the granule, which is the program's data, or the tag of a short
granule, or what an earlier owner left. `mutex` is `fallback_mutex`. For each
thread `pc` says where it stands in its call, `size`, `old` and `new` are the
arguments and pointers of the call. `held` is what the program holds, with the
sizes it asked for, `stale` a pointer it kept after giving it up.

| Action | Code |
|---|---|
| `CallMalloc`, `LockAllocate`, `Grow`, `TakeChunk` | `HwasanAllocate` up to and with `allocator.Allocate` |
| `FillTail`, `TagFull`, `TagShort`, `TagByte`, `Return` | the writes to the chunk's tail and to the shadow, each a step of its own; the unlock |
| `CallRealloc`, `Copy`, `CheckOld` | `HwasanReallocate`: its own comparison, the copy after the malloc, and the comparison of the free |
| `CallFree`, `CallFreeStale` | `HwasanDeallocate` up to its comparison |
| `Clear`, `LockDeallocate`, `GiveBack`, `Shrink`, `Finish` | the shadow is cleared before the lock, the chunk given back under it; regions released on the way |
| `Report` | `ReportInvalidFree`, which exits |

A thread writes the shadow of a chunk before it returns it and clears it before it
takes the lock, so the writes of several threads interleave. The comparison is
`PossiblyShortTagMatches` of HWASan, which is not part of the repository and is
modelled from how `PointerAndMemoryTagsMatch` uses it and what `HwasanAllocate`
writes for it. It reads memory the program may have written, hence `Matches` (for
every content) and `MayMatch` (for some).

Properties. `OneOwner` is about chunks, `ShadowExact` about
spatial detection, `DanglingDetected` about temporal detection, at every step of
every thread; `ReportsAreTrue` is about what a step may never do.

Left out: large chunks, fills (`max_malloc_fill_size`, `max_free_fill_size`, `calloc`'s
zeroes are data like any other), `tag_in_malloc`, `malloc_bisect` and
`__hwasan_disable_allocator_tagging`, hooks, failing allocations, the fork
handlers, and programs that free one pointer from two threads at once.

What the model makes visible: a tag from 1 to 15, which the allocator does hand
out, reads in the shadow as the length of a short granule. A pointer with such a
tag, or checked against a chunk with such a tag, may pass where another would
fail (`Distinguished` keeps these pairs apart).

### RegionFragment

State. `freed` (the non-zero `chunk_last_tag`s) and `chunkSize` are chosen by `Begin`
under the conditions of `CTReleasePeriodically`; `page`, `current` (`current_boundary`),
`inRange` and `rangeStart` are the loop's and the range tracker's; `dropped` and
`shadowDropped` are the pages that went back.

| Action | Code |
|---|---|
| `Begin` | the branch of `CTReleasePeriodically`, `check_fast_release_path`, the counters |
| `NextPage` | a turn of the loop of `CTReleaseRegionFragment` with `CTFreePagesRangeTrackerNextPage` |
| `Done` | `CTFreePagesRangeTrackerDone` |

The counters are what the counting loop leaves: for each page the freed chunks with
a byte on it. `DropsOnlyFree` and `DropsAllFree` say that the numbers the code compares
them with, which it derives without looking at the chunks, are right.

### PersistentAllocator

State. `cur` and `last` (`cur_loc`, `last_loc`), three mutexes, per thread its position and the
values it has read. `blocks`, `counters`, `held` and `mixed` are history: what callers hold for
ever, what a release holds until it frees it, how much that is together, and whether a symbolization
has overlapped with a use under `fallback_mutex`.

| Action | Code |
|---|---|
| `LockFallback`, `UnlockFallback` | `HwasanAllocate`, `HwasanDeallocate` |
| `AppendPool`, `BeginRelease`, `Symbolize` | the calls of `CTPersistentAllocatorAllocate` |
| `Check`, `Place`, `Advance`, `Take` | its accesses to the two words, one each |
| `CheckTop`, `Pop`, `Reset` | `CTPersistentAllocatorFree` |

A free with `noCheck` does nothing, so symbolization has none. Unsynchronised accesses
are a data race; the steps use a value read before or read it again, as compiled
code may.

### Dispatch and SizeClassMap

One request: `Allocate` is `CTAllocateCombined` down to the address, with any first or
last region of a pool and chunk of a region for a small chunk, and `Parse` is what
`parseSmallChunkPtr` makes of the address. `BestFit` compares `ClassID` with the
smallest class that fits; `ClearOfHeader` and `ParsedBack` are about the arithmetic of
regions; `AlignedUnlessLarge` says when `CHECK_EQ` of `combined.h:75` may fail.

### LargeChunk

State. The unit is a granule. `pc` per thread stands in a malloc or free of a large
chunk, between its system calls; the address space, its shadow and the chunks are
shared with stacks of threads that come, tag and go.

| Action | Code |
|---|---|
| `Map`, `TrimFront`, `TrimBack` | `CTAllocateLargeChunk`, `MmapAlignedOrDieOnFatalError`; a refusal by the system |
| `Tag` | `CTMapBlackCheck`, the header, the tags |
| `Check`, `Lock`, `RemapShadow`, `Unmap` | `HwasanDeallocate`, `CTDeallocateLargeChunk` |
| `StackBegin`, `StackTag`, `StackEnd` | stacks of the C library (external) |

`TagsKept` and `OwnFreesPass`: a chunk keeps its tags until it is freed, and the free is
not reported, whatever is mapped beside it. Stacks end without tags, as functions that
return leave them. `OnlyItsShadow`, that a deallocation touches no shadow of others, fails
(`large_shadow`).

### EntryPoints

One call of a function of `malloc`'s family, with any arguments in words of 8 bits, in a
process that has a block already. Each function is an action (`Malloc`, `Valloc`,
`Calloc`, `Pvalloc`, `AlignedAlloc`, `Memalign`, `PosixMemalign`, `Realloc`,
`Reallocarray`) over `Allocate`, the part of `HwasanAllocate` and `CTAllocateCombined` that
decides on size, alignment and refusal. `AnswersFit` and `OldKept` say what C and POSIX ask
of the answer, of errno and of the old block. What the model makes visible: a large chunk
that the system refuses ends the process, also with `allocator_may_return_null`.

### TagChecks

State. The shadow and last bytes of the granules of a stack and of a library's data,
`frames` with their tags and sizes, `parent` while a vfork's child runs, the global.

| Action | Code |
|---|---|
| `Call`, `Return` | prologue and epilogue that the compiler generates (external), over `__hwasan_tag_memory` and `TagMemoryAligned` |
| `Longjmp`, `HandleVfork` | `__hwasan_handle_longjmp`, `__hwasan_handle_vfork`, their refusals too |
| `LibraryLoaded`, `LibraryUnloaded` | `InitializeSingleGlobal`, `__hwasan_library_loaded`, `__hwasan_library_unloaded` |

Accesses change nothing, so that the checks are operators: `Accesses` are all there are of
each size and with any address, `Checked` is whether one gets through, `ReportTagMismatch`
what its report points at. `TagsExact` says that with each tag exactly the bytes of live
frames and globals of that tag are reached, unless a jump was too far to be followed (the
code warns); `ReportsWhere` relates check and report. Check and report are taken at one
moment. The compiler's part is from how the runtime is used.

### Startup

State. Where `__hwasan_init` stands, what each step has set, and the blocks the program has
got so far; `unset` is history: what a step has read before it was set.

| Action | Code |
|---|---|
| `InitStatic` | `__hwasan_init_static` |
| `Begin`, `InitializeFlags`, `SetDensity`, `InitInstrumentationOnce`, `SetValues`, `InitLoadedGlobals`, `EnsureRandomStateInited`, `CTPersistentAllocatorInit`, `InitializeInterceptors`, `HwasanAllocatorInit` | the steps of `__hwasan_init`, with `stringToInteger`, `InitializeOsSupport`, `InitShadow` and `init_for_clustertag` as operators |
| `EarlyMalloc`, `EarlyCalloc`, `Malloc`, `Realloc`, `Free` | `DlSymAllocator` and the functions that ask it |

`InitOrder`, `LayoutExact`, `GeometryHolds` (the assumptions of `SuperPool` and `Dispatch`, for every
class and density that `ct_pool_density` can give) and `EarlyBlocksKnown`. What the model makes
visible:

- `InitInstrumentation` of a static executable reads flags that are not set, as 0.
- `malloc` before `CTPersistentAllocatorInit`, and `calloc` or `realloc` at any moment of the
  initialisation, end the process: the former finds no room, the latter still use
  `internal_allocator()`.
- `kHighMemStart` is `kHighShadowEnd`, not one behind it. The CHECKs that would notice
  (`hwasan_linux.cpp` 79-97) are in `PrintAddressSpaceLayout`, which nothing calls. `LayoutExact`
  leaves this address out.

### Threads

State. `pc` of each thread, `current` (whether it has a `Thread`), `tsd` and `round` of its
destructors, the mutexes and the forked `child`.

| Action | Code |
|---|---|
| `InitThreads`, `InitTSD`, `ThreadEnter` | `InitThreads`, `HwasanTSDInit`, `__hwasan_thread_enter` |
| `GenerateTag`, `Enter`, `Leave` | what code of a thread does: `__hwasan_generate_tag`, malloc and free |
| `ThreadEnds`, `NextRound`, `LastRound` | the C library's rounds (external) |
| `TSDDtor`, `ThreadGone` | `HwasanTSDDtor`, `Thread::Destroy` |
| `ForkBegins`, `TakeLock`, `Fork`, `ForkFails`, `ReleaseLock`, `ForkEnds` | the handlers of `HwasanInstallAtForkHandler` around fork |
| `ChildReleases`, `ChildGoesOn`, `ChildExits` | the child: its handler, its first malloc |

`AliveToTheLast`: a thread has its `Thread` in every round but the last. `ForksEnd` promises a
child only what the code can keep: it may hang if another thread was in malloc or free at the
fork, since the handlers leave `fallback_mutex` alone. One child at a time is followed.

### Symbolizing

State. `mu_`, each thread's `pc` and command, the process with what is in its two pipes,
`buffer_`, `times_restarted_`, `failed_to_start_`.

| Action | Code |
|---|---|
| `SymbolizePC`, `NoAnswer`, `Parse` | `Symbolizer::SymbolizePC`, `ParseSymbolizePCOutput` |
| `BeginSend`, `Refused`, `Loop`, `Restart`, `GiveUp` | `SymbolizerProcess::SendCommand`, `Restart` |
| `Write`, `Read`, `ReadNothing` | `WriteToSymbolizer`, `ReadFromSymbolizer` with `ReachedEndOfOutput` |
| `Produce`, `Die` | llvm-symbolizer (external) |

`AnswersOwn`: no piece of an answer is parsed for another command, by this thread or the
next. `CommandsEnd` under fairness. `AnswersWhole` fails (`answers`). The comparison of
paths in `StartSymbolizerSubprocess` is left out.

### Answers

State. `found` is what the symbolizer has found (frames, a global, or the locals of a frame), `str` what
is left to parse of the text it writes, `cut` how much of it there was; `res` is what the runtime fills.

| Action | Code |
|---|---|
| `SendCommand`, `NoAnswer` | `LLVMSymbolizer::FormatAndSendCommand`: an answer, whole or cut short, or none |
| `ParseFrame`, `NoMoreFrames` | a turn of the loop of `ParseSymbolizePCOutput`, with `ParseFileLineInfo` |
| `ParseGlobal` | `ParseSymbolizeDataOutput`, `SymbolizeData` |
| `ParseLocal`, `NoMoreLocals` | a turn of the loop of `ParseSymbolizeFrameOutput` |

`FramesExact`, `GlobalExact`, `LocalsExact`: of a whole answer what was found is read, with inlined
frames, names of files that have a colon, and unknown fields; of one that is cut short every record but
the last is right. The parser of locals makes one more of the empty line, which covers no address.
What the model makes visible, and `GlobalExact` leaves out: the answer of an older symbolizer, without a
third line, gives a file that is the empty line at its end, and not empty as a comment says
(`sanitizer_symbolizer_libcdep.cpp` 394-397).

### FreeArrays, TransferBatches, LargeMmap

`FreeArrays` is one size class of `SizeClassAllocator64`. State: the free array, what is mapped of
the three parts of a region, `inUse`, `dropped`, and per thread `cache` and `maxCount`; `held` is
what the program has, `died` how the process ended. Actions: `AllocateCached` and `AllocateRefill`
(`Allocate`, `Refill`, `GetFromAllocator`, `PopulateFreeArray` with each mapping refused or not),
`Deallocate`, `Drain` (with `MaybeReleaseToOS`), `ForceReleaseToOS`. An action holds the mutex of
the region once. The lookups (`GetBlockBegin`, `GetMetaData`, `GetSizeClass`, `ForEachChunk`,
`PrintStats`) are operators. Properties: `OneOwner`, `StatsExact`, `LookupsExact`, `ArrayHasRoom`,
`SpacesApart`, `CacheBounded`, `DropsOnlyFree`, `DropsAllFree`. `GetBlockBegin` takes mapped chunks
that are not yet populated for blocks: `LookupsExact` is about pointers into chunks that have been.

`TransferBatches` is `SizeClassAllocator32`: per thread and class a cache, per class a list of batches,
each with where it is stored. A call (`Malloc`, `Free`, `End`) is a step, made of the code's mutually
recursive functions over a record of the state; `edges` is the pairs of mutexes held together.
`OneOwner`, `BatchFits`, `LocksOrdered`, `EndsEmpty`. Two classes: one whose chunks are too small for
their batches, and one that has room.

`LargeMmap`: `Map`, `Register`, `Unregister`, `Unmap` are the halves of `Allocate` and `Deallocate` outside
and under the mutex; `EnsureSortedChunks` and `ForceToggle` its other users; the searches are operators,
evaluated at every state. `ListedMapped`, `WithinMapping`, `ArrayReserved`, `IndicesAgree`, `FastAgrees`,
`HeldFound`. What the model makes visible: `currently_allocated` counts the slack of an alignment,
`TotalMemoryUsed` does not.

### The system layer

| Module | State and actions | Properties |
|---|---|---|
| `InternalLibc` | a small memory; a behaviour calls one function (`CopyMemory`, `CopyString`, `AppendString`, `CompareAndSearch`, `ParseNumber`, `OnTexts`) with any legal arguments | `CopiesExact`, `ResultsExact`: what a reference on sequences says |
| `MmapVector` | `data`, `size`, and `content`, the sequence it stands for; `PushBack`, `PopBack`, `Resize`, `SortAndDedup` | `ContentKept`, `SearchInSorted` |
| `Mappings` | the mapped pages, `total`, the calls of threads between their system calls: `Mmap*`, `Count*`, `TrimHead`, `TrimTail`, `UnmapOrDie`, `LowLevelAllocate` | `BlocksKept`, `LowBlocksApart`, `TotalExact`, `AvailableExact` |
| `Files` | who owns a descriptor, opens in progress: `Open`, `Dup`, `CloseUsed`, `Opened`, `CloseFile`, `GetRandom` and `ReadUrandom`, the program's own | `StandardFdsLeft` |
| `ThreadLister` | threads alive, a read of their directory in progress (external: what the comments of `ListThreads` say of Linux), the list so far | `NoneMissed`: a list that is called Ok has every thread that lived all along |
| `Modules` | loaded modules, the list read of them, queries under `mu_`, invalidation without it | `AnswersCurrent`, `NamesOwned` |

What they make visible: `TemplateMatch` misses some matches before a `$`; `internal_memset`'s fast
path wants its argument to be a byte; `g_total_mmaped` drifts from the mapped pages by what is
unmapped in part (`slack`); `GetRandom` loses a descriptor when a read fails, and
`ReserveStandardFds` takes a failed `dup` for a descriptor; the memory of a cleared list of modules
mostly stays.

### The driver

A mask of sanitizers is a set of kinds and names of groups; kinds that the driver treats alike stand
for one another. `SanitizerDriver`: `Parse` is the constructor of `SanitizerArgs` up to the kinds,
`Link` the choice of runtimes, with what `Linux::getSupportedSanitizers` says of the target.
`SanitizerFlags`: `Settle` is the rest of the constructor, `AddArgs` what the compiler proper is
told. `LinkFlags`: `ParsePICArgs` and `AddRunTimeLibs`, on every platform they tell apart.
Properties: `LastArgumentWins`, `RuntimesFit`; `RecoverExact`, `CoverageExact`, `PieExact`,
`FlagsExact`; `PicExact`, `LibsExact`. `LastArgumentWins` is not about `fuzzer-no-link`, which `fuzzer`
brings with it, nor `object-size`, which is removed where nothing is optimized; `RuntimesFit` not about
kinds that need no runtime.

What they make visible, and the properties leave out: a command line that both disables and
enables a sanitizer loses sight of it (`AllAddedKinds & ~AllRemove`), so that
`-fno-sanitize=cfi -fsanitize=cfi -fsanitize-coverage=edge` keeps coverage that is meant to be
disabled (`SanitizerArgs.cpp` 751-757), and `-fno-sanitize=pointer-compare
-fsanitize=pointer-compare` enables it without `address` (893-897, 935); `pointer-compare` is not
among the kinds that support coverage, so that with it `-fsanitize=address` loses it; flags of
sanitizers that were removed again still reach the compiler; the safe stack's runtime is chosen
from `AllAddedKinds`.

## Runs and bounds

| Run | Instance | What it shows |
|---|---|---|
| `superpool_tags` | 1 pool, 2 regions of 3 chunks, MinChunk 3, 4 live chunks | ownership, tags, the promise to the program. Three chunks are the fewest for a rotation that is neither trivial nor a swap; two regions let a refill collect from several |
| `superpool_lists` | 2 pools of 3 regions of 2 chunks, density setting 2, MinChunk 3, 3 live chunks, random start among 3 | counters, list, loop bounds, termination, `ImplementsLists`. MinChunk is not a multiple of the region's chunks, so a refill ends in the middle of the list, after a wrap, and at its end; a pool stops before it is full, and releases reopen it |
| `front` | `HwasanHeap`: 2 threads, 1 region of 2 chunks; of 2 granules of 2 bytes; in the part `holding` tags 1 to 3, sizes 0 to 3; in the part `dangling` tags 2 and 3, sizes 1 and 3, dangling frees. `EntryPoints`: words of 8 bits and pages of 16, numbers at every edge. `TagChecks`: 4 granules of 4 bytes of stack, 2 of data, 3 frames. `SanitizerDriver`: 13 values, 3 arguments, targets x86_64, aarch64 and riscv64; `SanitizerFlags`: 9 values and 33 other arguments, 3 arguments; `LinkFlags`: 2 options, every platform | ownership, spatial and temporal detection, reports, arguments, command lines. Sizes have all the cases of the code: 0, short first granule, full, full and short; tag 1 is below the granule; the third tag lets a chunk come back with a tag neither it nor its neighbour had |
| `places` | `Dispatch`: the code's size classes and sizes, requests next to every class boundary, alignments 16 to 2^17. `RegionFragment`: 8 chunks, pages of 8 bytes, 11 chunk sizes from 1 to 20, every set of freed chunks. `RegionLists`: 5 regions in two pools, 2 bytes of shadow each, pages of 3. `PersistentAllocator`: 2 threads in malloc and free, 2 that symbolize, 12 units. `LargeChunk`: 2 threads, 18 granules of which the SuperPools take 6, pages of 2, shadow pages of 4, stacks of 2 | places of chunks and what goes back. The sizes take each of the five branches of `check_fast_release_path`; five regions have a head, an end, neighbours and a gap; pages of 3 are shared by some neighbours and not by others |
| `sanitizer_common` | `FreeArrays`: 2 threads, chunk sizes 3, 5, 6, 8, 12, pages of 8, arrays of 10; `TransferBatches`: 2 classes, regions of 8 words, 2 regions; `LargeMmap`: 9 pages, an array mapped by 2; `InternalLibc`: 5 bytes, words of 2, texts of 4; `MmapVector`: 3 elements a page, 6; `Mappings`: 7 pages of 4, 2 threads; `Files`: descriptors 0 to 5; `ThreadLister`: 5 threads in a life, reads of 3 entries, 2 lists; `Modules`: 3 names, 5 addresses, 3 loads; `Answers`: 1 line of two digits, 2 records an answer, cut at every sign | what the runtimes share |
| `process` | `Startup`: addresses of 7 bits, every text of up to 3 characters, the code's size classes; `Threads`: 2 threads, 3 rounds, 3 locks; `Symbolizing`: 2 threads, answers of 3 pieces, 3 restarts, 4 commands | what is around the allocator. Three rounds are a first, a middle and a last one; 4 commands are more than the restarts |

Six runs end in a violation on purpose; each stands for a finding in
`PROJECT.json`:

| Run | What TLC finds |
|---|---|
| `dispatch_large` | more than 64 KiB with an alignment above 16 dies in `CHECK_EQ` (`combined.h:75`): the chunk starts 16 bytes behind a 64 KiB boundary whatever the alignment |
| `persistent_mixed` | a thread that symbolizes while another thread's free runs a release makes the release exit with "Out-of-order deallocation" |
| `fragment_shadow` | the shadow of a fragment is not given back, although `my_tools.cpp:223` says so: the application's pages are advised twice |
| `large_shadow` | the deallocation of a large chunk clears the tags of a stack that begins where the chunk ends |
| `answers` | a symbolizer that dies in the middle of an answer: what has arrived is parsed as a whole one |
| `driver_static` | with `-shared-libsan` the cfi runtime, which has no shared form, is not linked |

The front runs check no liveness: nothing bounds how long a thread spins for
`fallback_mutex`. Deadlock is checked in the runs of `SuperPool`; all others have parts
that stop by themselves: a process that exits, a call that ends, a bound that is reached
(in `Threads`, the child that waits for `fallback_mutex`).

Bounds on the environment and not on the code: `MaxLive`, `MaxHeld`, `MaxHeldBatch` and
`MaxBlocks` (what the program holds), `MaxCommands`, `MaxLoads`, `Rounds` of `ThreadLister`,
`MaxThreads`, `MaxArgs` and `MaxOptions`, `MaxKept`, `MaxLow` and `MaxSlack`. The real sizes are 246
to 255 chunks in a region and MinChunk 256: MinChunk stands to the region's chunks as in the
runs, just above or below, so that a refill needs one region or several. With them
`BatchBounded` gives 256 - 1 + 255 < 1024, the length of the batch array; `GeometryHolds` shows
for the code's own classes what the instances of `SuperPool` assume. The code restarts a
symbolizer 5 times, the run 3 times; the value is compared for equality of the count only.
In `places` the constraint `NotMixed` cuts off what follows an overlap of the two kinds of users of
the persistent allocator, which is the finding `persistent_mixed`. In the driver an argument has
one value; two arguments are what makes order matter, the third undoes a group in part. In
`LinkFlags`, `Unsaid` lets one tool chain stand for all where its answers are not asked for.

Fairness. `SuperPool`'s `FairSpec` adds weak fairness of the steps of an operation in progress:
the thread holds a spin lock and runs on. Nothing makes the program call again, so
allocation and deallocation themselves have no fairness. That the search for a
region finds one is fair because it draws from a generator until it does; it is
part of the step. `Threads` has strong fairness for taking a lock of the fork handlers, since
other threads take and release it meanwhile and the code's mutexes let a waiter in at last
(their queue is woken in turn), and weak fairness for the other steps of a fork, for leaving
malloc and for the child's. Nothing makes a thread fork or end. `Symbolizing` has weak fairness
for a thread that is in a command, and for the process: it answers or dies. A symbolizer that
hangs without dying is waited for for ever, since the code has no timeout.

Each property has a mutant of the code that breaks it (definitions named
`<Operator>_<what>` before their originals), such as a counter that is not
decremented or a guard off by one.

## Proofs

`SuperPoolProofs` proves, for every value of the constants that satisfies
`SuperPoolAssumption` (at least one pool, region and chunk, at most 255 chunks in a
region, any density setting), that `Spec` implies each safety property above, the
two action properties, `ImplementsHeap` and `ImplementsLists`
(`SuperPoolImplementsLists`).

The argument: the invariant `IInv` is the conjunction of the type invariant and
seven of the properties. None is inductive by itself. That a refill keeps tags
unique needs that the freed chunks of the region are apart from those in use
(`SingleOwner`); that a release unmaps no chunk in use needs that `freed_num` counts
the freed chunks (`CountersExact`); that the refill loop reads a region that exists
needs that `free_region_num` is the length of the list (`FreedListExact`); that
`freed_num` does not wrap needs that a chunk is freed only once (`SingleOwner`
again). The heart is `RotatedSlots`: what a refill writes for a region is one
pointer for each freed chunk, with the tags of those chunks, each used once.
`BatchInv` adds, on top of `IInv`, why the batch is bounded and why a new region is
taken; `Conservation` shows, by a bijection between the pointers held and the
chunks of the regions in use, that the chunks in use, cached and freed add up, from
which `NewRegionsWhenNeeded` follows. `SuperPoolImplementsLists` maps each turn of a loop to a
step of `ClusterLists`; `Walk` says which loop `pc` stands for.

`ProgramProofs` proves `OneOwner`, `ShadowExact`, `DanglingDetected` and `ReportsAreTrue` for any
number of threads, regions, chunks, granules and tags, any size of granule from 2 to 255 and any sizes the
program asks for (`HwasanHeapAssumption`; `StaleFrees`, where it is true, with tags that do not read as a
length). They cannot be proved one by one. That a chunk has one owner needs the shadow: a dangling pointer that
passed the comparison of `HwasanDeallocate` would free the chunk of another, and an owner that did not pass it
would take its chunk into a report. That the shadow is exact needs the one owner: nobody else writes the
shadow of a chunk. So `IInv` has both. `Owners` is `OneOwner` pointer by pointer. `Memory` says what the
shadow of every place is: blank if no chunk is in use there; `Written` to the size asked for if the program
holds the chunk or a thread is about to free it; and in between as far as `Progress` says of the malloc
(the four steps of its writes) and `Clearing` of the free. `EveryGranule` draws from them what any
granule can show at any moment, hence `NoMatch`. `EndGranule` is why the last byte is cleared before the shadow gets
the length. Memory is changed in one place by each step (`WritesOwn`) and in a region without chunks in use by
`Shrink`. `Division`, `Product` and `Split` are the arithmetic of granules. The mutex is not needed beyond
the steps of `TaggedHeap` being atomic, which is what the code has it for.

It proves `ChecksExact` of `TagChecks` for any stack, pages, threshold of `__hwasan_handle_longjmp`, sizes of
frames and accesses, and any tags but 0 to 3, which read as lengths of a short granule of 4 bytes
(`CheckConstants`). The invariant `CheckInv` says that the frames lie one below the other (`Stacked`) and that
the shadow of the stack shows them and nothing else (`StackTagged`), which the warning that false
reports may follow suspends (`ignored`); the global's granules show it while it is loaded and are clear
otherwise (`GlobalTagged`). `TaggedIs` says what `TagMemoryAligned` makes of a shadow, `Popped` why
what a return, a longjmp or the end of a vfork clears is what the frames left had, for whichever of
them is left. From `CheckInv` follow both halves: `TagsAreExact`, byte by byte, and
`ReportsAreExact`, for which `Passes` goes through the granules of an access (the first, whole ones,
the tail) and `Found` shows that the search of the report ends at the least byte that fails.

It proves `CallsExact` of `EntryPoints` for any width of a word, any page and alignment and any set of classes
(`CallConstants`). What the argument needs of them: `MaxMalloc` with its header, a granule and a page fits in a word, so
that sums wrap only if the request is refused (`Unwrapped`, `CombinedFits`); pages are a power of two; and a
class that is the least with room for a multiple of a power of two is a multiple of it, which
`ClassKeepsAlignment` in `PlacesProofs` proves of the code's size classes. That powers of two
are positive is a hypothesis, since the provers have no rule for powers. There is one lemma for each group of functions:
`NoOverflow` and `Overflow` are why `calloc` and `reallocarray` refuse exactly the products that do not
fit, `PvallocRounds` why what is rounded up to nothing was refused before, and `Wraps` why the numbers that
do wrap around are too large to be answered with a block.

`PersistentAllocatorProofs` proves `StackExact` (`Apart`, `FreeInOrder` and `ExitsOnlyWhenFull`) for
any number of threads of either kind and any sizes (`ConstantsOK`: no thread is of both kinds). The
allocator has no lock of its own: `Exclusive` says which mutexes its users hold, and `Alone`, that
therefore one thread at most is in it as long as symbolization and malloc have not overlapped.
`Stage` says what `cur_loc` and `last_loc` are at each access of that thread, and that everything
given out lies below (`Below`, kept by `OnTop`). The run `persistent_mixed` shows that the condition
cannot be left out.

`RegionListsProofs` proves `OrderedBothWays` and `ShadowExact` for any set of regions and any sizes
of their shadow and of pages (`ConstantsOK`), and `ImplementsLists` for any finite set of regions,
which an address space has. `Links` says that each link of a region in use leads
to the nearest one (`Above`, `Below`, which need no least element; `Nearest` follows, since a set of
numbers has one, `Least` and `Greatest`); `Predecessor` shows that the search of `insertInOrder`
ends at the nearest region below. That a release unlinks only what is linked, and once, needs the
other list: `Freed` says that the freed list is a chain of different regions in use, and where in it
a loop stands (`Walking`). A refill takes regions from a random start on, around the end, without
unlinking them, so that `in_free_list` is right only outside the stretch it has taken; the repair at
its end cuts that stretch out (`SegmentChain`, `LeftIn`), in one of three ways. A release takes out
single regions (`WithoutChain`, `LeftOut`). For the shadow, `ReleasedExact` shows that two
neighbours are enough: the shadows of regions lie in the order of the list (`ShadowsInOrder`), so
that a region farther away shares a page only if the neighbour does; and that rounding to pages
decides it rightly (`Shadow`, `PagesAre`). For `ImplementsLists` the chain of `Freed` is the list:
`LinkedIs` shows that what `Linked` collects is the chain, which has no region twice and so no more
than there are; `Displayed` says what `ClusterLists` has at each place of a loop in the chain. The
repair at the end of a refill leaves exactly what `Displayed` has counted down to by then (`Left`,
`LeftShows`), straight (`TakeStraightLists`) and around the end (`TakeAroundLists`): this is where
the list of `SuperPool` and the pointers could differ.

`LargeChunkProofs` proves `TagsKept` and `OwnFreesPass` for any number of threads, sizes of
requests, pages and shadow pages (`ConstantsOK`). The assumption on `SuperPool` is that it is at
least as long as any mapping: what starts in front of the SuperPools cannot then end behind them,
which `CTMapBlackCheck`, looking at the two ends only, would let pass. In the code they take 31
times 2^40 bytes and no request is above 2^40 (`kMaxAllowedMallocSize`). The invariant says that
chunks start on boundaries of shadow pages (`Placed`), that what threads are mapping, what chunks
have and the stacks are apart (`Owned`, `Apart`), and that memory nobody has is untagged
(`Untagged`), freed memory excepted that still waits for its shadow (`Left`). Therefore a
deallocation, which clears the shadow up to the end of its last page, reaches no other chunk's; a
stack's it may, which is the finding `large_shadow`.

The modules of the composed instances are INSTANCEs in them. `PlacesProofs` carries the theorems
about `RegionLists`, `PersistentAllocator` and `LargeChunk` over to `MCSpec`: each step of
`MCPlaces` is one of the part's or leaves its variables alone (`ListsStep`, for example; `ClusterListsSame` for the refinement).

`PlacesProofs` proves `DropsExactly` (`DropsOnlyFree` and `DropsAllFree`) of `RegionFragment` for
every size of pages, chunks and header (`ConstantsOK`). The invariant says that after each turn the
pages given back and those of the open range are exactly those seen so far that only freed chunks
lie on (`FreePages`), and that `current_boundary` is the end of the last chunk that starts before
the next page (`Boundary`), which is what the branches for chunks that do not divide a page live on.
`ManyPages`, `ManyChunks` and `MovingBoundary` show, branch by branch, that the number of chunks the
code works out for a page is the number of chunks on it (`Between`); that this many of them are
freed says then that all are (`CountersTell`).

It proves `PlacesExact` of `SizeClassMap` and `Dispatch` for every map whose doublings are cut into whole
distances (`ClassConstants`) and every pool with room for 512 chunks of the largest class, header
of at most 255 of the smallest chunks, requests of any size and alignments that are powers of two from 16 on
(`DispatchConstants`). `ClassID` and `Size` are inverse to each other because a class is a doubling and a
distance in it: `TheNumbers` names them, `InLog` and `LaterDoubling` say in which doubling a size lies, and
`SmallSize` and `LargeSize` that the class `ClassID` names is the first with room (`Best`). That
the chunk is aligned is `ClassKeepsAlignment`; `RoundedUp` carries it over to what `CTAllocateCombined`
asks for. `AddressTells` is the way back: region and chunk are quotients of the address, since a region's
header and chunks take less than what lies between two regions.

`ProcessProofs` proves `AliveToTheLast` of `Threads` for any number of threads, rounds and locks. The property
says nothing of how `tsd` comes to be what the last round needs; `Counting` does: the value counts
down with the rounds, from the moment that the key is there, and the first thread, whose value is
set before the key exists, gets it again in `InitTSD` (`Beginning`).

It proves `StartupExact` of `Startup` for every address space and stack, every set of chunk sizes that leaves a region its
header and a pool its regions, and every early allocation (`StartConstants`; that powers of two
are positive is a hypothesis here too). `InOrder` says of each step of `__hwasan_init` what
those before it have set, `OnStack` where what `DlSymAllocator` gave out lies, also while
a malloc comes back into the initialisation; `NothingUnset` follows. `LayoutFits` is the arithmetic of
`InitShadow`, in granules: wherever the system finds room for it, the shadow is what the application's memory
is mapped to, no more and no less, and apart from it. `GeometryFits` is that of
`init_for_clustertag`: every class has from one to 255 chunks a region, and all its regions have room in the pool.

It proves `AnswersOwn` of `Symbolizing` for any number of threads, pieces and restarts
(`SymbolizingConstants`: an answer has a piece). The invariant says whose the pipes and `buffer_` are: only the
holder of `mu_` is symbolizing (`Exclusive`); between commands the pipes are empty (`Quiet`); while it
reads, `buffer_` and the output pipe together are a beginning of its answer and the process owes
the rest (`Reading`). `Quiet` at the end of a command is why what the next one reads is its own: the
answer was read to its end, or the process, and with it its pipes, is gone.

`DriverProofs` proves `CommandLineExact` and `LinkExact` of `SanitizerDriver`, `SanitizerFlags` and
`LinkFlags` for command lines of any length (`MaxArgs` and `MaxOptions` are any numbers), any values
of the arguments and any target (`DriverConstants`: beyond that, `None` is neither an option of
position independence nor a value). The driver goes through the arguments from the last to the first
and keeps masks of what is still to be removed and already added; the property goes from the first
to the last and lets each argument override those before it (`AskedFor`). Both loops are folds, and
the prover has no induction; what takes its place is the least number. A fold of the community
modules is one chosen function of sets that satisfies the fold's equation: `FoldExists` shows that
there is one, since a smallest set without a value could be given one, and `Suffixes` and `Prefixes`
that its values at the ends (the beginnings) of a command line are those of a loop over it
(`RightRun`, `LeftRun`), for which `Downwards` and `Upwards` are the induction. The invariant of the
main loop, `Told`, says what the masks hold of the arguments read so far (`TurnTells`); `SameFrom`
compares the two loops where they meet: what the whole line asks for is what the driver has enabled
from here on, or what the arguments before ask for and these do not remove. `SameTurn` moves the
meeting point by one argument, and `LastWins` has moved it to the first. The same argument with
other masks is behind recovery and traps (`LastRecovers`), coverage (`LastCovers`) and the choice of
the option of position independence (`LastOfIs`, `PicIs`). `EveryRuntime` goes through the kinds to
find the runtime of each, `OneMalloc` shows by the conflicts `Parse` has refused that no two
allocators are left, and `AroundTells` puts the libraries of `AddLibgcc` in their order for every
platform.

Only model-checked: the properties of the upstream allocators and the system layer
(`FreeArrays`, `TransferBatches`, `LargeMmap`, `InternalLibc`, `MmapVector`, `Mappings`, `Files`, `ThreadLister`,
`Modules`, `Answers`): they are checked in one instance, which uses the recursive operators of `TransferBatches` (the
allocator itself) and of `InternalLibc` (the scans of a string), and so cannot be proved about;
`OperationsEnd`, `ForksEnd` and `CommandsEnd` (liveness under fairness is out of TLAPS's reach); and absence of
deadlock.

## Not modelled

- The front end of large chunks in `HwasanHeap`; the flags that change tagging or fill memory
  (`tag_in_malloc`, `max_malloc_fill_size`, `malloc_bisect`), hooks; programs that free one pointer from
  two threads at once.
- The text of reports: descriptions of an address, stacks, the history of frames. A report ends the process by `internal__exit(99)`, whatever `recover`
  and `halt_on_error` say, and takes no lock. `FindHeapChunkByAddress` is not implemented in the code,
  and with `is_clustertag` the upstream lookups end the process.
- Bounds of stacks and TLS, ring buffers' contents, the random generators.
- In the upstream allocators: contents of metadata, the memory profile, the shuffling of chunks.
- In the system layer: wrappers of one system call, clocks, signal contexts, the parsing of
  ELF headers, operating systems other than Linux. The parsing of options (`HWASAN_OPTIONS`) is not
  part of the repository.
- In the driver: the features of targets, paths of tool chains, ignore lists, LTO, linker options, devices, which set no state
  that another part relies on. They are most of `CommonArgs.cpp` and `Linux.cpp` in lines.
- The compatibility edits in the other sanitizers, and the shell scripts and test programs of the
  evaluation, which exercise the allocator from outside.

The map of `PROJECT.json` covers about 32% of the lines of the implementation; the rest is what this list
names.
