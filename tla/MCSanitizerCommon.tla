--------------------------- MODULE MCSanitizerCommon ---------------------------
(***************************************************************************)
(* TLC instance of what the runtimes of this tree share: the upstream       *)
(* allocators that the other sanitizers use (FreeArrays, TransferBatches,   *)
(* LargeMmap), the library they are written with (InternalLibc, MmapVector, *)
(* and the parsers of Answers), and the system layer (Mappings, Files,       *)
(* ThreadLister, Modules).  They share no state: a behaviour is one of one   *)
(* of them.                                                                *)
(***************************************************************************)
EXTENDS Integers, Sequences, FiniteSets, TLC

CONSTANTS
  Threads, None,
  CacheMax, ChunkSizes, PageSize, UserMapSize, MetaMapSize, ArrayMapSlots, MetadataSize,
  RegionSpace, ArraySlots, WordBits, SpaceBeg, ClassId, NumClasses, MaxHeld,
  BatchRegion, MaxNumCachedHint, MaxBytesCached, MaxRegions, MaxHeldBatch,
  Pages, MapSizes, Alignments, BlockCount,
  Cells, Bytes, Digits, UMax, Word, TextLength,
  Elements, PageElems, MaxElems,
  MapPage, Space, Program, Shadow, Requests, RequestAlignments, LowSizes, MinAlignment,
  Limit, MaxSlack, MaxLow,
  MaxFd, MaxKept,
  MaxThreads, BufferSize, Close, MaxSize, Rounds,
  Names, Addresses, Span, MaxLoads,
  Lines, Base, MaxRecords

VARIABLES
  part,
  chunkSize, array, mappedSlots, allocatedUser, mappedUser, mappedMeta, inUse, since,
  dropped, cache, maxCount, held, died,
  batchCache, list, regions, lost, edges, status, batchHeld, ended,
  pc, mine, largeHeld, mapped, header, chunkIdx, chunks, sorted, reserved, forced,
  before, memory, call, result,
  data, size, content,
  kind, found, str, cut, step, answered, top_frame, res,
  mappedPages, blocks, work, total, slack, low, lowHeld, mapStatus,
  owner, opening, files, noSyscall, mistaken, fileStatus,
  alive, born, lister, threads, listResult, capacity, read, first, position, saved,
  cursor, witnesses, rounds,
  intercepted, loaded, told, modules, fresh, holder, query, answer, steady, reading,
  missed, storage, loads

arrayVars == <<chunkSize, array, mappedSlots, allocatedUser, mappedUser, mappedMeta, inUse,
               since, dropped, cache, maxCount, held, died>>
batchVars == <<batchCache, list, regions, lost, edges, status, batchHeld, ended>>
largeVars == <<pc, mine, largeHeld, mapped, header, chunkIdx, chunks, sorted, reserved, forced>>
libcVars == <<before, memory, call, result>>
vectorVars == <<data, size, content>>
answerVars == <<kind, found, str, cut, step, answered, top_frame, res>>
mapVars == <<mappedPages, blocks, work, total, slack, low, lowHeld, mapStatus>>
fileVars == <<owner, opening, files, noSyscall, mistaken, fileStatus>>
listVars == <<alive, born, lister, threads, listResult, capacity, read, first, position,
              saved, cursor, witnesses, rounds>>
moduleVars == <<intercepted, loaded, told, modules, fresh, holder, query, answer, steady,
                reading, missed, storage, loads>>
allocatorVars == <<arrayVars, batchVars, largeVars>>
systemVars == <<libcVars, vectorVars, answerVars, mapVars, fileVars, listVars, moduleVars>>

(* A class too small for its own batches, and one that has room for them.  *)
BatchSizes == <<2, 4>>

A == INSTANCE FreeArrays WITH MaxCount <- CacheMax, Null <- None
B == INSTANCE TransferBatches WITH
       Sizes <- BatchSizes, RegionSize <- BatchRegion, MaxHeld <- MaxHeldBatch,
       cache <- batchCache, held <- batchHeld
L == INSTANCE LargeMmap WITH Sizes <- MapSizes, held <- largeHeld
C == INSTANCE InternalLibc
V == INSTANCE MmapVector WITH Values <- Elements
P == INSTANCE Answers
M == INSTANCE Mappings WITH
       PageSize <- MapPage, MapSizes <- Requests, Alignments <- RequestAlignments,
       mapped <- mappedPages, held <- blocks, status <- mapStatus
F == INSTANCE Files WITH status <- fileStatus
T == INSTANCE ThreadLister WITH result <- listResult
N == INSTANCE Modules WITH Queries <- Threads

Symmetry == Permutations(Threads)

(* A part that is not taken begins in one state. *)
Init ==
  /\ part \in {"arrays", "batches", "large", "libc", "vector", "answers", "mappings",
               "files", "lister", "modules"}
  /\ A!Init /\ B!Init /\ L!Init
  /\ part # "arrays" => chunkSize = CHOOSE s \in ChunkSizes : TRUE
  /\ IF part = "libc" THEN C!Init
     ELSE before = <<>> /\ memory = before /\ call = [f |-> "none"] /\ result = 0
  /\ IF part = "answers" THEN P!Init
     ELSE /\ kind = "FRAME" /\ found = <<>> /\ str = <<>> /\ cut = 0
          /\ step = "ask" /\ answered = FALSE /\ top_frame = TRUE /\ res = <<>>
  /\ V!Init /\ M!Init /\ F!Init /\ T!Init /\ N!Init
  /\ part # "files" => \A f \in 0 .. 2 : owner[f] = "program"
  /\ part # "modules" => intercepted /\ \A m \in loaded : m.name = CHOOSE n \in Names : TRUE

InArrays == part = "arrays" /\ UNCHANGED <<part, batchVars, largeVars, systemVars>>
InBatches == part = "batches" /\ UNCHANGED <<part, arrayVars, largeVars, systemVars>>
InLarge == part = "large" /\ UNCHANGED <<part, arrayVars, batchVars, systemVars>>
InLibc ==
  part = "libc"
    /\ UNCHANGED <<part, allocatorVars, vectorVars, answerVars, mapVars, fileVars, listVars,
                   moduleVars>>
InVector ==
  part = "vector"
    /\ UNCHANGED <<part, allocatorVars, libcVars, answerVars, mapVars, fileVars, listVars,
                   moduleVars>>
InAnswers ==
  part = "answers"
    /\ UNCHANGED <<part, allocatorVars, libcVars, vectorVars, mapVars, fileVars, listVars,
                   moduleVars>>
InMappings ==
  part = "mappings"
    /\ UNCHANGED <<part, allocatorVars, libcVars, vectorVars, answerVars, fileVars, listVars, moduleVars>>
InFiles ==
  part = "files"
    /\ UNCHANGED <<part, allocatorVars, libcVars, vectorVars, answerVars, mapVars, listVars, moduleVars>>
InLister ==
  part = "lister"
    /\ UNCHANGED <<part, allocatorVars, libcVars, vectorVars, answerVars, mapVars, fileVars, moduleVars>>
InModules ==
  part = "modules"
    /\ UNCHANGED <<part, allocatorVars, libcVars, vectorVars, answerVars, mapVars, fileVars, listVars>>

Next ==
  \/ InArrays /\ A!Next
  \/ InBatches /\ B!Next
  \/ InLarge /\ L!Next
  \/ InLibc /\ C!Next
  \/ InVector /\ V!Next
  \/ InAnswers /\ P!Next
  \/ InMappings /\ M!Next
  \/ InFiles /\ F!Next
  \/ InLister /\ T!Next
  \/ InModules /\ N!Next

Spec == Init /\ [][Next]_<<part, allocatorVars, systemVars>>

(* See OneOwner, StatsExact, LookupsExact, ArrayHasRoom, SpacesApart,        *)
(* CacheBounded, DropsOnlyFree and DropsAllFree in FreeArrays: no chunk is   *)
(* given out twice or lost, the counters know how many are out, a pointer   *)
(* into a chunk leads to it and its metadata, what grows in a region and in  *)
(* a cache stays within its memory, and exactly the pages whose chunks are   *)
(* all in the free array go back.                                          *)
ArraysExact ==
  part = "arrays" =>
    /\ A!OneOwner /\ A!StatsExact /\ A!LookupsExact
    /\ A!ArrayHasRoom /\ A!SpacesApart /\ A!CacheBounded
    /\ A!DropsOnlyFree /\ A!DropsAllFree
(* See OneOwner, BatchFits, LocksOrdered and EndsEmpty in TransferBatches:    *)
(* the storage of a batch is large enough and no one else's, and comes from  *)
(* later classes, so that mutexes nest and drains end.                      *)
BatchesExact ==
  part = "batches" => B!OneOwner /\ B!BatchFits /\ B!LocksOrdered /\ B!EndsEmpty
(* See ListedMapped, WithinMapping, ArrayReserved, IndicesAgree, FastAgrees   *)
(* and HeldFound in LargeMmap: a search reads only headers and array         *)
(* elements that are mapped, chunk_idx is where a chunk is, and both         *)
(* searches find the chunk of every pointer into one.                       *)
LargeExact ==
  part = "large" =>
    /\ L!ListedMapped /\ L!WithinMapping /\ L!ArrayReserved
    /\ L!IndicesAgree /\ L!FastAgrees /\ L!HeldFound
(* See CopiesExact and ResultsExact in InternalLibc, ContentKept and          *)
(* SearchInSorted in MmapVector and FramesExact, GlobalExact and LocalsExact  *)
(* in Answers: copies, searches and parsers do what a reference on sequences *)
(* says, a vector is the sequence of what was put in, and sorts and searches *)
(* it, and what is read from a symbolizer's answer is what it has found.     *)
LibraryExact ==
  /\ part = "libc" => C!CopiesExact /\ C!ResultsExact
  /\ part = "vector" => V!ContentKept /\ V!SearchInSorted
  /\ part = "answers" => P!FramesExact /\ P!GlobalExact /\ P!LocalsExact
(* See BlocksKept, LowBlocksApart, TotalExact and AvailableExact in Mappings,  *)
(* StandardFdsLeft in Files and NoneMissed in ThreadLister: a block keeps its *)
(* pages whatever others map and trim, and the total is that of the pages     *)
(* mapped; files of the runtime never get descriptors 0, 1 and 2; and a list  *)
(* of threads called Ok has every thread that lived all along.              *)
SystemExact ==
  /\ part = "mappings" =>
       M!BlocksKept /\ M!LowBlocksApart /\ M!TotalExact /\ M!AvailableExact
  /\ part = "files" => F!StandardFdsLeft
  /\ part = "lister" => T!NoneMissed
(* See AnswersCurrent and NamesOwned in Modules: an address in a module that  *)
(* was loaded all along is found in it, and the names given out stay.       *)
ModulesExact == part = "modules" => N!AnswersCurrent /\ N!NamesOwned

==============================================================================
