------------------------------- MODULE Mappings -------------------------------
(***************************************************************************)
(* Memory that the runtime maps and unmaps (sanitizer_posix.cpp), what it    *)
(* counts of it against mmap_limit_mb (sanitizer_common.cpp), and            *)
(* LowLevelAllocator, which never frees (sanitizer_allocator.cpp).  Threads  *)
(* map at the same time, and between the steps of an aligned mapping any of  *)
(* them may get the pages that another has just given back.                *)
(***************************************************************************)
EXTENDS Integers, FiniteSets

CONSTANTS
  Threads,
  PageSize,      \* bytes of a page
  Space,         \* bound: pages of the address space, from page 1
  Program,       \* pages of the program
  Shadow,        \* pages reserved for the runtime, which maps them where it wants
  MapSizes,      \* sizes of requests, whole pages or not
  Alignments,    \* powers of 2 from PageSize
  LowSizes,      \* sizes that LowLevelAllocator is asked for
  MinAlignment,  \* low_level_alloc_min_alignment
  Limit,         \* mmap_limit_mb, in bytes
  MaxSlack,      \* bound: bytes unmapped but not counted
  MaxLow,        \* bound: blocks of LowLevelAllocator
  None

VARIABLES
  mapped,   \* pages mapped by the runtime
  held,     \* the block of each thread: its first byte, and the size asked for
  work,     \* what a thread has still to do, [op |-> "idle"] if nothing
  total,    \* g_total_mmaped
  slack,    \* bytes of unmapped pages that total has kept
  low,      \* allocated_current_ and allocated_end_
  lowHeld,  \* the blocks LowLevelAllocator has given out
  status    \* "runs", "limit" or "no memory"

vars == <<mapped, held, work, total, slack, low, lowHeld, status>>

Idle == [op |-> "idle"]
RoundUpTo(n, boundary) == ((n + boundary - 1) \div boundary) * boundary

(* The pages of bytes beg to end - 1. *)
PagesOf(beg, end) == (beg \div PageSize) .. (end - 1) \div PageSize

Init ==
  /\ mapped = {} /\ held = [t \in Threads |-> None] /\ work = [t \in Threads |-> Idle]
  /\ total = 0 /\ slack = 0
  /\ low = [cur |-> 0, end |-> 0] /\ lowHeld = {}
  /\ status = "runs"

(* The kernel's mmap of size bytes, which may be anywhere.                  *)
Places(size) ==
  {b \in {p * PageSize : p \in 1 .. Space} :
     /\ PagesOf(b, b + size) \subseteq 1 .. Space
     /\ PagesOf(b, b + size) \cap (mapped \cup Program \cup Shadow) = {}}

(* IncreaseTotalMmap, which ends the process above the limit.               *)
Increased(size) == total + size
Within(size) == Increased(size) < Limit

Unmap(beg, size) == mapped \ PagesOf(beg, beg + size)

------------------------------------------------------------------------------
(* MmapOrDie, MmapNoReserveOrDie and MmapOrDieOnFatalError, whose callers    *)
(* can do without memory; then the step that counts it.                    *)
Mmap(t, size, orDie) ==
  /\ work[t] = Idle /\ held[t] = None
  /\ LET bytes == RoundUpTo(size, PageSize)
     IN  \/ \E b \in Places(bytes) :
              /\ mapped' = mapped \cup PagesOf(b, b + bytes)
              /\ work' = [work EXCEPT ![t] = [op |-> "count", beg |-> b, asked |-> size, bytes |-> bytes]]
              /\ UNCHANGED status
         \/ /\ Places(bytes) = {}
            /\ status' = IF orDie THEN "no memory" ELSE status
            /\ UNCHANGED <<mapped, work>>
  /\ UNCHANGED <<held, total, slack, low, lowHeld>>

CountMmap(t) ==
  /\ work[t].op = "count"
  /\ total' = Increased(work[t].bytes)
  /\ status' = IF Within(work[t].bytes) THEN status ELSE "limit"
  /\ held' = [held EXCEPT ![t] = [beg |-> work[t].beg, size |-> work[t].asked]]
  /\ work' = [work EXCEPT ![t] = Idle]
  /\ UNCHANGED <<mapped, slack, low, lowHeld>>

(* MmapFixedOrDie, of pages that are reserved.                              *)
MmapFixed(t, size) ==
  /\ work[t] = Idle /\ held[t] = None
  /\ \E b \in {p * PageSize : p \in Shadow} :
       LET bytes == RoundUpTo(size, PageSize)
       IN  /\ PagesOf(b, b + bytes) \subseteq Shadow \ mapped
           /\ mapped' = mapped \cup PagesOf(b, b + bytes)
           /\ work' = [work EXCEPT ![t] = [op |-> "count", beg |-> b, asked |-> size, bytes |-> bytes]]
  /\ UNCHANGED <<held, total, slack, low, lowHeld, status>>

(* MmapAlignedOrDieOnFatalError maps the alignment more than it needs.      *)
MmapAligned(t, size, alignment) ==
  /\ work[t] = Idle /\ held[t] = None
  /\ LET asked == RoundUpTo(size, PageSize)
         mapSize == asked + alignment
     IN  /\ \E b \in Places(mapSize) :
              /\ mapped' = mapped \cup PagesOf(b, b + mapSize)
              /\ work' = [work EXCEPT ![t] = [op |-> "countAligned", beg |-> b, size |-> asked,
                                                bytes |-> mapSize, alignment |-> alignment]]
         /\ UNCHANGED <<held, total, slack, low, lowHeld, status>>

CountAligned(t) ==
  /\ work[t].op = "countAligned"
  /\ total' = Increased(work[t].bytes)
  /\ status' = IF Within(work[t].bytes) THEN status ELSE "limit"
  /\ work' = [work EXCEPT ![t].op = "head"]
  /\ UNCHANGED <<mapped, held, slack, low, lowHeld>>

(* Mutant: the block begins where its alignment ends below the mapping.     *)
AlignedStart_Down(beg, alignment) == (beg \div alignment) * alignment

AlignedStart(beg, alignment) == RoundUpTo(beg, alignment)

(* UnmapOrDie of what is before the aligned block.                          *)
TrimHead(t) ==
  /\ work[t].op = "head"
  /\ LET w == work[t]
         res == AlignedStart(w.beg, w.alignment)
     IN  /\ mapped' = IF res = w.beg THEN mapped ELSE Unmap(w.beg, res - w.beg)
         /\ total' = total - (res - w.beg)
         /\ work' = [work EXCEPT ![t] = [op |-> "tail", beg |-> res, size |-> w.size,
                                           mapEnd |-> w.beg + w.bytes, alignment |-> w.alignment]]
  /\ UNCHANGED <<held, slack, low, lowHeld, status>>

(* UnmapOrDie of what is after it.                                          *)
TrimTail(t) ==
  /\ work[t].op = "tail"
  /\ LET w == work[t]
         end == RoundUpTo(w.beg + w.size, PageSize)
     IN  /\ mapped' = IF end = w.mapEnd THEN mapped ELSE Unmap(end, w.mapEnd - end)
         /\ total' = total - (w.mapEnd - end)
         /\ held' = [held EXCEPT ![t] = [beg |-> w.beg, size |-> w.size]]
  /\ work' = [work EXCEPT ![t] = Idle]
  /\ UNCHANGED <<slack, low, lowHeld, status>>

(* UnmapOrDie of a block, with the size that was asked for or with whole     *)
(* pages; then the step that no longer counts it.                          *)
UnmapOrDie(t, size) ==
  /\ work[t] = Idle /\ held[t] # None
  /\ size \in {held[t].size, RoundUpTo(held[t].size, PageSize)}
  /\ slack + RoundUpTo(size, PageSize) - size <= MaxSlack
  /\ mapped' = Unmap(held[t].beg, size)
  /\ held' = [held EXCEPT ![t] = None]
  /\ work' = [work EXCEPT ![t] = [op |-> "uncount", bytes |-> size]]
  /\ UNCHANGED <<total, slack, low, lowHeld, status>>

UncountMmap(t) ==
  /\ work[t].op = "uncount"
  /\ total' = total - work[t].bytes
  /\ slack' = slack + RoundUpTo(work[t].bytes, PageSize) - work[t].bytes
  /\ work' = [work EXCEPT ![t] = Idle]
  /\ UNCHANGED <<mapped, held, low, lowHeld, status>>

(* LowLevelAllocator::Allocate, whose callers hold a lock.  What is left of  *)
(* its mapping is not used again when a block does not fit in it.           *)
LowLevelAllocate(size) ==
  LET bytes == RoundUpTo(size, MinAlignment)
      fits == low.end - low.cur >= bytes
      fresh == RoundUpTo(bytes, PageSize)
      Take(b, end) ==
        /\ low' = [cur |-> b + bytes, end |-> end]
        /\ lowHeld' = lowHeld \cup {[beg |-> b, end |-> b + bytes]}
  IN  /\ Cardinality(lowHeld) < MaxLow
      /\ \/ fits /\ Take(low.cur, low.end) /\ UNCHANGED <<mapped, total, status>>
         \/ /\ ~fits
            /\ \E b \in Places(fresh) :
                 Take(b, b + fresh) /\ mapped' = mapped \cup PagesOf(b, b + fresh)
            /\ total' = Increased(fresh)
            /\ status' = IF Within(fresh) THEN status ELSE "limit"
      /\ UNCHANGED <<held, work, slack>>

------------------------------------------------------------------------------
(* MemoryRangeIsAvailable of first .. last, from the segments of the maps.   *)

IntervalsAreSeparate(start1, end1, start2, end2) == end1 < start2 \/ end2 < start1

Segments == {[start |-> p * PageSize, end |-> (p + 1) * PageSize] : p \in mapped \cup Program}

MemoryRangeIsAvailable(first, last) ==
  \A s \in Segments : IntervalsAreSeparate(s.start, s.end - 1, first, last)

------------------------------------------------------------------------------
Next ==
  /\ status = "runs"
  /\ \/ \E t \in Threads :
          \/ \E size \in MapSizes, orDie \in BOOLEAN : Mmap(t, size, orDie)
          \/ \E size \in MapSizes : MmapFixed(t, size)
          \/ \E size \in MapSizes, alignment \in Alignments : MmapAligned(t, size, alignment)
          \/ \E size \in MapSizes \cup {RoundUpTo(s, PageSize) : s \in MapSizes} : UnmapOrDie(t, size)
          \/ CountMmap(t) \/ CountAligned(t) \/ TrimHead(t) \/ TrimTail(t) \/ UncountMmap(t)
     \/ \E size \in LowSizes : LowLevelAllocate(size)

Spec == Init /\ [][Next]_vars

------------------------------------------------------------------------------
(* Whoever maps, a block keeps its pages to itself until it is given back:   *)
(* what another thread trims off an aligned mapping is never part of it, an  *)
(* aligned block is aligned, and what the threads do not hold is unmapped.   *)
BlocksKept ==
  LET blocks == {held[t] : t \in {u \in Threads : held[u] # None}}
      BlockPages(b) == PagesOf(b.beg, b.beg + b.size)
      lowPages == UNION {PagesOf(b.beg, b.end) : b \in lowHeld}
                    \cup (IF low.cur < low.end THEN PagesOf(low.cur, low.end) ELSE {})
      inWork == UNION {IF work[t].op \in {"count", "countAligned", "head"}
                         THEN PagesOf(work[t].beg, work[t].beg + work[t].bytes)
                       ELSE IF work[t].op = "tail" THEN PagesOf(work[t].beg, work[t].mapEnd)
                       ELSE {} : t \in Threads}
  IN  /\ \A t, u \in Threads : t # u /\ held[t] # None /\ held[u] # None
           => BlockPages(held[t]) \cap BlockPages(held[u]) = {}
      /\ UNION {BlockPages(b) : b \in blocks} \cap (lowPages \cup inWork) = {}
      /\ mapped = UNION {BlockPages(b) : b \in blocks} \cup lowPages \cup inWork
      /\ mapped \cap Program = {}
      /\ \A t \in Threads : work[t].op = "tail" => work[t].beg % work[t].alignment = 0

(* LowLevelAllocator's blocks are aligned, apart and in its mappings.        *)
LowBlocksApart ==
  /\ \A b \in lowHeld : b.beg % MinAlignment = 0 /\ PagesOf(b.beg, b.end) \subseteq mapped
  /\ \A b, c \in lowHeld : b = c \/ b.end <= c.beg \/ c.end <= b.beg

(* When no thread is at work, g_total_mmaped counts every mapped page, and   *)
(* nothing else but the ends of pages that were unmapped with sizes that     *)
(* were not whole pages; so that a running process is within its limit.     *)
TotalExact ==
  (\A t \in Threads : work[t] = Idle) =>
    /\ total = Cardinality(mapped) * PageSize + slack
    /\ status = "runs" => total < Limit

(* A range is available when none of its bytes is mapped.                   *)
AvailableExact ==
  \A first, last \in UNION {{p * PageSize - 1, p * PageSize} : p \in 2 .. Space} :
    first <= last =>
      (MemoryRangeIsAvailable(first, last) <=> PagesOf(first, last + 1) \cap (mapped \cup Program) = {})

==============================================================================
