------------------------------ MODULE LargeChunk ------------------------------
(***************************************************************************)
(* Large chunks: their mappings, their headers and the shadow that goes    *)
(* with them (CTAllocateLargeChunk and CTDeallocateLargeChunk in           *)
(* sanitizer_allocator_local_cache.h and sanitizer_allocator_primary64.h,  *)
(* MmapAlignedOrDieOnFatalError, and the checks of HwasanDeallocate).      *)
(*                                                                         *)
(* The unit is a granule, which has one byte of shadow.  Malloc and free   *)
(* hold fallback_mutex, but the stacks of threads come and go between      *)
(* their system calls, and have tags of their own.                         *)
(***************************************************************************)
EXTENDS Integers, FiniteSets

CONSTANTS
  Threads,
  Tags,        \* tags, 0 for none
  Page,        \* granules of a page
  ShadowPage,  \* granules whose shadow fills a page, which addr_alignment is too
  Space,       \* bound: the addresses mmap has, from 0 on
  SuperPool,   \* those of them from superPoolBase to superPoolEnd
  Sizes,       \* bound: sizes of requests
  StackSize,
  None

VARIABLES
  heap,    \* granules mapped for large chunks
  stack,   \* granules of the stacks of threads
  shadow,  \* the tag of each granule
  chunks,  \* the chunks the program holds: where the header is, sizes and tag
  mutex,   \* the holder of fallback_mutex
  pc,
  work,    \* the chunk a thread is allocating or deallocating
  died

vars == <<heap, stack, shadow, chunks, mutex, pc, work, died>>

Addresses == 0..(Space - 1)
Range(beg, n) == beg..(beg + n - 1)
RoundDownTo(n, boundary) == (n \div boundary) * boundary
RoundUpTo(n, boundary) == RoundDownTo(n + boundary - 1, boundary)

Init ==
  /\ heap = {} /\ stack = {}
  /\ shadow = [g \in Addresses |-> 0]
  /\ chunks = {}
  /\ mutex = None
  /\ pc = [t \in Threads |-> "idle"]
  /\ work = [t \in Threads |-> None]
  /\ died = "no"

At(t, l, m) == pc[t] = l /\ pc' = [pc EXCEPT ![t] = m]

------------------------------------------------------------------------------
(* Allocation *)

(* Mutant: a chunk is aligned as any mapping is. *)
Aligned_Page(beg) == beg

(* Where a chunk is in a mapping at beg. *)
Aligned(beg) == RoundUpTo(beg, ShadowPage)

(* map_size *)
MapSize(size) == RoundUpTo(size + 1, Page)

(* The lock, and mmap of the chunk and its alignment, where the system      *)
(* likes it, or nowhere.                                                   *)
Map(t, size, tag) ==
  LET n == MapSize(size)
  IN  /\ mutex = None
      /\ mutex' = t
      /\ At(t, "idle", "front")
      /\ \/ \E page \in 0..((Space - n - ShadowPage) \div Page) :
              LET beg == page * Page
              IN  /\ Range(beg, n + ShadowPage) \cap (heap \cup stack) = {}
                  /\ heap' = heap \cup Range(beg, n + ShadowPage)
                  /\ work' = [work EXCEPT ![t] =
                       [at |-> Aligned(beg), size |-> size, tag |-> tag,
                        allocated |-> n, mapped |-> Range(beg, n + ShadowPage)]]
                  /\ UNCHANGED died
         \/ died' = "no memory" /\ UNCHANGED <<heap, work>>
      /\ UNCHANGED <<stack, shadow, chunks>>

(* UnmapOrDie of what lies before the chunk. *)
TrimFront(t) ==
  /\ At(t, "front", "back")
  /\ heap' = heap \ {g \in work[t].mapped : g < work[t].at}
  /\ UNCHANGED <<stack, shadow, chunks, mutex, work, died>>

(* UnmapOrDie of what lies behind it. *)
TrimBack(t) ==
  /\ At(t, "back", "tag")
  /\ heap' = heap \ {g \in work[t].mapped : g >= work[t].at + work[t].allocated}
  /\ UNCHANGED <<stack, shadow, chunks, mutex, work, died>>

(* CTMapBlackCheck, for the SuperPool: the first address and the one behind *)
(* the last are looked at.                                                 *)
BlackCheck(beg, n) == beg \notin SuperPool /\ beg + n \notin SuperPool

(* The rest of HwasanAllocate: the header written, the chunk tagged. *)
Tag(t) ==
  LET w == work[t]
      c == [at |-> w.at, size |-> w.size, allocated |-> w.allocated, tag |-> w.tag]
  IN  /\ At(t, "tag", "idle")
      /\ IF BlackCheck(w.at, w.allocated)
           THEN /\ shadow' = [g \in Addresses |->
                                IF g \in Range(w.at + 1, w.size) THEN w.tag ELSE shadow[g]]
                /\ chunks' = chunks \cup {c}
                /\ UNCHANGED died
           ELSE died' = "black" /\ UNCHANGED <<shadow, chunks>>
      /\ work' = [work EXCEPT ![t] = None]
      /\ mutex' = None
      /\ UNCHANGED <<heap, stack>>

------------------------------------------------------------------------------
(* Deallocation *)

(* The checks of HwasanDeallocate, before the lock: the tags match, and the *)
(* shadow before the chunk, the header's, is 0.                            *)
Check(t, c) ==
  /\ At(t, "idle", "lock")
  /\ c \in chunks
  /\ chunks' = chunks \ {c}
  /\ work' = [work EXCEPT ![t] = c]
  /\ died' = IF shadow[c.at + 1] # c.tag THEN "reported"
             ELSE IF shadow[c.at] # 0 THEN "not at chunk start"
             ELSE died
  /\ UNCHANGED <<heap, stack, shadow, mutex>>

Lock(t) ==
  /\ At(t, "lock", "remap")
  /\ mutex = None
  /\ mutex' = t
  /\ UNCHANGED <<heap, stack, shadow, chunks, work, died>>

(* Mutant: only the pages that the chunk's shadow fills are mapped anew. *)
Remapped_Inside(c) ==
  RoundUpTo(c.at, ShadowPage)..(RoundDownTo(c.at + c.allocated, ShadowPage) - 1)

(* The shadow that CTFixedMapForced maps anew. *)
Remapped(c) ==
  RoundDownTo(c.at, ShadowPage)..(RoundUpTo(c.at + c.allocated, ShadowPage) - 1)

RemapShadow(t) ==
  /\ At(t, "remap", "unmap")
  /\ shadow' = [g \in Addresses |-> IF g \in Remapped(work[t]) THEN 0 ELSE shadow[g]]
  /\ UNCHANGED <<heap, stack, chunks, mutex, work, died>>

(* UnmapOrDie of header and chunk. *)
Unmap(t) ==
  /\ At(t, "unmap", "idle")
  /\ heap' = heap \ Range(work[t].at, work[t].allocated)
  /\ work' = [work EXCEPT ![t] = None]
  /\ mutex' = None
  /\ UNCHANGED <<stack, shadow, chunks, died>>

------------------------------------------------------------------------------
(* Stacks of threads, one at a time: mapped by the C library, tagged by the *)
(* functions that run on them and untagged when these return.              *)

StackBegin ==
  /\ stack = {}
  /\ \E page \in 0..((Space - StackSize) \div Page) :
       /\ Range(page * Page, StackSize) \cap heap = {}
       /\ stack' = Range(page * Page, StackSize)
  /\ UNCHANGED <<heap, shadow, chunks, mutex, pc, work, died>>

StackTag(g, tag) ==
  /\ g \in stack
  /\ shadow' = [shadow EXCEPT ![g] = tag]
  /\ UNCHANGED <<heap, stack, chunks, mutex, pc, work, died>>

StackEnd ==
  /\ stack # {} /\ \A g \in stack : shadow[g] = 0
  /\ stack' = {}
  /\ UNCHANGED <<heap, shadow, chunks, mutex, pc, work, died>>

Next ==
  /\ died = "no"
  /\ \/ \E t \in Threads :
          \/ \E size \in Sizes, tag \in Tags : Map(t, size, tag)
          \/ TrimFront(t)
          \/ TrimBack(t)
          \/ Tag(t)
          \/ \E c \in chunks : Check(t, c)
          \/ Lock(t)
          \/ RemapShadow(t)
          \/ Unmap(t)
     \/ StackBegin
     \/ \E g \in Addresses, tag \in Tags \cup {0} : StackTag(g, tag)
     \/ StackEnd

Spec == Init /\ [][Next]_vars

------------------------------------------------------------------------------
(* Properties *)

(* A large chunk has its mapping to itself and keeps its tags until it is    *)
(* freed, although every deallocation maps shadow anew out to page          *)
(* boundaries: it is the alignment of the chunks that keeps them apart.     *)
TagsKept ==
  \A c \in chunks :
    /\ Range(c.at, c.allocated) \subseteq heap \ (stack \cup SuperPool)
    /\ \A g \in Range(c.at + 1, c.size) : shadow[g] = c.tag

(* Only held chunks and stacks have tags, so that the free of a chunk the    *)
(* program holds always passes the checks, the one for its header's shadow  *)
(* included, wherever earlier chunks and stacks have been.                  *)
OwnFreesPass == died \notin {"reported", "not at chunk start"}

(* A deallocation shall "release its shadow memory"                         *)
(* (sanitizer_allocator_primary64.h:694), that of the chunk: tags in the    *)
(* stack of a thread are not touched.                                      *)
OnlyItsShadow ==
  [][\A t \in Threads :
       pc[t] = "remap" /\ pc'[t] = "unmap" => \A g \in stack : shadow'[g] = shadow[g]]_vars

==============================================================================
