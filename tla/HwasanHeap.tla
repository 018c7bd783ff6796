------------------------------ MODULE HwasanHeap ------------------------------
(***************************************************************************)
(* The front end of the allocator: malloc, free and realloc of several     *)
(* threads over one SuperPool (hwasan_allocator.cpp).                      *)
(*                                                                         *)
(* A thread in malloc holds fallback_mutex while it takes a chunk from the *)
(* SuperPool and writes the chunk's tag to the shadow.  A thread in free   *)
(* compares the pointer's tag with the shadow and clears the shadow before *)
(* it takes the mutex to give the chunk back.  realloc is a malloc, a copy *)
(* and a free.  The SuperPool is a TaggedHeap: SuperPool implements it.    *)
(*                                                                         *)
(* Memory is as coarse as the tags: each granule of Granule bytes has a    *)
(* shadow byte, the tag of its chunk or, for a granule in use only in its  *)
(* first k < Granule bytes, k; the tag of such a granule is in its last    *)
(* byte.                                                                   *)
(***************************************************************************)
EXTENDS Integers, FiniteSets

CONSTANTS
  Thread,
  Region, Chunk, Tag,
  Granule,    \* kShadowAlignment
  Granules,   \* granules of a chunk
  Sizes,      \* bound: the sizes the program asks for
  StaleFrees, \* bound: whether the program frees dangling pointers too
  NoThread, NoSlot

(* A dangling pointer with a tag below Granule can pass the comparison and  *)
(* free the chunk of another: that is left out, by the fifth conjunct.      *)
ASSUME HwasanHeapAssumption ==
  /\ Tag \subseteq 1..255
  /\ Granule \in 2..255 /\ Granules \in Nat \ {0}
  /\ Sizes \subseteq 0..(Granule * Granules)
  /\ StaleFrees \in BOOLEAN
  /\ StaleFrees => Tag \cap 1..(Granule - 1) = {}
  /\ NoThread \notin Thread

Slot == [region : Region, chunk : Chunk, tag : Tag]

ASSUME NoSlotAssumption == NoSlot \notin Slot

VARIABLES
  mapped, live, \* the SuperPool: regions, and chunks it has handed out
  shadow,       \* the shadow byte of each granule of each chunk
  lastByte,     \* the last byte of each granule, or Data
  mutex,        \* the holder of fallback_mutex
  pc,           \* where each thread stands
  size,         \* the argument new_size or orig_size of its call
  old,          \* the pointer it frees or reallocates
  new,          \* the pointer it is about to return
  held,         \* what the program holds: pointers with the sizes asked for
  stale,        \* the dangling pointer the program keeps, if any
  exited        \* the process has exited

Heap == INSTANCE TaggedHeap

memory == <<shadow, lastByte>>
heap == <<mapped, live>>
vars == <<heap, memory, mutex, pc, size, old, new, held, stale, exited>>

Place == Region \X Chunk
PlaceOf(s) == <<s.region, s.chunk>>
ChunkSize == Granule * Granules
Offset == 0..(ChunkSize - 1)

(* The last byte of a granule when it belongs to the program's data. *)
Data == 256

(* Mutant: a chunk of size 0 gets no shadow. *)
TagSize_Zero(n) == n

(* The bytes the shadow lets the program use: tag_size. *)
TagSize(n) == IF n = 0 THEN 1 ELSE n

Init ==
  /\ Heap!Init
  /\ shadow = [x \in Place |-> [g \in 0..(Granules - 1) |-> 0]]
  /\ lastByte = [x \in Place |-> [g \in 0..(Granules - 1) |-> 0]]
  /\ mutex = NoThread
  /\ pc = [t \in Thread |-> "idle"]
  /\ size = [t \in Thread |-> 0]
  /\ old = [t \in Thread |-> NoSlot]
  /\ new = [t \in Thread |-> NoSlot]
  /\ held = {} /\ stale = {}
  /\ exited = FALSE

(* PossiblyShortTagMatches for one byte at offset o of place x, when a      *)
(* granule's last byte may be any of the given ones.                       *)
TagMatches(tag, x, o, bytes) ==
  LET g == o \div Granule
      memTag == shadow[x][g]
  IN  \/ memTag = tag
      \/ /\ memTag < Granule
         /\ (o % Granule) + 1 <= memTag
         /\ lastByte[x][g] \in bytes

(* It returns true whatever the program's data are, or for some of them. *)
Matches(tag, x, o) == TagMatches(tag, x, o, {tag})
MayMatch(tag, x, o) == TagMatches(tag, x, o, {tag, Data})

------------------------------------------------------------------------------
(* HwasanAllocate *)

(* Bound: the program asks for no chunk the instance has no place for. *)
Room ==
  Cardinality(live) + Cardinality({t \in Thread : pc[t] \in {"wait", "allocate"}})
    < Cardinality(Place)

CallMalloc(t, n) ==
  /\ pc[t] = "idle"
  /\ Room
  /\ size' = [size EXCEPT ![t] = n]
  /\ pc' = [pc EXCEPT ![t] = "wait"]
  /\ UNCHANGED <<heap, memory, mutex, old, new, held, stale, exited>>

(* SpinMutexLock l(&fallback_mutex) *)
Acquire(t, from, to) ==
  /\ pc[t] = from
  /\ mutex = NoThread
  /\ mutex' = t
  /\ pc' = [pc EXCEPT ![t] = to]
  /\ UNCHANGED <<heap, memory, size, old, new, held, stale, exited>>

LockAllocate(t) == Acquire(t, "wait", "allocate")

(* The allocator takes a new region for the chunk. *)
Grow(t) ==
  /\ pc[t] = "allocate"
  /\ \E r \in Region : Heap!Map(r)
  /\ UNCHANGED <<memory, mutex, pc, size, old, new, held, stale, exited>>

(* allocator.Allocate *)
TakeChunk(t) ==
  /\ pc[t] = "allocate"
  /\ \E s \in Slot : Heap!Malloc(s) /\ new' = [new EXCEPT ![t] = s]
  /\ pc' = [pc EXCEPT ![t] = "fill"]
  /\ UNCHANGED <<memory, mutex, size, old, held, stale, exited>>

(* Mutant: the byte keeps what it had. *)
FillTail_None(t) ==
  /\ pc[t] = "fill"
  /\ pc' = [pc EXCEPT ![t] = "tagFull"]
  /\ UNCHANGED <<heap, memory, mutex, size, old, new, held, stale, exited>>

(* The byte that will hold the tag of a short granule is cleared: it may    *)
(* still be the tag of the chunk's last owner.                             *)
FillTail(t) ==
  /\ pc[t] = "fill"
  /\ lastByte' =
       LET n == size[t]
       IN  IF n % Granule = 0 /\ n # 0
             THEN lastByte
             ELSE [lastByte EXCEPT ![PlaceOf(new[t])][n \div Granule] = 0]
  /\ pc' = [pc EXCEPT ![t] = "tagFull"]
  /\ UNCHANGED <<heap, shadow, mutex, size, old, new, held, stale, exited>>

(* The granules in use to their end get the tag; their bytes are data. *)
TagFull(t) ==
  LET x == PlaceOf(new[t])
      full == 0..(TagSize(size[t]) \div Granule - 1)
  IN  /\ pc[t] = "tagFull"
      /\ shadow' = [shadow EXCEPT ![x] =
                      [g \in DOMAIN @ |-> IF g \in full THEN new[t].tag ELSE @[g]]]
      /\ lastByte' = [lastByte EXCEPT ![x] =
                        [g \in DOMAIN @ |-> IF g \in full THEN Data ELSE @[g]]]
      /\ pc' = [pc EXCEPT ![t] = "tagShort"]
      /\ UNCHANGED <<heap, mutex, size, old, new, held, stale, exited>>

(* The shadow of a short granule is the number of its bytes in use. *)
TagShort(t) ==
  LET n == TagSize(size[t])
  IN  /\ pc[t] = "tagShort"
      /\ shadow' = IF n % Granule = 0
                     THEN shadow
                     ELSE [shadow EXCEPT ![PlaceOf(new[t])][n \div Granule] = n % Granule]
      /\ pc' = [pc EXCEPT ![t] = "tagByte"]
      /\ UNCHANGED <<heap, lastByte, mutex, size, old, new, held, stale, exited>>

(* And its tag goes to its last byte. *)
TagByte(t) ==
  LET n == TagSize(size[t])
  IN  /\ pc[t] = "tagByte"
      /\ lastByte' = IF n % Granule = 0
                       THEN lastByte
                       ELSE [lastByte EXCEPT ![PlaceOf(new[t])][n \div Granule] = new[t].tag]
      /\ pc' = [pc EXCEPT ![t] = "return"]
      /\ UNCHANGED <<heap, shadow, mutex, size, old, new, held, stale, exited>>

(* What a call gives the program: malloc and realloc a pointer, free none. *)
Given(t) ==
  IF new[t] = NoSlot THEN {} ELSE {[slot |-> new[t], size |-> size[t]]}

(* A malloc returns the pointer; a realloc goes on to copy. *)
Return(t) ==
  /\ pc[t] = "return"
  /\ mutex' = NoThread
  /\ IF old[t] = NoSlot
       THEN /\ held' = held \cup Given(t)
            /\ new' = [new EXCEPT ![t] = NoSlot]
            /\ pc' = [pc EXCEPT ![t] = "idle"]
       ELSE /\ pc' = [pc EXCEPT ![t] = "copy"]
            /\ UNCHANGED <<held, new>>
  /\ UNCHANGED <<heap, memory, size, old, stale, exited>>

------------------------------------------------------------------------------
(* HwasanReallocate *)

(* The comparison of a pointer's tag with the shadow of its first byte: on  *)
(* a mismatch the process reports and exits.                               *)
Check(t, s, to) ==
  \/ /\ MayMatch(s.tag, PlaceOf(s), 0)
     /\ pc' = [pc EXCEPT ![t] = to]
  \/ /\ ~Matches(s.tag, PlaceOf(s), 0)
     /\ pc' = [pc EXCEPT ![t] = "report"]

(* The program may keep the pointer it gives up. *)
GiveUp(h) ==
  /\ held' = held \ {h}
  /\ stale' \in {stale} \cup (IF StaleFrees THEN {{h.slot}} ELSE {})

(* A realloc to another size than 0, up to the malloc. *)
CallRealloc(t, h, n) ==
  /\ pc[t] = "idle"
  /\ n # 0
  /\ Room
  /\ Check(t, h.slot, "wait")
  /\ GiveUp(h)
  /\ size' = [size EXCEPT ![t] = n]
  /\ old' = [old EXCEPT ![t] = h.slot]
  /\ UNCHANGED <<heap, memory, mutex, new, exited>>

(* Mutant: realloc does not free the old chunk. *)
Copy_NoFree(t) ==
  /\ pc[t] = "copy"
  /\ held' = held \cup Given(t)
  /\ old' = [old EXCEPT ![t] = NoSlot]
  /\ new' = [new EXCEPT ![t] = NoSlot]
  /\ pc' = [pc EXCEPT ![t] = "idle"]
  /\ UNCHANGED <<heap, memory, mutex, size, stale, exited>>

(* internal_memcpy: the bytes copied are the program's data. *)
Copy(t) ==
  /\ pc[t] = "copy"
  /\ pc' = [pc EXCEPT ![t] = "check"]
  /\ UNCHANGED <<heap, memory, mutex, size, old, new, held, stale, exited>>

------------------------------------------------------------------------------
(* HwasanDeallocate *)

(* free, or a realloc to size 0, of a pointer the program holds. *)
CallFree(t, h) ==
  /\ pc[t] = "idle"
  /\ Check(t, h.slot, "clear")
  /\ GiveUp(h)
  /\ old' = [old EXCEPT ![t] = h.slot]
  /\ UNCHANGED <<heap, memory, mutex, size, new, exited>>

(* A dangling pointer is freed again.  If its chunk is in use with the same *)
(* tag, it is the pointer of the chunk: that is CallFree.                  *)
CallFreeStale(t, s) ==
  /\ pc[t] = "idle"
  /\ s \notin live
  /\ Check(t, s, "clear")
  /\ old' = [old EXCEPT ![t] = s]
  /\ UNCHANGED <<heap, memory, mutex, size, new, held, stale, exited>>

(* The free of a realloc compares again. *)
CheckOld(t) ==
  /\ pc[t] = "check"
  /\ Check(t, old[t], "clear")
  /\ UNCHANGED <<heap, memory, mutex, size, old, new, held, stale, exited>>

(* Mutant: the last granule keeps its shadow. *)
Cleared_ButLast == 0..(Granules - 2)

(* TagMemoryAligned(aligned_ptr, TaggedSize(orig_size), 0), where orig_size *)
(* is the size of the chunk.                                               *)
Cleared == 0..(Granules - 1)

Clear(t) ==
  /\ pc[t] = "clear"
  /\ shadow' = [shadow EXCEPT ![PlaceOf(old[t])] =
                  [g \in DOMAIN @ |-> IF g \in Cleared THEN 0 ELSE @[g]]]
  /\ pc' = [pc EXCEPT ![t] = "unlocked"]
  /\ UNCHANGED <<heap, lastByte, mutex, size, old, new, held, stale, exited>>

LockDeallocate(t) == Acquire(t, "unlocked", "deallocate")

(* allocator.Deallocate *)
GiveBack(t) ==
  /\ pc[t] = "deallocate"
  /\ Heap!Free(old[t])
  /\ pc' = [pc EXCEPT ![t] = "release"]
  /\ UNCHANGED <<memory, mutex, size, old, new, held, stale, exited>>

(* It releases a region: its memory reads as zero from now on, and so does  *)
(* its shadow, unless its page has the shadow of other regions.            *)
Shrink(t) ==
  /\ pc[t] = "release"
  /\ \E r \in Region :
       LET zeroed(f) == [x \in Place |-> IF x[1] = r THEN [g \in DOMAIN f[x] |-> 0]
                                                   ELSE f[x]]
       IN  /\ Heap!Unmap(r)
           /\ lastByte' = zeroed(lastByte)
           /\ shadow' \in {shadow, zeroed(shadow)}
  /\ UNCHANGED <<mutex, pc, size, old, new, held, stale, exited>>

(* The end of a free or of a realloc. *)
Finish(t) ==
  /\ pc[t] = "release"
  /\ mutex' = NoThread
  /\ held' = held \cup Given(t)
  /\ old' = [old EXCEPT ![t] = NoSlot]
  /\ new' = [new EXCEPT ![t] = NoSlot]
  /\ pc' = [pc EXCEPT ![t] = "idle"]
  /\ UNCHANGED <<heap, memory, size, stale, exited>>

(* ReportInvalidFree ends in internal__exit(99). *)
Report(t) ==
  /\ pc[t] = "report"
  /\ exited' = TRUE
  /\ UNCHANGED <<heap, memory, mutex, pc, size, old, new, held, stale>>

------------------------------------------------------------------------------
Call(t) ==
  \/ \E n \in Sizes : CallMalloc(t, n)
  \/ \E h \in held, n \in Sizes : CallRealloc(t, h, n)
  \/ \E h \in held : CallFree(t, h)
  \/ \E s \in stale : CallFreeStale(t, s)

(* The steps of a thread that holds the mutex. *)
Inside(t) ==
  \/ Grow(t)
  \/ TakeChunk(t)
  \/ FillTail(t)
  \/ TagFull(t)
  \/ TagShort(t)
  \/ TagByte(t)
  \/ Return(t)
  \/ GiveBack(t)
  \/ Shrink(t)
  \/ Finish(t)

Outside(t) ==
  \/ LockAllocate(t)
  \/ Copy(t)
  \/ CheckOld(t)
  \/ Clear(t)
  \/ LockDeallocate(t)
  \/ Report(t)

Next ==
  /\ ~exited
  /\ \E t \in Thread : Call(t) \/ Inside(t) \/ Outside(t)

Spec == Init /\ [][Next]_vars

------------------------------------------------------------------------------
(* Properties *)

HeldSlots == {h.slot : h \in held}

(* Chunks the threads have taken and not yet returned, and those they have  *)
(* been given to free and not yet given back.                              *)
Arriving == {t \in Thread : new[t] # NoSlot}
Leaving == {t \in Thread : /\ old[t] # NoSlot
                           /\ pc[t] \notin {"release", "report"}}
Arrived == {new[t] : t \in Arriving}
Left == {old[t] : t \in Leaving}

(* Every chunk the allocator has handed out has one owner: the program, the *)
(* thread about to return it or the thread about to free it.  No realloc    *)
(* loses a chunk, and no chunk is given back twice.                        *)
OneOwner ==
  /\ live = HeldSlots \cup Arrived \cup Left
  /\ HeldSlots \cap (Arrived \cup Left) = {} /\ Arrived \cap Left = {}
  /\ \A t, u \in Arriving : new[t] = new[u] => t = u
  /\ \A t, u \in Leaving : old[t] = old[u] => t = u
  /\ \A h, k \in held : h.slot = k.slot => h = k

(* A tag below Granule reads as the length of a short granule: a pointer    *)
(* with such a tag, and any pointer checked against a chunk with such a     *)
(* tag, can pass where it should not.  The detection properties leave       *)
(* these pairs out.                                                         *)
Distinguished(s, x) ==
  s.tag >= Granule /\ \A u \in live : PlaceOf(u) = x => u.tag >= Granule

(* The shadow is exact for the program: an access through a pointer it      *)
(* holds passes the check on the bytes it asked for, fails on the rest of   *)
(* the chunk, and fails on every other chunk of the region, at every        *)
(* moment of that one's allocation or deallocation.  What earlier owners    *)
(* left in the shadow and in the last bytes does not show.                  *)
ShadowExact ==
  \A h \in held, c \in Chunk, o \in Offset :
    LET s == h.slot
        x == <<s.region, c>>
        own == c = s.chunk /\ o < TagSize(h.size)
    IN  /\ own => Matches(s.tag, x, o)
        /\ ~own /\ Distinguished(s, x) => ~MayMatch(s.tag, x, o)

(* A dangling pointer matches no byte of its old chunk, at no moment of the *)
(* chunk's later uses, unless one of these has the same tag.                *)
DanglingDetected ==
  \A s \in stale \ live, o \in Offset :
    Distinguished(s, PlaceOf(s)) => ~MayMatch(s.tag, PlaceOf(s), o)

(* A report is true: no thread that frees or reallocates a chunk in use is  *)
(* ever told that its pointer does not match.                              *)
ReportsAreTrue ==
  [][\A t \in Thread : pc'[t] = "report" /\ pc[t] # "report" => old'[t] \notin live]_vars

==============================================================================
