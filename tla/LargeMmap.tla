------------------------------- MODULE LargeMmap -------------------------------
(***************************************************************************)
(* LargeMmapAllocator: chunks with a mapping each, and the array that finds *)
(* the chunk of a pointer (sanitizer_allocator_secondary.h).               *)
(*                                                                         *)
(* Mappings are made and undone outside the mutex, between the steps of    *)
(* other threads; the array changes under it.  The unit is a page: a chunk  *)
(* is known by its header, the page before its memory.                     *)
(***************************************************************************)
EXTENDS Integers, Sequences, FiniteSets, TLC

LOCAL INSTANCE FiniteSetsExt
LOCAL INSTANCE SequencesExt

CONSTANTS
  Threads,
  Pages,       \* the pages that mmap has, from 1 on
  Sizes,       \* bound: sizes of requests, in pages
  Alignments,  \* bound: their alignments, in pages, powers of 2
  BlockCount   \* kChunksBlockCount

VARIABLES
  pc,         \* what each thread is doing
  mine,       \* the chunk it does it to, 0 for none
  held,       \* the chunks the program has
  mapped,     \* the mapped pages
  header,     \* map_beg, map_size and size of the chunks whose memory is mapped
  chunkIdx,   \* their chunk_idx
  chunks,     \* chunks_[0 .. n_chunks_ - 1], from 1
  sorted,     \* chunks_sorted_
  reserved,   \* n_reserved_
  forced      \* the mutex is held through ForceLock

vars == <<pc, mine, held, mapped, header, chunkIdx, chunks, sorted, reserved, forced>>

RoundUpTo(n, boundary) == ((n + boundary - 1) \div boundary) * boundary

Init ==
  /\ pc = [t \in Threads |-> "idle"]
  /\ mine = [t \in Threads |-> 0]
  /\ held = {} /\ mapped = {} /\ header = <<>> /\ chunkIdx = <<>>
  /\ chunks = <<>> /\ sorted = FALSE /\ reserved = 0
  /\ forced = FALSE

(* RoundUpMapSize, and room for the alignment where the page is not enough *)
MapSize(size, alignment) == size + 1 + (IF alignment > 1 THEN alignment ELSE 0)

(* The header of a chunk in a mapping at beg. *)
HeaderAt(beg, alignment) == RoundUpTo(beg + 1, alignment) - 1

(* Allocate up to the mutex: mmap where it likes, the header written. *)
Map(t, size, alignment, beg) ==
  LET n == MapSize(size, alignment)
      h == HeaderAt(beg, alignment)
  IN  /\ pc[t] = "idle"
      /\ beg..(beg + n - 1) \subseteq Pages \ mapped
      /\ mapped' = mapped \cup beg..(beg + n - 1)
      /\ header' = (h :> [beg |-> beg, n |-> n, size |-> size, alignment |-> alignment]) @@ header
      /\ chunkIdx' = (h :> 0) @@ chunkIdx
      /\ mine' = [mine EXCEPT ![t] = h]
      /\ pc' = [pc EXCEPT ![t] = "mapped"]
      /\ UNCHANGED <<held, chunks, sorted, reserved, forced>>

(* Mutant: the array is taken to be as it was. *)
SortedAfter_Kept == sorted

(* chunks_sorted_ after a change of the array *)
SortedAfter == FALSE

(* n_reserved_ after EnsureSpace *)
Reserved(n) == IF n = reserved THEN reserved + BlockCount ELSE reserved

(* The rest of Allocate, under the mutex. *)
Register(t) ==
  /\ pc[t] = "mapped" /\ ~forced
  /\ reserved' = Reserved(Len(chunks))
  /\ chunks' = Append(chunks, mine[t])
  /\ chunkIdx' = [chunkIdx EXCEPT ![mine[t]] = Len(chunks) + 1]
  /\ sorted' = SortedAfter
  /\ held' = held \cup {mine[t]}
  /\ mine' = [mine EXCEPT ![t] = 0]
  /\ pc' = [pc EXCEPT ![t] = "idle"]
  /\ UNCHANGED <<mapped, header, forced>>

(* chunk_idx once the last chunk has moved to idx *)
MovedIdx(idx) == [chunkIdx EXCEPT ![Last(chunks)] = idx]

(* Mutant: the last chunk leaves the array. *)
Removed_Last(idx) == Front(chunks)

(* chunks_ without idx, into which the last chunk moves *)
Removed(idx) == Front([chunks EXCEPT ![idx] = Last(chunks)])

(* Deallocate under the mutex, by any thread. *)
Unregister(t, h) ==
  LET idx == chunkIdx[h]
  IN  /\ pc[t] = "idle" /\ ~forced
      /\ chunks' = Removed(idx)
      /\ chunkIdx' = MovedIdx(idx)
      /\ sorted' = SortedAfter
      /\ held' = held \ {h}
      /\ mine' = [mine EXCEPT ![t] = h]
      /\ pc' = [pc EXCEPT ![t] = "unregistered"]
      /\ UNCHANGED <<mapped, header, reserved, forced>>

(* The rest of Deallocate: UnmapOrDie, after the mutex. *)
Unmap(t) ==
  LET h == header[mine[t]]
  IN  /\ pc[t] = "unregistered"
      /\ mapped' = mapped \ h.beg..(h.beg + h.n - 1)
      /\ header' = [x \in DOMAIN header \ {mine[t]} |-> header[x]]
      /\ chunkIdx' = [x \in DOMAIN header \ {mine[t]} |-> chunkIdx[x]]
      /\ mine' = [mine EXCEPT ![t] = 0]
      /\ pc' = [pc EXCEPT ![t] = "idle"]
      /\ UNCHANGED <<held, chunks, sorted, reserved, forced>>

(* ForceLock and ForceUnlock *)
ForceToggle ==
  /\ forced' = ~forced
  /\ UNCHANGED <<pc, mine, held, mapped, header, chunkIdx, chunks, sorted, reserved>>

(* EnsureSortedChunks, in ForEachChunk and in GetBlockBeginFastLocked *)
EnsureSortedChunks ==
  LET s == SortSeq(chunks, <)
  IN  /\ forced /\ ~sorted
      /\ chunks' = s
      /\ chunkIdx' = [h \in DOMAIN chunkIdx |->
                        IF \E i \in DOMAIN s : s[i] = h
                          THEN CHOOSE i \in DOMAIN s : s[i] = h ELSE chunkIdx[h]]
      /\ sorted' = TRUE
      /\ UNCHANGED <<pc, mine, held, mapped, header, reserved, forced>>

Next ==
  \/ \E t \in Threads :
       \/ \E size \in Sizes, alignment \in Alignments, beg \in Pages : Map(t, size, alignment, beg)
       \/ Register(t)
       \/ \E h \in held : Unregister(t, h)
       \/ Unmap(t)
  \/ ForceToggle
  \/ EnsureSortedChunks

Spec == Init /\ [][Next]_vars

------------------------------------------------------------------------------
(* Finding the chunk of a pointer *)

Listed == ToSet(chunks)
End(h) == header[h].beg + header[h].n
GetUser(h) == h + 1

(* The header at or below page p that the linear search ends with. *)
Nearest(p) == LET below == {h \in Listed : h <= p} IN IF below = {} THEN 0 ELSE Max(below)

GetBlockBegin(p) ==
  IF Nearest(p) = 0 \/ End(Nearest(p)) <= p THEN 0 ELSE GetUser(Nearest(p))

(* A turn of the loop of GetBlockBeginFastLocked. *)
Half(p, beg, end) ==
  LET mid == (beg + end) \div 2
  IN  IF p < chunks[mid] THEN <<beg, mid - 1>> ELSE <<mid, end>>

(* The index that its loop and the choice behind it end with. *)
Found(p) ==
  LET search[be \in Nat \X Nat] ==
        IF be[2] - be[1] >= 2 THEN search[Half(p, be[1], be[2])]
        ELSE IF be[1] < be[2] /\ p >= chunks[be[2]] THEN be[2]
        ELSE be[1]
  IN  search[<<1, Len(chunks)>>]

GetBlockBeginFastLocked(p) ==
  LET n == Len(chunks)
      h == chunks[Found(p)]
  IN  IF \/ n = 0
         \/ p < chunks[1]
         \/ p >= chunks[n] + header[chunks[n]].n
         \/ End(h) <= p
         \/ p < header[h].beg
        THEN 0 ELSE GetUser(h)

PointerIsMine(p) == GetBlockBegin(p) # 0

GetHeader(user) == user - 1

GetActuallyAllocatedSize(user) == header[GetHeader(user)].size

(* GetHeader(p) + 1, on the page of the header. *)
GetMetaData(user) == GetHeader(user)

TotalMemoryUsed == MapThenSumSet(LAMBDA i : header[chunks[i]].size + 1, DOMAIN chunks)

(* What ForEachChunk gives its callback, once the array is sorted. *)
ForEachChunk == [i \in DOMAIN chunks |-> GetUser(chunks[i])]

------------------------------------------------------------------------------
(* Properties *)

(* Whatever the other threads map and unmap meanwhile, the headers that a    *)
(* search under the mutex reads are in mapped memory, those of different    *)
(* chunks in different mappings.                                           *)
ListedMapped ==
  \A h \in Listed :
    /\ h \in DOMAIN header
    /\ header[h].beg..(End(h) - 1) \subseteq mapped
    /\ \A g \in Listed \ {h} : End(h) <= header[g].beg \/ End(g) <= header[h].beg

(* chunk_idx is where the array has the chunk, as the CHECKs of Deallocate  *)
(* and TotalMemoryUsed ask, after moves into gaps and after sorting.        *)
IndicesAgree == \A i \in DOMAIN chunks : chunkIdx[chunks[i]] = i

(* The fast search, once EnsureSortedChunks has run, finds the same chunk   *)
(* as the linear one for every pointer: chunks_sorted_ is never stale.      *)
FastAgrees ==
  forced /\ sorted => \A p \in Pages : GetBlockBeginFastLocked(p) = GetBlockBegin(p)

(* The memory of a chunk is aligned as asked, and it and the header before  *)
(* it are within the mapping.                                              *)
WithinMapping ==
  \A h \in DOMAIN header :
    /\ GetUser(h) % header[h].alignment = 0
    /\ header[h].beg <= h /\ GetUser(h) + header[h].size <= End(h)

(* A pointer anywhere into a chunk the program has finds that chunk, however *)
(* close the next one is and whatever is mapped or unmapped meanwhile, and   *)
(* nothing that belongs to no chunk finds one; ForEachChunk meets each chunk *)
(* once, and TotalMemoryUsed counts no page that is not mapped.              *)
HeldFound ==
  /\ \A h \in held :
       LET user == GetUser(h)
       IN  \A p \in user..(user + GetActuallyAllocatedSize(user) - 1) :
             /\ PointerIsMine(p) /\ GetBlockBegin(p) = user
             /\ GetMetaData(GetBlockBegin(p)) \in header[h].beg..(user - 1)
  /\ \A p \in Pages : PointerIsMine(p) => p \in mapped
  /\ ToSet(ForEachChunk) = {GetUser(h) : h \in held} /\ Len(chunks) = Cardinality(held)
  /\ TotalMemoryUsed <= Cardinality(mapped)

(* The array never outgrows what EnsureSpace has mapped of it. *)
ArrayReserved == Len(chunks) <= reserved

==============================================================================
