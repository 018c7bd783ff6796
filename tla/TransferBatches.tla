---------------------------- MODULE TransferBatches ----------------------------
(***************************************************************************)
(* SizeClassAllocator32 and its local caches: chunks travel between caches  *)
(* and size classes in TransferBatches, which are themselves stored in      *)
(* chunks (sanitizer_allocator_primary32.h, and the second half of         *)
(* sanitizer_allocator_local_cache.h).                                     *)
(*                                                                         *)
(* A call is one step: what it shares with other threads it does under the  *)
(* mutex of a class, and what it does with a second class under both.  The  *)
(* code is recursive through CreateBatch and DestroyBatch, and so are the   *)
(* operators, each a function of the allocator's state s.                   *)
(***************************************************************************)
EXTENDS Integers, Sequences, FiniteSets

LOCAL INSTANCE FiniteSetsExt
LOCAL INSTANCE SequencesExt

CONSTANTS
  Threads,
  Sizes,             \* Sizes[c], of the size class c, in words
  RegionSize,        \* kRegionSize
  MaxNumCachedHint,  \* kMaxNumCachedHint
  MaxBytesCached,    \* 1 << kMaxBytesCachedLog
  MaxRegions,        \* bound: regions the system has memory for
  MaxHeld            \* bound: chunks the program holds at a time

VARIABLES
  cache,    \* cache[t][c] is batch[0 .. count - 1] of thread t
  list,     \* list[c] is the free_list of batches of class c
  regions,  \* regions mapped
  lost,     \* chunks of a region that a failed PopulateFreeList dropped
  edges,    \* the pairs of classes whose mutexes were held together, in order
  status,   \* "ok", or how the process ended
  held,     \* chunks the program holds
  ended     \* threads that have ended and whose place is not taken

vars == <<cache, list, regions, lost, edges, status, held, ended>>

Classes == DOMAIN Sizes
NoBatch == <<>>

ClassOf(p) == p[1]

(* TransferBatch *)
MaxNumCached == MaxNumCachedHint - 2
MaxCached(c) == Min({MaxNumCached, Max({1, Min({MaxNumCachedHint, MaxBytesCached \div Sizes[c]})})})
AllocationSizeRequired(n) == 2 + n

(* ClassID(sizeof(TransferBatch)) *)
BatchClassOfAll ==
  Min({c \in Classes : Sizes[c] >= AllocationSizeRequired(MaxNumCached)})

(* Mutant: the batches of every class are stored in the class of batches. *)
BatchClass_Always(c) == BatchClassOfAll

(* batch_class_id of InitCache: 0 where a chunk has room for a batch of its *)
(* own class.                                                              *)
BatchClass(c) ==
  IF Sizes[c] < AllocationSizeRequired(MaxCached(c)) THEN BatchClassOfAll ELSE 0

MaxCount(c) == 2 * MaxCached(c)

Init ==
  /\ cache = [t \in Threads |-> [c \in Classes |-> <<>>]]
  /\ list = [c \in Classes |-> <<>>]
  /\ regions = 0 /\ lost = {} /\ edges = {} /\ status = "ok"
  /\ held = {} /\ ended = {}

Now == [cache |-> cache, list |-> list, regions |-> regions, lost |-> lost,
        edges |-> edges, status |-> status, locked |-> {}]

Become(s) ==
  /\ cache' = s.cache /\ list' = s.list /\ regions' = s.regions /\ lost' = s.lost
  /\ edges' = s.edges /\ status' = s.status

Locked(s, c) == [s EXCEPT !.edges = @ \cup {<<d, c>> : d \in s.locked}, !.locked = @ \cup {c}]
Unlocked(s, c) == [s EXCEPT !.locked = @ \ {c}]

RECURSIVE Allocate(_, _, _), Deallocate(_, _, _, _)

(* CreateBatch: where the batch is stored, own being a chunk of the class. *)
CreateBatch(s, t, c, own) ==
  IF BatchClass(c) = 0 THEN [s |-> s, p |-> own] ELSE Allocate(s, t, BatchClass(c))

(* Mutant: a batch that was emptied is dropped. *)
DestroyBatch_Not(s, t, c, b) == s

DestroyBatch(s, t, c, b) ==
  IF BatchClass(c) = 0 THEN s ELSE Deallocate(s, t, BatchClass(c), b.at)

(* PopulateFreeList and PopulateBatches: a region's chunks in batches.  The *)
(* first batch that has no storage ends it, and the chunks of that batch    *)
(* and those behind it are in no list.                                     *)
PopulateFreeList(s, t, c) ==
  LET mapped == [s EXCEPT !.regions = @ + 1]
      n      == RegionSize \div Sizes[c]
      chunk(i) == <<c, s.regions, i>>
      group(g) == [i \in 1..Min({MaxCached(c), n - (g - 1) * MaxCached(c)}) |->
                     chunk((g - 1) * MaxCached(c) + i)]
      groups == [g \in 1..((n + MaxCached(c) - 1) \div MaxCached(c)) |-> group(g)]
      Dropped(r, g) == [ok |-> FALSE, s |-> [r EXCEPT !.lost = @ \cup ToSet(g)]]
      Stored(b, g) ==
        IF b.p = NoBatch THEN Dropped(b.s, g)
        ELSE [ok |-> TRUE,
              s |-> [b.s EXCEPT !.list[c] = Append(@, [at |-> b.p, chunks |-> g])]]
      Add(r, g) ==
        IF r.ok THEN Stored(CreateBatch(r.s, t, c, g[1]), g) ELSE Dropped(r.s, g)
  IN  IF s.regions = MaxRegions THEN [ok |-> FALSE, s |-> s]
      ELSE FoldLeft(Add, [ok |-> TRUE, s |-> mapped], groups)

(* AllocateBatch, under the mutex of the class: a batch and the state.      *)
AllocateBatch(s, t, c) ==
  LET First(r) ==
        IF ~r.ok THEN [ok |-> FALSE, s |-> Unlocked(r.s, c), b |-> NoBatch]
        ELSE [ok |-> TRUE, b |-> Head(r.s.list[c]),
              s |-> Unlocked([r.s EXCEPT !.list[c] = Tail(@)], c)]
  IN  IF c \in s.locked
        THEN [ok |-> FALSE, s |-> [s EXCEPT !.status = "deadlock"], b |-> NoBatch]
      ELSE IF s.list[c] = <<>> THEN First(PopulateFreeList(Locked(s, c), t, c))
      ELSE First([ok |-> TRUE, s |-> Locked(s, c)])

(* DeallocateBatch, under the mutex of the class. *)
DeallocateBatch(s, c, b) ==
  Unlocked([Locked(s, c) EXCEPT !.list[c] = <<b>> \o @], c)

Refill(s, t, c) ==
  LET Emptied(r) ==
        IF ~r.ok THEN r
        ELSE [r EXCEPT !.s = DestroyBatch([@ EXCEPT !.cache[t][c] = r.b.chunks], t, c, r.b)]
  IN  Emptied(AllocateBatch(s, t, c))

(* A chunk for the caller, NoBatch if there is no memory. *)
Allocate(s, t, c) ==
  LET Popped(r) ==
        IF ~r.ok THEN [s |-> r.s, p |-> NoBatch]
        ELSE [s |-> [r.s EXCEPT !.cache[t][c] = Front(@)], p |-> Last(r.s.cache[t][c])]
  IN  Popped(IF s.cache[t][c] = <<>> THEN Refill(s, t, c) ELSE [ok |-> TRUE, s |-> s])

(* How many of the n chunks of a cache a drain takes. *)
DrainCount(c, n) == Min({MaxCount(c) \div 2, n})

(* Drain of a class: the last half, or what there is.  Without storage for  *)
(* the batch the process dies.                                             *)
Drain(s, t, c) ==
  LET count == DrainCount(c, Len(s.cache[t][c]))
      first == Len(s.cache[t][c]) - count
      chunks == SubSeq(s.cache[t][c], first + 1, first + count)
      Filled(b) ==
        IF b.p = NoBatch THEN [b.s EXCEPT !.status = IF @ = "ok" THEN "died" ELSE @]
        ELSE DeallocateBatch([b.s EXCEPT !.cache[t][c] = SubSeq(@, 1, first)],
                             c, [at |-> b.p, chunks |-> chunks])
  IN  Filled(CreateBatch(s, t, c, chunks[1]))

Deallocate(s, t, c, p) ==
  LET d == IF Len(s.cache[t][c]) = MaxCount(c) THEN Drain(s, t, c) ELSE s
  IN  [d EXCEPT !.cache[t][c] = Append(@, p)]

RECURSIVE DrainClass(_, _, _)
DrainClass(s, t, c) ==
  IF s.cache[t][c] = <<>> \/ s.status # "ok" THEN s ELSE DrainClass(Drain(s, t, c), t, c)

DrainOrder == [c \in Classes |-> c]

(* The Drain of a whole cache, when its thread ends. *)
DrainAll(s, t) == FoldLeft(LAMBDA r, c : DrainClass(r, t, c), s, DrainOrder)

------------------------------------------------------------------------------

Malloc(t, c) ==
  LET Given(r) ==
        /\ Become(r.s)
        /\ held' = IF r.p = NoBatch THEN held ELSE held \cup {r.p}
        /\ ended' = ended \ {t}
  IN  Cardinality(held) < MaxHeld /\ Given(Allocate(Now, t, c))

Free(t, p) ==
  /\ Become(Deallocate(Now, t, ClassOf(p), p))
  /\ held' = held \ {p}
  /\ ended' = ended \ {t}

(* Destroy *)
End(t) ==
  /\ t \notin ended
  /\ Become(DrainAll(Now, t))
  /\ ended' = ended \cup {t}
  /\ UNCHANGED held

Next ==
  /\ status = "ok"
  /\ \E t \in Threads :
       \/ \E c \in Classes : Malloc(t, c)
       \/ \E p \in held : Free(t, p)
       \/ End(t)

Spec == Init /\ [][Next]_vars

------------------------------------------------------------------------------
(* Properties *)

Carved ==
  {p \in Classes \X (0..(regions - 1)) \X (1..RegionSize) :
     p \in held \cup lost \cup UNION {ToSet(cache[t][p[1]]) : t \in Threads}
              \cup UNION {ToSet(list[p[1]][i].chunks) : i \in DOMAIN list[p[1]]}
       \/ \E c \in Classes : \E i \in DOMAIN list[c] : list[c][i].at = p}

Times(p, q) == Cardinality({i \in DOMAIN q : q[i] = p})

(* In how many places a chunk is: with the program, in a cache, in a batch, *)
(* or as the storage of a batch of another class.                          *)
Places(p) ==
  (IF p \in held THEN 1 ELSE 0) + (IF p \in lost THEN 1 ELSE 0)
    + MapThenSumSet(LAMBDA t : Times(p, cache[t][p[1]]), Threads)
    + MapThenSumSet(LAMBDA i : Times(p, list[p[1]][i].chunks), DOMAIN list[p[1]])
    + MapThenSumSet(LAMBDA c : Cardinality({i \in DOMAIN list[c] : list[c][i].at = p}),
                    {c \in Classes : BatchClass(c) # 0})

RegionsOf(c) == {p[2] : p \in {q \in Carved : q[1] = c}}

(* A chunk is in one place, and all chunks of a region are somewhere: the   *)
(* memory of a batch is never the program's too, and no chunk is lost but   *)
(* by a PopulateFreeList that found no memory.                             *)
OneOwner ==
  status = "ok" =>
    /\ \A p \in Carved : Places(p) = 1
    /\ \A c \in Classes : \A r \in RegionsOf(c) : \A i \in 1..(RegionSize \div Sizes[c]) :
         <<c, r, i>> \in Carved
    /\ lost # {} => regions = MaxRegions

(* A batch has room in the chunk it is stored in, which is one of its own    *)
(* where it has no class to store it in.                                   *)
BatchFits ==
  \A c \in Classes : \A i \in DOMAIN list[c] :
    LET b == list[c][i]
    IN  /\ b.chunks # <<>> /\ Len(b.chunks) <= MaxNumCached
        /\ AllocationSizeRequired(Len(b.chunks)) <= Sizes[ClassOf(b.at)]
        /\ BatchClass(c) = 0 => b.at \in ToSet(b.chunks)

(* Storage for a batch is taken under the mutex of the class that needs it: *)
(* never from that class again, and always from a later one, the order in   *)
(* which ForceLock takes the mutexes.                                      *)
LocksOrdered == status # "deadlock" /\ \A e \in edges : e[1] < e[2]

(* A thread that ends leaves nothing in its cache, although draining one     *)
(* class allocates from another.                                           *)
EndsEmpty == status = "ok" => \A t \in ended, c \in Classes : cache[t][c] = <<>>

==============================================================================
