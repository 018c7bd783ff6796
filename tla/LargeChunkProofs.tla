---------------------------- MODULE LargeChunkProofs ----------------------------
(***************************************************************************)
(* Proofs of TagsKept and OwnFreesPass: however mappings, stacks and pages *)
(* of shadow lie, a large chunk keeps its memory and its tags until it is  *)
(* freed, and freeing it passes the checks.                                *)
(*                                                                         *)
(* A deallocation clears shadow out to the next page boundary.  No other   *)
(* chunk has shadow there since chunks begin on such boundaries (Placed,   *)
(* BehindRemapped) and their memory is apart (Apart).  The mutex is not    *)
(* needed for that: what a thread has mapped is its own (Owned).           *)
(***************************************************************************)
EXTENDS LargeChunk, TLAPS

(* Addresses are granules; a page is a granule at least, and the SuperPools *)
(* are longer than any chunk: 31 times 1 << 40 bytes, which is the largest  *)
(* size of a request (kMaxAllowedMallocSize).                              *)
ConstantsOK ==
  /\ Page \in Nat \ {0} /\ ShadowPage \in Nat \ {0}
  /\ Space \in Nat /\ StackSize \in Nat
  /\ Sizes \subseteq Nat \ {0}
  /\ None \notin Threads
  /\ \E first, end \in Nat :
       /\ SuperPool = first..(end - 1)
       /\ \A size \in Sizes : MapSize(size) <= end - first

Extent(c) == Range(c.at, c.allocated)
Body(c) == Range(c.at + 1, c.size)

(* A chunk, or one that is being made or given back: on a page boundary of  *)
(* the shadow, its bytes behind its header.                                *)
Placed(c) ==
  /\ c.at \in Nat /\ c.size \in Nat \ {0} /\ c.allocated \in Nat
  /\ c.size + 1 <= c.allocated
  /\ \E k \in Nat : c.at = k * ShadowPage

(* The memory that a thread in a call has from the system. *)
Owned(t) ==
  CASE pc[t] = "front" -> work[t].mapped
    [] pc[t] = "back" -> {g \in work[t].mapped : g >= work[t].at}
    [] pc[t] \in {"tag", "lock", "remap", "unmap"} -> Extent(work[t])
    [] OTHER -> {}

(* The tags a freed chunk has left, until its shadow is mapped anew. *)
Left(t) == IF pc[t] \in {"lock", "remap"} THEN Body(work[t]) ELSE {}

Types ==
  /\ heap \subseteq Addresses /\ stack \subseteq Addresses
  /\ shadow \in [Addresses -> Tags \cup {0}]
  /\ pc \in [Threads -> {"idle", "front", "back", "tag", "lock", "remap", "unmap"}]
  /\ DOMAIN work = Threads

Working ==
  \A t \in Threads :
    /\ pc[t] # "idle" =>
         /\ Placed(work[t])
         /\ work[t].tag \in Tags
         /\ Extent(work[t]) \subseteq Owned(t)
    /\ pc[t] \in {"front", "back", "tag"} => \E size \in Sizes : work[t].allocated = MapSize(size)

Held ==
  \A c \in chunks :
    /\ Placed(c) /\ c.tag \in Tags
    /\ Extent(c) \subseteq heap \ SuperPool

(* Nobody's memory is another's. *)
Apart ==
  /\ heap \cap stack = {}
  /\ \A t \in Threads : Owned(t) \subseteq heap
  /\ \A t, u \in Threads : t # u => Owned(t) \cap Owned(u) = {}
  /\ \A c \in chunks, t \in Threads : Extent(c) \cap Owned(t) = {}
  /\ \A c, d \in chunks : c # d => Extent(c) \cap Extent(d) = {}

Tagged == \A c \in chunks : \A g \in Body(c) : shadow[g] = c.tag

(* All else is untagged. *)
Untagged ==
  \A g \in Addresses :
    shadow[g] # 0 =>
      g \in stack \/ (\E c \in chunks : g \in Body(c)) \/ (\E t \in Threads : g \in Left(t))

Inv == Types /\ Working /\ Held /\ Apart /\ Tagged /\ Untagged

(* A process that has died does no more; what it was at does not matter.    *)
IInv == TagsKept /\ OwnFreesPass /\ (died = "no" => Inv)

------------------------------------------------------------------------------
(* Arithmetic *)

LEMMA Product ==
  ASSUME NEW d \in Nat, NEW a \in Int, NEW b \in Int, a < b
  PROVE  a * d + d <= b * d
<1>1. PICK e \in Nat : b = a + 1 + e
  <2>1. b - a - 1 \in Nat /\ b = a + 1 + (b - a - 1)
    OBVIOUS
  <2> QED
    BY <2>1
<1>2. b * d = a * d + d + e * d
  BY <1>1
<1>3. e * d \in Nat /\ a * d \in Int
  OBVIOUS
<1> QED
  BY <1>2, <1>3

LEMMA RoundedDown ==
  ASSUME NEW n \in Nat, NEW d \in Nat \ {0}
  PROVE  \E k \in Nat : RoundDownTo(n, d) = k * d /\ k * d <= n /\ n < k * d + d
<1> DEFINE q == n \div d
<1>1. n \in Int /\ d \in Int /\ d > 0
  OBVIOUS
<1>2. q \in Int /\ n % d \in 0..(d - 1)
  BY <1>1
<1>3. n = d * q + (n % d)
  BY <1>1, Z3
<1>4. q >= 0
  BY <1>1, Z3
<1>5. RoundDownTo(n, d) = q * d
  BY DEF RoundDownTo
<1> HIDE DEF q
<1>6. d * q = q * d /\ q * d \in Int
  BY <1>1, <1>2
<1> QED
  BY <1>1, <1>2, <1>3, <1>4, <1>5, <1>6

LEMMA RoundedUp ==
  ASSUME NEW n \in Nat, NEW d \in Nat \ {0}
  PROVE  \E k \in Nat : RoundUpTo(n, d) = k * d /\ n <= k * d /\ k * d < n + d
<1>1. n + d - 1 \in Nat
  OBVIOUS
<1>2. PICK k \in Nat : /\ RoundDownTo(n + d - 1, d) = k * d
                       /\ k * d <= n + d - 1 /\ n + d - 1 < k * d + d
  BY <1>1, RoundedDown
<1>3. k * d \in Nat
  OBVIOUS
<1> QED
  BY <1>2, <1>3 DEF RoundUpTo

(* What is mapped for a chunk holds its bytes and its header. *)
LEMMA MapSizeBounds ==
  ASSUME ConstantsOK, NEW size \in Sizes
  PROVE  size \in Nat \ {0} /\ MapSize(size) \in Nat /\ size + 1 <= MapSize(size)
<1>1. size \in Nat \ {0} /\ Page \in Nat \ {0} /\ size + 1 \in Nat
  BY DEF ConstantsOK
<1>2. PICK k \in Nat : RoundUpTo(size + 1, Page) = k * Page /\ size + 1 <= k * Page
  BY <1>1, RoundedUp
<1> QED
  BY <1>1, <1>2 DEF MapSize

(* A chunk that is placed behind another is behind all shadow that goes     *)
(* with it, and what is remapped begins with the chunk itself.              *)
LEMMA BehindRemapped ==
  ASSUME ConstantsOK, NEW c, NEW d, Placed(c), Placed(d), c.at + c.allocated <= d.at
  PROVE  \A g \in Remapped(c) : g < d.at
<1>1. ShadowPage \in Nat \ {0} /\ c.at \in Nat /\ c.allocated \in Nat /\ d.at \in Nat
  BY DEF ConstantsOK, Placed
<1>2. PICK j \in Nat : d.at = j * ShadowPage
  BY DEF Placed
<1>3. c.at + c.allocated \in Nat
  BY <1>1
<1>4. PICK k \in Nat : /\ RoundUpTo(c.at + c.allocated, ShadowPage) = k * ShadowPage
                       /\ k * ShadowPage < c.at + c.allocated + ShadowPage
  BY <1>1, <1>3, RoundedUp
<1>5. k <= j
  <2>1. SUFFICES ASSUME j < k PROVE FALSE
    OBVIOUS
  <2>2. j * ShadowPage + ShadowPage <= k * ShadowPage
    BY <1>1, <2>1, Product
  <2>3. j * ShadowPage \in Nat /\ k * ShadowPage \in Nat
    BY <1>1
  <2> QED
    BY <1>1, <1>2, <1>4, <2>2, <2>3
<1>6. k * ShadowPage <= j * ShadowPage
  <2>1. CASE k = j
    BY <1>1, <2>1
  <2>2. CASE k < j
    <3>1. k * ShadowPage + ShadowPage <= j * ShadowPage
      BY <1>1, <2>2, Product
    <3>2. j * ShadowPage \in Nat /\ k * ShadowPage \in Nat
      BY <1>1
    <3> QED
      BY <1>1, <3>1, <3>2
  <2> QED
    BY <1>5, <2>1, <2>2
<1>7. PICK i \in Nat : RoundDownTo(c.at, ShadowPage) = i * ShadowPage
  BY <1>1, RoundedDown
<1>8. i * ShadowPage \in Nat /\ j * ShadowPage \in Nat /\ k * ShadowPage \in Nat
  BY <1>1
<1> QED
  BY <1>2, <1>4, <1>6, <1>7, <1>8 DEF Remapped

LEMMA RemappedFromStart ==
  ASSUME ConstantsOK, NEW c, Placed(c)
  PROVE  (\A g \in Remapped(c) : g >= c.at) /\ Extent(c) \subseteq Remapped(c)
<1>1. ShadowPage \in Nat \ {0} /\ c.at \in Nat /\ c.allocated \in Nat
  BY DEF ConstantsOK, Placed
<1>2. PICK j \in Nat : c.at = j * ShadowPage
  BY DEF Placed
<1>3. PICK k \in Nat : /\ RoundDownTo(c.at, ShadowPage) = k * ShadowPage
                       /\ k * ShadowPage <= c.at /\ c.at < k * ShadowPage + ShadowPage
  BY <1>1, RoundedDown
<1>4. j * ShadowPage \in Nat /\ k * ShadowPage \in Nat
  BY <1>1
<1>5. k = j
  <2>1. CASE k < j
    <3>1. k * ShadowPage + ShadowPage <= j * ShadowPage
      BY <1>1, <2>1, Product
    <3> QED
      BY <1>1, <1>2, <1>3, <1>4, <3>1
  <2>2. CASE j < k
    <3>1. j * ShadowPage + ShadowPage <= k * ShadowPage
      BY <1>1, <2>2, Product
    <3> QED
      BY <1>1, <1>2, <1>3, <1>4, <3>1
  <2> QED
    BY <2>1, <2>2
<1>6. RoundDownTo(c.at, ShadowPage) = c.at
  BY <1>2, <1>3, <1>5
<1>7. c.at + c.allocated \in Nat
  BY <1>1
<1>8. PICK m \in Nat : /\ RoundUpTo(c.at + c.allocated, ShadowPage) = m * ShadowPage
                       /\ c.at + c.allocated <= m * ShadowPage
  BY <1>1, <1>7, RoundedUp
<1>9. m * ShadowPage \in Nat
  BY <1>1
<1> QED
  BY <1>1, <1>6, <1>8, <1>9 DEF Remapped, Extent, Range

LEMMA BodyInside ==
  ASSUME NEW c, Placed(c)
  PROVE  /\ Body(c) \subseteq Extent(c) /\ c.at \in Extent(c) /\ c.at \notin Body(c)
         /\ c.at + 1 \in Body(c)
BY DEF Placed, Body, Extent, Range

(* The shadow that goes with a chunk has no tag of another. *)
LEMMA RemapClear ==
  ASSUME ConstantsOK, NEW c, NEW d, Placed(c), Placed(d), Extent(c) \cap Extent(d) = {}
  PROVE  Remapped(c) \cap Extent(d) = {}
<1>1. /\ c.at \in Nat /\ c.allocated \in Nat /\ c.allocated >= 1
      /\ d.at \in Nat /\ d.allocated \in Nat /\ d.allocated >= 1
  BY DEF Placed
<1>2. c.at + c.allocated <= d.at \/ d.at + d.allocated <= c.at
  <2>1. CASE c.at <= d.at
    <3>1. d.at \in Extent(d) /\ d.at \notin Extent(c)
      BY <1>1 DEF Extent, Range
    <3> QED
      BY <1>1, <2>1, <3>1 DEF Extent, Range
  <2>2. CASE d.at < c.at
    <3>1. c.at \in Extent(c) /\ c.at \notin Extent(d)
      BY <1>1 DEF Extent, Range
    <3> QED
      BY <1>1, <2>2, <3>1 DEF Extent, Range
  <2> QED
    BY <1>1, <2>1, <2>2
<1>3. CASE c.at + c.allocated <= d.at
  <2>1. \A g \in Remapped(c) : g < d.at
    BY <1>3, BehindRemapped
  <2>2. \A g \in Extent(d) : g \in Int /\ g >= d.at
    BY <1>1 DEF Extent, Range
  <2> QED
    BY <1>1, <2>1, <2>2
<1>4. CASE d.at + d.allocated <= c.at
  <2>1. \A g \in Remapped(c) : g >= c.at
    BY RemappedFromStart
  <2>2. \A g \in Extent(d) : g \in Int /\ g < d.at + d.allocated
    BY <1>1 DEF Extent, Range
  <2> QED
    BY <1>1, <1>4, <2>1, <2>2
<1> QED
  BY <1>2, <1>3, <1>4

(* The pages that mmap may choose are addresses. *)
LEMMA MappedInside ==
  ASSUME NEW x \in Int, NEW d \in Nat \ {0}, NEW page \in 0..(x \div d)
  PROVE  page * d \in Nat /\ page * d <= x
<1> DEFINE q == x \div d
<1>1. d \in Int /\ d > 0 /\ page \in Nat /\ page <= q
  OBVIOUS
<1>2. q \in Int /\ x % d \in 0..(d - 1)
  BY <1>1
<1>3. x = d * q + (x % d)
  BY <1>1, Z3
<1> HIDE DEF q
<1>4. page * d <= q * d
  <2>1. CASE page = q
    BY <1>1, <2>1
  <2>2. CASE page < q
    <3>1. page * d + d <= q * d
      BY <1>1, <1>2, <2>2, Product
    <3>2. page * d \in Int /\ q * d \in Int
      BY <1>1, <1>2
    <3> QED
      BY <1>1, <3>1, <3>2
  <2> QED
    BY <1>1, <1>2, <2>1, <2>2
<1>5. d * q = q * d /\ q * d \in Int /\ page * d \in Nat
  BY <1>1, <1>2
<1> QED
  BY <1>1, <1>2, <1>3, <1>4, <1>5

------------------------------------------------------------------------------
(* What an action of a thread leaves alone *)

LEMMA Same ==
  ASSUME NEW u \in Threads, pc'[u] = pc[u], work'[u] = work[u]
  PROVE  Owned(u)' = Owned(u) /\ Left(u)' = Left(u)
BY DEF Owned, Left, Extent, Body, Range

LEMMA MemoryKept ==
  ASSUME Inv, NEW t \in Threads,
         \A u \in Threads : u # t => pc'[u] = pc[u] /\ work'[u] = work[u],
         stack' = stack, chunks' = chunks,
         heap' \cap stack = {}, heap \ Owned(t) \subseteq heap',
         Owned(t)' \subseteq heap', Owned(t)' \cap (heap \ Owned(t)) = {}
  PROVE  Held' /\ Apart'
<1>1. \A u \in Threads : u # t => Owned(u)' = Owned(u)
  BY Same
<1>2. \A c \in chunks : Extent(c) \subseteq heap \ Owned(t)
  BY DEF Inv, Held, Apart
<1>3. \A u \in Threads : u # t => Owned(u) \subseteq heap \ Owned(t)
  BY DEF Inv, Apart
<1>4. \A c \in chunks : Extent(c)' = Extent(c) /\ (Placed(c)' <=> Placed(c))
  BY DEF Extent, Range, Placed
<1>5. Held'
  BY <1>2, <1>4 DEF Inv, Held
<1>6. \A u \in Threads : Owned(u)' \subseteq heap'
  BY <1>1, <1>3
<1>7. \A u, v \in Threads : u # v => Owned(u)' \cap Owned(v)' = {}
  <2> SUFFICES ASSUME NEW u \in Threads, NEW v \in Threads, u # v
               PROVE  Owned(u)' \cap Owned(v)' = {}
    OBVIOUS
  <2>1. CASE u = t
    BY <1>1, <1>3, <2>1
  <2>2. CASE v = t
    BY <1>1, <1>3, <2>2
  <2>3. CASE u # t /\ v # t
    BY <1>1, <2>3 DEF Inv, Apart
  <2> QED
    BY <2>1, <2>2, <2>3
<1>8. \A c \in chunks, u \in Threads : Extent(c) \cap Owned(u)' = {}
  BY <1>1, <1>2 DEF Inv, Apart
<1>9. \A c, d \in chunks : c # d => Extent(c) \cap Extent(d) = {}
  BY DEF Inv, Apart
<1> QED
  BY <1>4, <1>5, <1>6, <1>7, <1>8, <1>9 DEF Apart

LEMMA WorkingKept ==
  ASSUME Inv, NEW t \in Threads,
         \A u \in Threads : u # t => pc'[u] = pc[u] /\ work'[u] = work[u],
         pc'[t] # "idle" =>
           /\ Placed(work'[t])
           /\ work'[t].tag \in Tags
           /\ Extent(work'[t]) \subseteq Owned(t)',
         pc'[t] \in {"front", "back", "tag"} =>
           \E size \in Sizes : work'[t].allocated = MapSize(size)
  PROVE  Working'
<1>1. SUFFICES ASSUME NEW u \in Threads
               PROVE  /\ pc'[u] # "idle" =>
                           /\ Placed(work'[u])
                           /\ work'[u].tag \in Tags
                           /\ Extent(work'[u]) \subseteq Owned(u)'
                      /\ pc'[u] \in {"front", "back", "tag"} =>
                           \E size \in Sizes : work'[u].allocated = MapSize(size)
  BY DEF Working, Placed, Extent, Range
<1>2. CASE u = t
  BY <1>2
<1>3. CASE u # t
  <2>1. pc'[u] = pc[u] /\ work'[u] = work[u] /\ Owned(u)' = Owned(u)
    BY <1>3, Same
  <2> QED
    BY <2>1 DEF Inv, Working
<1> QED
  BY <1>2, <1>3

LEMMA ShadowKept ==
  ASSUME Inv, NEW t \in Threads,
         \A u \in Threads : u # t => pc'[u] = pc[u] /\ work'[u] = work[u],
         shadow' = shadow, stack' = stack, chunks' = chunks, Left(t)' = Left(t)
  PROVE  Tagged' /\ Untagged'
<1>1. \A u \in Threads : Left(u)' = Left(u)
  BY Same
<1>3. \A c \in chunks : Body(c)' = Body(c)
  BY DEF Body, Range
<1>4. Tagged'
  BY <1>3 DEF Inv, Tagged
<1>5. Untagged'
  BY <1>1, <1>3 DEF Inv, Untagged, Addresses
<1> QED
  BY <1>4, <1>5

LEMMA TypesOf ==
  ASSUME Types, NEW t \in Threads, NEW m, pc' = [pc EXCEPT ![t] = m]
  PROVE  pc'[t] = m /\ \A u \in Threads : u # t => pc'[u] = pc[u]
BY DEF Types

LEMMA WorkOf ==
  ASSUME Types, NEW t \in Threads, NEW w, work' = [work EXCEPT ![t] = w]
  PROVE  /\ work'[t] = w /\ DOMAIN work' = Threads
         /\ \A u \in Threads : u # t => work'[u] = work[u]
BY DEF Types

LEMMA InvKeepsTags == Inv => TagsKept
<1> SUFFICES ASSUME Inv PROVE TagsKept
  OBVIOUS
<1>1. \A c \in chunks : Range(c.at, c.allocated) \subseteq heap \ (stack \cup SuperPool)
  BY DEF Inv, Held, Apart, Extent
<1>2. \A c \in chunks : \A g \in Range(c.at + 1, c.size) : shadow[g] = c.tag
  BY DEF Inv, Tagged, Body
<1> QED
  BY <1>1, <1>2 DEF TagsKept

LEMMA Living ==
  ASSUME Inv', died' = "no" PROVE IInv'
<1>1. TagsKept'
  BY InvKeepsTags, PTL
<1> QED
  BY <1>1 DEF IInv, OwnFreesPass

LEMMA Dying ==
  ASSUME TagsKept, UNCHANGED <<heap, stack, shadow, chunks>>,
         died' \notin {"no", "reported", "not at chunk start"}
  PROVE  IInv'
BY DEF IInv, TagsKept, Range, OwnFreesPass

------------------------------------------------------------------------------
(* The actions *)

LEMMA InitIInv ==
  ASSUME ConstantsOK, Init PROVE IInv
<1>1. Types
  BY DEF Init, Types, Addresses
<1>2. \A t \in Threads : pc[t] = "idle" /\ Owned(t) = {} /\ Left(t) = {}
  BY DEF Init, Owned, Left
<1>3. Inv
  BY <1>1, <1>2 DEF Init, Inv, Working, Held, Apart, Tagged, Untagged
<1> QED
  BY <1>3, InvKeepsTags DEF Init, IInv, OwnFreesPass

LEMMA MapIInv ==
  ASSUME ConstantsOK, Inv, died = "no",
         NEW t \in Threads, NEW size \in Sizes, NEW tag \in Tags, Map(t, size, tag)
  PROVE  IInv'
<1> DEFINE n == MapSize(size)
<1>1. CASE died' = "no memory" /\ UNCHANGED <<heap, work>>
  <2>1. UNCHANGED <<heap, stack, shadow, chunks>>
    BY <1>1 DEF Map
  <2> QED
    BY <1>1, <2>1, InvKeepsTags, Dying
<1>2. CASE \E page \in 0..((Space - n - ShadowPage) \div Page) :
              LET beg == page * Page
              IN  /\ Range(beg, n + ShadowPage) \cap (heap \cup stack) = {}
                  /\ heap' = heap \cup Range(beg, n + ShadowPage)
                  /\ work' = [work EXCEPT ![t] =
                       [at |-> Aligned(beg), size |-> size, tag |-> tag,
                        allocated |-> n, mapped |-> Range(beg, n + ShadowPage)]]
                  /\ UNCHANGED died
  <2>1. /\ Page \in Nat \ {0} /\ ShadowPage \in Nat \ {0} /\ Space \in Nat
        /\ size \in Nat \ {0} /\ n \in Nat /\ size + 1 <= n
    BY MapSizeBounds DEF ConstantsOK
  <2> HIDE DEF n
  <2>2. PICK page \in 0..((Space - n - ShadowPage) \div Page) :
          /\ Range(page * Page, n + ShadowPage) \cap (heap \cup stack) = {}
          /\ heap' = heap \cup Range(page * Page, n + ShadowPage)
          /\ work' = [work EXCEPT ![t] =
               [at |-> Aligned(page * Page), size |-> size, tag |-> tag,
                allocated |-> n, mapped |-> Range(page * Page, n + ShadowPage)]]
          /\ UNCHANGED died
    BY <1>2
  <2>3. Space - n - ShadowPage \in Int
    BY <2>1
  <2>4. page * Page \in Nat /\ page * Page <= Space - n - ShadowPage
    BY <2>1, <2>3, MappedInside
  <2>5. PICK beg \in Nat : beg = page * Page
    BY <2>4
  <2> DEFINE w == [at |-> Aligned(beg), size |-> size, tag |-> tag,
                   allocated |-> n, mapped |-> Range(beg, n + ShadowPage)]
  <2>6. /\ Range(beg, n + ShadowPage) \cap (heap \cup stack) = {}
        /\ heap' = heap \cup Range(beg, n + ShadowPage)
        /\ work' = [work EXCEPT ![t] = w]
        /\ died' = died
    BY <2>2, <2>5
  <2>7. /\ mutex' = t /\ pc[t] = "idle" /\ pc' = [pc EXCEPT ![t] = "front"]
        /\ stack' = stack /\ shadow' = shadow /\ chunks' = chunks
    BY DEF Map, At
  <2>8. Types
    BY DEF Inv
  <2>9. pc'[t] = "front" /\ \A u \in Threads : u # t => pc'[u] = pc[u]
    BY <2>7, <2>8, TypesOf
  <2>10. work'[t] = w /\ DOMAIN work' = Threads /\ \A u \in Threads : u # t => work'[u] = work[u]
    BY <2>6, <2>8, WorkOf
  <2>11. PICK k \in Nat : RoundUpTo(beg, ShadowPage) = k * ShadowPage /\ beg <= k * ShadowPage /\ k * ShadowPage < beg + ShadowPage
    BY <2>1, RoundedUp
  <2>12. k * ShadowPage \in Nat /\ w.at = k * ShadowPage
    BY <2>1, <2>11 DEF Aligned
  <2>13. w.size = size /\ w.tag = tag /\ w.allocated = n /\ w.mapped = Range(beg, n + ShadowPage)
    OBVIOUS
  <2> HIDE DEF w
  <2>14. Placed(w)
    BY <2>1, <2>12, <2>13 DEF Placed
  <2>15. Extent(w) \subseteq w.mapped
    BY <2>1, <2>11, <2>12, <2>13 DEF Extent, Range
  <2>16. Owned(t) = {} /\ Left(t) = {}
    BY <2>7 DEF Owned, Left
  <2>17. Owned(t)' = w.mapped /\ Left(t)' = {}
    BY <2>9, <2>10 DEF Owned, Left
  <2>18. w.mapped \subseteq Addresses
    BY <2>1, <2>4, <2>5, <2>13 DEF Range, Addresses
  <2>19. Types'
    BY <2>6, <2>7, <2>8, <2>10, <2>13, <2>18 DEF Types, Addresses
  <2>20. Working'
    <3>1. \A u \in Threads : u # t => pc'[u] = pc[u] /\ work'[u] = work[u]
      BY <2>9, <2>10
    <3>2. /\ Placed(work'[t]) /\ work'[t].tag \in Tags
          /\ Extent(work'[t]) \subseteq Owned(t)'
      BY <2>10, <2>13, <2>14, <2>15, <2>17
    <3>3. \E s \in Sizes : work'[t].allocated = MapSize(s)
      BY <2>10, <2>13 DEF n
    <3> QED
      BY <3>1, <3>2, <3>3, WorkingKept
  <2>21. heap' \cap stack = {}
    BY <2>6 DEF Inv, Apart
  <2>22. /\ heap \ Owned(t) \subseteq heap' /\ Owned(t)' \subseteq heap'
         /\ Owned(t)' \cap (heap \ Owned(t)) = {}
    BY <2>6, <2>13, <2>17
  <2>23. Held' /\ Apart'
    BY <2>7, <2>9, <2>10, <2>21, <2>22, MemoryKept
  <2>24. Tagged' /\ Untagged'
    BY <2>7, <2>9, <2>10, <2>16, <2>17, ShadowKept
  <2> QED
    BY <2>6, <2>19, <2>20, <2>23, <2>24, Living DEF Inv
<1> QED
  BY <1>1, <1>2 DEF Map

(* The actions that only move a thread on and give back what it has. *)
LEMMA GivesBack ==
  ASSUME Inv, died = "no", NEW t \in Threads, NEW m,
         m \in {"idle", "front", "back", "tag", "lock", "remap", "unmap"},
         pc' = [pc EXCEPT ![t] = m],
         DOMAIN work' = Threads, \A u \in Threads : u # t => work'[u] = work[u],
         UNCHANGED <<stack, shadow, chunks, died>>,
         heap' \subseteq heap, heap \ heap' \subseteq Owned(t),
         Owned(t)' \subseteq Owned(t), Owned(t)' \subseteq heap', Left(t)' = Left(t),
         m # "idle" =>
           /\ work'[t] = work[t] /\ pc[t] # "idle" /\ Extent(work[t]) \subseteq Owned(t)'
           /\ m \in {"front", "back", "tag"} => pc[t] \in {"front", "back", "tag"}
  PROVE  IInv'
<1>1. Types
  BY DEF Inv
<1>2. pc'[t] = m /\ \A u \in Threads : u # t => pc'[u] = pc[u]
  BY <1>1, TypesOf
<1>3. Types'
  BY <1>1, <1>2 DEF Types, Addresses
<1>4. pc'[t] # "idle" =>
           /\ Placed(work'[t])
           /\ work'[t].tag \in Tags
           /\ Extent(work'[t]) \subseteq Owned(t)'
  BY <1>2 DEF Inv, Working
<1>5. pc'[t] \in {"front", "back", "tag"} =>
           \E size \in Sizes : work'[t].allocated = MapSize(size)
  BY <1>2 DEF Inv, Working
<1>6. Working'
  BY <1>2, <1>4, <1>5, WorkingKept
<1>7. heap' \cap stack = {} /\ heap \ Owned(t) \subseteq heap'
  BY DEF Inv, Apart
<1>8. Held' /\ Apart'
  BY <1>2, <1>7, MemoryKept
<1>9. Tagged' /\ Untagged'
  BY <1>2, ShadowKept
<1> QED
  BY <1>3, <1>6, <1>8, <1>9, Living DEF Inv

LEMMA OwnAddresses ==
  ASSUME Inv, NEW t \in Threads
  PROVE  Owned(t) \subseteq heap /\ \A g \in Owned(t) : g \in Int
<1>1. Owned(t) \subseteq heap
  BY DEF Inv, Apart
<1>2. \A g \in heap : g \in Int
  BY DEF Inv, Types, Addresses
<1> QED
  BY <1>1, <1>2

LEMMA TrimFrontIInv ==
  ASSUME ConstantsOK, Inv, died = "no", NEW t \in Threads, TrimFront(t)
  PROVE  IInv'
<1>1. /\ pc[t] = "front" /\ pc' = [pc EXCEPT ![t] = "back"]
      /\ heap' = heap \ {g \in work[t].mapped : g < work[t].at}
      /\ UNCHANGED <<stack, shadow, chunks, mutex, work, died>>
  BY DEF TrimFront, At
<1>2. pc'[t] = "back"
  BY <1>1, TypesOf DEF Inv
<1>3. Owned(t) = work[t].mapped /\ Left(t) = {}
  BY <1>1 DEF Owned, Left
<1>4. Owned(t)' = {g \in work[t].mapped : g >= work[t].at} /\ Left(t)' = {}
  BY <1>1, <1>2 DEF Owned, Left
<1>5. Placed(work[t]) /\ Extent(work[t]) \subseteq Owned(t)
  BY <1>1 DEF Inv, Working
<1>6. \A g \in Owned(t) : g \in heap /\ g \in Int
  BY OwnAddresses
<1>7. Owned(t)' \subseteq heap'
  BY <1>1, <1>3, <1>4, <1>5, <1>6 DEF Placed
<1>8. Extent(work[t]) \subseteq Owned(t)'
  BY <1>3, <1>4, <1>5 DEF Placed, Extent, Range
<1>9. DOMAIN work' = Threads
  BY <1>1 DEF Inv, Types
<1> QED
  BY <1>1, <1>3, <1>4, <1>7, <1>8, <1>9, GivesBack

LEMMA TrimBackIInv ==
  ASSUME ConstantsOK, Inv, died = "no", NEW t \in Threads, TrimBack(t)
  PROVE  IInv'
<1>1. /\ pc[t] = "back" /\ pc' = [pc EXCEPT ![t] = "tag"]
      /\ heap' = heap \ {g \in work[t].mapped : g >= work[t].at + work[t].allocated}
      /\ UNCHANGED <<stack, shadow, chunks, mutex, work, died>>
  BY DEF TrimBack, At
<1>2. pc'[t] = "tag"
  BY <1>1, TypesOf DEF Inv
<1>3. Owned(t) = {g \in work[t].mapped : g >= work[t].at} /\ Left(t) = {}
  BY <1>1 DEF Owned, Left
<1>4. Extent(work[t])' = Extent(work[t])
  BY <1>1 DEF Extent, Range
<1>5. Owned(t)' = Extent(work[t]) /\ Left(t)' = {}
  BY <1>2, <1>4 DEF Owned, Left
<1>6. Placed(work[t]) /\ Extent(work[t]) \subseteq Owned(t)
  BY <1>1 DEF Inv, Working
<1>7. \A g \in Owned(t) : g \in heap /\ g \in Int
  BY OwnAddresses
<1>8. Owned(t)' \subseteq heap'
  BY <1>1, <1>5, <1>6, <1>7 DEF Placed, Extent, Range
<1>9. \A g \in heap : g \in Int
  BY DEF Inv, Types, Addresses
<1>10. heap \ heap' \subseteq Owned(t)
  BY <1>1, <1>3, <1>6, <1>9 DEF Placed
<1>11. DOMAIN work' = Threads
  BY <1>1 DEF Inv, Types
<1> QED
  BY <1>1, <1>3, <1>5, <1>6, <1>8, <1>10, <1>11, GivesBack

LEMMA LockIInv ==
  ASSUME ConstantsOK, Inv, died = "no", NEW t \in Threads, Lock(t)
  PROVE  IInv'
<1>1. /\ pc[t] = "lock" /\ pc' = [pc EXCEPT ![t] = "remap"]
      /\ UNCHANGED <<heap, stack, shadow, chunks, work, died>>
  BY DEF Lock, At
<1>2. pc'[t] = "remap"
  BY <1>1, TypesOf DEF Inv
<1>3. Owned(t) = Extent(work[t]) /\ Owned(t)' = Extent(work[t]) /\ Left(t)' = Left(t)
  BY <1>1, <1>2 DEF Owned, Left, Extent, Body, Range
<1>4. DOMAIN work' = Threads
  BY <1>1 DEF Inv, Types
<1> QED
  BY <1>1, <1>3, <1>4, OwnAddresses, GivesBack

LEMMA UnmapIInv ==
  ASSUME ConstantsOK, Inv, died = "no", NEW t \in Threads, Unmap(t)
  PROVE  IInv'
<1>1. /\ pc[t] = "unmap" /\ pc' = [pc EXCEPT ![t] = "idle"]
      /\ heap' = heap \ Range(work[t].at, work[t].allocated)
      /\ work' = [work EXCEPT ![t] = None]
      /\ UNCHANGED <<stack, shadow, chunks, died>>
  BY DEF Unmap, At
<1>2. pc'[t] = "idle"
  BY <1>1, TypesOf DEF Inv
<1>3. Owned(t) = Extent(work[t]) /\ Owned(t)' = {} /\ Left(t)' = Left(t)
  BY <1>1, <1>2 DEF Owned, Left
<1>4. DOMAIN work' = Threads /\ \A u \in Threads : u # t => work'[u] = work[u]
  BY <1>1, WorkOf DEF Inv
<1>5. heap' \subseteq heap /\ heap \ heap' \subseteq Owned(t)
  BY <1>1, <1>3 DEF Extent
<1> QED
  BY <1>1, <1>3, <1>4, <1>5, GivesBack

(* What CTMapBlackCheck looks at suffices for a chunk that is no longer than *)
(* the SuperPools.                                                         *)
LEMMA BlackCheckSuffices ==
  ASSUME ConstantsOK, NEW size \in Sizes, NEW beg \in Nat, BlackCheck(beg, MapSize(size))
  PROVE  Range(beg, MapSize(size)) \cap SuperPool = {}
<1>1. PICK n \in Nat : n = MapSize(size)
  BY MapSizeBounds
<1>2. PICK first, end \in Nat : SuperPool = first..(end - 1) /\ n <= end - first
  BY <1>1 DEF ConstantsOK
<1>3. beg \notin SuperPool /\ beg + n \notin SuperPool
  BY <1>1 DEF BlackCheck
<1>4. SUFFICES ASSUME NEW g \in beg..(beg + n - 1), g \in first..(end - 1) PROVE FALSE
  BY <1>1, <1>2 DEF Range
<1>5. beg < first /\ beg + n >= end
  BY <1>2, <1>3, <1>4
<1> QED
  BY <1>2, <1>5

LEMMA TagIInv ==
  ASSUME ConstantsOK, Inv, died = "no", NEW t \in Threads, Tag(t)
  PROVE  IInv'
<1> DEFINE w == work[t]
           c == [at |-> w.at, size |-> w.size, allocated |-> w.allocated, tag |-> w.tag]
<1>1. /\ pc[t] = "tag" /\ pc' = [pc EXCEPT ![t] = "idle"]
      /\ work' = [work EXCEPT ![t] = None]
      /\ heap' = heap /\ stack' = stack
  BY DEF Tag, At
<1>2. CASE died' = "black" /\ UNCHANGED <<shadow, chunks>>
  BY <1>1, <1>2, InvKeepsTags, Dying
<1>3. CASE /\ BlackCheck(w.at, w.allocated)
           /\ shadow' = [g \in Addresses |->
                           IF g \in Range(w.at + 1, w.size) THEN w.tag ELSE shadow[g]]
           /\ chunks' = chunks \cup {c}
           /\ UNCHANGED died
  <2>1. Types
    BY DEF Inv
  <2>2. pc'[t] = "idle" /\ \A u \in Threads : u # t => pc'[u] = pc[u]
    BY <1>1, <2>1, TypesOf
  <2>3. DOMAIN work' = Threads /\ \A u \in Threads : u # t => work'[u] = work[u]
    BY <1>1, <2>1, WorkOf
  <2>4. c.at = w.at /\ c.size = w.size /\ c.allocated = w.allocated /\ c.tag = w.tag
    OBVIOUS
  <2>5. Placed(w) /\ w.tag \in Tags /\ \E size \in Sizes : w.allocated = MapSize(size)
    BY <1>1 DEF Inv, Working
  <2>6. Owned(t) = Extent(w) /\ Left(t) = {}
    BY <1>1 DEF Owned, Left
  <2>7. Owned(t)' = {} /\ Left(t)' = {}
    BY <2>2 DEF Owned, Left
  <2>8. Extent(w) \cap SuperPool = {}
    <3>1. PICK size \in Sizes : w.allocated = MapSize(size)
      BY <2>5
    <3>2. w.at \in Nat
      BY <2>5 DEF Placed
    <3> QED
      BY <1>3, <3>1, <3>2, BlackCheckSuffices DEF Extent
  <2> HIDE DEF c, w
  <2>9. Placed(c) /\ Extent(c) = Extent(w) /\ Body(c) = Body(w)
    BY <2>4, <2>5 DEF Placed, Extent, Body
  <2>10. Extent(w) \subseteq heap
    BY <2>6, OwnAddresses
  <2>11. Types'
    <3>1. shadow' \in [Addresses -> Tags \cup {0}]
      BY <1>3, <2>1, <2>5 DEF Types
    <3>2. pc' \in [Threads -> {"idle", "front", "back", "tag", "lock", "remap", "unmap"}]
      BY <1>1, <2>1 DEF Types
    <3> QED
      BY <1>1, <2>1, <2>3, <3>1, <3>2 DEF Types, Addresses
  <2>12. Working'
    BY <2>2, <2>3, WorkingKept
  <2>13. \A d \in chunks' : Placed(d) /\ d.tag \in Tags /\ Extent(d) \subseteq heap \ SuperPool
    BY <1>3, <2>4, <2>5, <2>8, <2>9, <2>10 DEF Inv, Held
  <2>14. Held'
    BY <1>1, <2>13 DEF Held, Placed, Extent, Range
  <2>15. \A u \in Threads : u # t => Owned(u)' = Owned(u) /\ Left(u)' = Left(u)
    BY <2>2, <2>3, Same
  <2>16. \A u \in Threads : Owned(u)' \subseteq heap
    BY <2>7, <2>15 DEF Inv, Apart
  <2>17. \A u, v \in Threads : u # v => Owned(u)' \cap Owned(v)' = {}
    BY <2>7, <2>15 DEF Inv, Apart
  <2>18. \A u \in Threads : u # t => Extent(c) \cap Owned(u) = {}
    BY <2>6, <2>9 DEF Inv, Apart
  <2>19. \A d \in chunks', u \in Threads : Extent(d) \cap Owned(u)' = {}
    BY <1>3, <2>7, <2>15, <2>18 DEF Inv, Apart
  <2>20. \A d \in chunks : Extent(d) \cap Extent(c) = {}
    BY <2>6, <2>9 DEF Inv, Apart
  <2>21. \A d, e \in chunks' : d # e => Extent(d) \cap Extent(e) = {}
    BY <1>3, <2>20 DEF Inv, Apart
  <2>22. Apart'
    BY <1>1, <2>16, <2>17, <2>19, <2>21 DEF Inv, Apart, Extent, Range
  <2>23. \A d \in chunks : Body(d) \cap Body(c) = {} /\ Body(d) \subseteq Addresses
    <3> SUFFICES ASSUME NEW d \in chunks
                 PROVE  Body(d) \cap Body(c) = {} /\ Body(d) \subseteq Addresses
      OBVIOUS
    <3>1. Placed(d) /\ Extent(d) \subseteq heap
      BY DEF Inv, Held
    <3>2. Body(d) \subseteq Extent(d) /\ Body(c) \subseteq Extent(c)
      BY <2>9, <3>1, BodyInside
    <3> QED
      BY <2>1, <2>20, <3>1, <3>2 DEF Types
  <2>24. Body(c) \subseteq Addresses
    BY <2>1, <2>9, <2>10, BodyInside DEF Types
  <2>25. \A g \in Addresses : shadow'[g] = IF g \in Body(c) THEN c.tag ELSE shadow[g]
    BY <1>3, <2>4, <2>9 DEF Body
  <2>26. \A d \in chunks' : \A g \in Body(d) : shadow'[g] = d.tag
    <3> SUFFICES ASSUME NEW d \in chunks', NEW g \in Body(d) PROVE shadow'[g] = d.tag
      OBVIOUS
    <3>1. CASE d = c
      BY <2>24, <2>25, <3>1
    <3>2. CASE d \in chunks
      BY <2>23, <2>25, <3>2 DEF Inv, Tagged
    <3> QED
      BY <1>3, <3>1, <3>2
  <2>27. Tagged'
    BY <2>26 DEF Tagged, Body, Range
  <2>28. \A g \in Addresses :
           shadow'[g] # 0 =>
             g \in stack \/ (\E d \in chunks' : g \in Body(d)) \/ (\E u \in Threads : g \in Left(u)')
    <3> SUFFICES ASSUME NEW g \in Addresses, shadow'[g] # 0, g \notin stack,
                        \A d \in chunks' : g \notin Body(d)
                 PROVE  \E u \in Threads : g \in Left(u)'
      OBVIOUS
    <3>1. g \notin Body(c) /\ \A d \in chunks : g \notin Body(d)
      BY <1>3
    <3>2. shadow[g] # 0
      BY <2>25, <3>1
    <3>3. PICK u \in Threads : g \in Left(u)
      BY <3>1, <3>2 DEF Inv, Untagged
    <3> QED
      BY <2>6, <2>15, <3>3
  <2>29. Untagged'
    BY <1>1, <2>28 DEF Untagged, Addresses, Body, Range
  <2> QED
    BY <1>3, <2>11, <2>12, <2>14, <2>22, <2>27, <2>29, Living DEF Inv
<1> QED
  BY <1>2, <1>3 DEF Tag

(* The checks pass: the chunk has its tags, and nothing else has a tag where *)
(* its header is.                                                          *)
LEMMA ChecksPass ==
  ASSUME Inv, NEW c \in chunks
  PROVE  shadow[c.at + 1] = c.tag /\ shadow[c.at] = 0
<1>1. Placed(c) /\ Extent(c) \subseteq heap /\ heap \subseteq Addresses
  BY DEF Inv, Held, Types
<1>2. c.at + 1 \in Body(c) /\ c.at \in Extent(c) /\ c.at \notin Body(c)
  BY <1>1, BodyInside
<1>3. shadow[c.at + 1] = c.tag
  BY <1>2 DEF Inv, Tagged
<1>4. c.at \in Addresses /\ c.at \notin stack
  BY <1>1, <1>2 DEF Inv, Apart
<1>5. ASSUME NEW d \in chunks PROVE c.at \notin Body(d)
  <2>1. Placed(d)
    BY DEF Inv, Held
  <2>2. Body(d) \subseteq Extent(d)
    BY <2>1, BodyInside
  <2> QED
    BY <1>2, <2>2 DEF Inv, Apart
<1>6. ASSUME NEW t \in Threads PROVE c.at \notin Left(t)
  <2>1. CASE pc[t] \in {"lock", "remap"}
    <3>1. Placed(work[t])
      BY <2>1 DEF Inv, Working
    <3>2. Left(t) \subseteq Owned(t)
      BY <2>1, <3>1, BodyInside DEF Left, Owned
    <3> QED
      BY <1>2, <3>2 DEF Inv, Apart
  <2>2. CASE pc[t] \notin {"lock", "remap"}
    BY <2>2 DEF Left
  <2> QED
    BY <2>1, <2>2
<1>7. shadow[c.at] = 0
  BY <1>4, <1>5, <1>6 DEF Inv, Untagged
<1> QED
  BY <1>3, <1>7

LEMMA CheckIInv ==
  ASSUME ConstantsOK, Inv, died = "no", NEW t \in Threads, NEW c \in chunks, Check(t, c)
  PROVE  IInv'
<1>1. /\ pc[t] = "idle" /\ pc' = [pc EXCEPT ![t] = "lock"]
      /\ chunks' = chunks \ {c} /\ work' = [work EXCEPT ![t] = c]
      /\ UNCHANGED <<heap, stack, shadow>>
  BY DEF Check, At
<1>2. died' = "no"
  BY ChecksPass DEF Check
<1>3. Types
  BY DEF Inv
<1>4. pc'[t] = "lock" /\ \A u \in Threads : u # t => pc'[u] = pc[u]
  BY <1>1, <1>3, TypesOf
<1>5. work'[t] = c /\ DOMAIN work' = Threads /\ \A u \in Threads : u # t => work'[u] = work[u]
  BY <1>1, <1>3, WorkOf
<1>6. Placed(c) /\ c.tag \in Tags /\ Extent(c) \subseteq heap \ SuperPool
  BY DEF Inv, Held
<1>7. Owned(t) = {} /\ Left(t) = {}
  BY <1>1 DEF Owned, Left
<1>8. Owned(t)' = Extent(c) /\ Left(t)' = Body(c)
  BY <1>4, <1>5 DEF Owned, Left, Extent, Body, Range
<1>9. \A u \in Threads : u # t => Owned(u)' = Owned(u) /\ Left(u)' = Left(u)
  BY <1>4, <1>5, Same
<1>10. Types'
  <2>1. pc' \in [Threads -> {"idle", "front", "back", "tag", "lock", "remap", "unmap"}]
    BY <1>1, <1>3 DEF Types
  <2> QED
    BY <1>1, <1>3, <1>5, <2>1 DEF Types, Addresses
<1>11. Working'
  BY <1>4, <1>5, <1>6, <1>8, WorkingKept
<1>12. Held'
  BY <1>1 DEF Inv, Held, Placed, Extent, Range
<1>13. Apart'
  <2>1. \A u \in Threads : Owned(u)' \subseteq heap
    BY <1>6, <1>8, <1>9 DEF Inv, Apart
  <2>2. \A u \in Threads : u # t => Extent(c) \cap Owned(u) = {}
    BY DEF Inv, Apart
  <2>3. \A u, v \in Threads : u # v => Owned(u)' \cap Owned(v)' = {}
    BY <1>8, <1>9, <2>2 DEF Inv, Apart
  <2>4. \A d \in chunks' : d \in chunks /\ d # c
    BY <1>1
  <2>5. \A d \in chunks', u \in Threads : Extent(d) \cap Owned(u)' = {}
    BY <1>8, <1>9, <2>4 DEF Inv, Apart
  <2>6. \A d, e \in chunks' : d # e => Extent(d) \cap Extent(e) = {}
    BY <2>4 DEF Inv, Apart
  <2> QED
    BY <1>1, <2>1, <2>3, <2>5, <2>6 DEF Inv, Apart, Extent, Range
<1>14. Tagged'
  BY <1>1 DEF Inv, Tagged, Body, Range
<1>15. \A g \in Addresses :
         shadow[g] # 0 =>
           g \in stack \/ (\E d \in chunks' : g \in Body(d)) \/ (\E u \in Threads : g \in Left(u)')
  <2> SUFFICES ASSUME NEW g \in Addresses, shadow[g] # 0, g \notin stack,
                      \A d \in chunks' : g \notin Body(d)
               PROVE  \E u \in Threads : g \in Left(u)'
    OBVIOUS
  <2>1. CASE g \in Body(c)
    BY <1>8, <2>1
  <2>2. CASE g \notin Body(c)
    <3>1. \A d \in chunks : g \notin Body(d)
      BY <1>1, <2>2
    <3>2. PICK u \in Threads : g \in Left(u)
      BY <3>1 DEF Inv, Untagged
    <3> QED
      BY <1>7, <1>9, <3>2
  <2> QED
    BY <2>1, <2>2
<1>16. Untagged'
  BY <1>1, <1>15 DEF Untagged, Addresses, Body, Range
<1> QED
  BY <1>2, <1>10, <1>11, <1>12, <1>13, <1>14, <1>16, Living DEF Inv

LEMMA RemapShadowIInv ==
  ASSUME ConstantsOK, Inv, died = "no", NEW t \in Threads, RemapShadow(t)
  PROVE  IInv'
<1> DEFINE w == work[t]
<1>1. /\ pc[t] = "remap" /\ pc' = [pc EXCEPT ![t] = "unmap"]
      /\ shadow' = [g \in Addresses |-> IF g \in Remapped(w) THEN 0 ELSE shadow[g]]
      /\ UNCHANGED <<heap, stack, chunks, work, died>>
  BY DEF RemapShadow, At
<1>2. Types
  BY DEF Inv
<1>3. pc'[t] = "unmap" /\ \A u \in Threads : u # t => pc'[u] = pc[u] /\ work'[u] = work[u]
  BY <1>1, <1>2, TypesOf
<1>4. Placed(w) /\ w.tag \in Tags
  BY <1>1 DEF Inv, Working
<1>5. Owned(t) = Extent(w) /\ Left(t) = Body(w)
  BY <1>1 DEF Owned, Left
<1>6. Owned(t)' = Extent(w) /\ Left(t)' = {}
  BY <1>1, <1>3 DEF Owned, Left, Extent, Range
<1>7. \A u \in Threads : u # t => Owned(u)' = Owned(u) /\ Left(u)' = Left(u)
  BY <1>3, Same
<1>8. Types'
  <2>1. shadow' \in [Addresses -> Tags \cup {0}]
    BY <1>1, <1>2 DEF Types
  <2>2. pc' \in [Threads -> {"idle", "front", "back", "tag", "lock", "remap", "unmap"}]
    BY <1>1, <1>2 DEF Types
  <2> QED
    BY <1>1, <1>2, <2>1, <2>2 DEF Types, Addresses
<1>9. work'[t] = w
  BY <1>1
<1> HIDE DEF w
<1>10. Working'
  BY <1>3, <1>4, <1>6, <1>9, WorkingKept
<1>11. Held' /\ Apart'
  <2>1. heap' \cap stack = {} /\ Owned(t) \subseteq heap
    BY <1>1 DEF Inv, Apart
  <2> QED
    BY <1>1, <1>3, <1>5, <1>6, <2>1, MemoryKept
<1>12. \A d \in chunks : \A g \in Body(d) : g \in Addresses /\ g \notin Remapped(w)
  <2> SUFFICES ASSUME NEW d \in chunks, NEW g \in Body(d)
               PROVE  g \in Addresses /\ g \notin Remapped(w)
    OBVIOUS
  <2>1. Placed(d) /\ Extent(d) \subseteq heap
    BY DEF Inv, Held
  <2>2. Extent(w) \cap Extent(d) = {}
    BY <1>5 DEF Inv, Apart
  <2>3. Remapped(w) \cap Extent(d) = {}
    BY <1>4, <2>1, <2>2, RemapClear
  <2>4. Body(d) \subseteq Extent(d)
    BY <2>1, BodyInside
  <2> QED
    BY <1>2, <2>1, <2>3, <2>4 DEF Types
<1>13. \A d \in chunks : \A g \in Body(d) : shadow'[g] = d.tag
  BY <1>1, <1>12 DEF Inv, Tagged
<1>14. Tagged'
  BY <1>1, <1>13 DEF Tagged, Body, Range
<1>15. \A g \in Addresses :
         shadow'[g] # 0 =>
           g \in stack \/ (\E d \in chunks : g \in Body(d)) \/ (\E u \in Threads : g \in Left(u)')
  <2> SUFFICES ASSUME NEW g \in Addresses, shadow'[g] # 0, g \notin stack,
                      \A d \in chunks : g \notin Body(d)
               PROVE  \E u \in Threads : g \in Left(u)'
    OBVIOUS
  <2>1. shadow[g] # 0 /\ g \notin Remapped(w)
    BY <1>1
  <2>2. PICK u \in Threads : g \in Left(u)
    BY <2>1 DEF Inv, Untagged
  <2>3. g \notin Body(w)
    BY <1>4, <2>1, RemappedFromStart, BodyInside
  <2> QED
    BY <1>5, <1>7, <2>2, <2>3
<1>16. Untagged'
  BY <1>1, <1>15 DEF Untagged, Addresses, Body, Range
<1> QED
  BY <1>1, <1>8, <1>10, <1>11, <1>14, <1>16, Living DEF Inv

LEMMA ThreadsStay ==
  ASSUME UNCHANGED <<chunks, pc, work>>
  PROVE  /\ \A u \in Threads : Owned(u)' = Owned(u) /\ Left(u)' = Left(u)
         /\ Working = Working'
         /\ UNCHANGED heap => (Held = Held')
<1>1. \A u \in Threads : Owned(u)' = Owned(u) /\ Left(u)' = Left(u)
  BY Same
<1>2. Working = Working'
  BY <1>1 DEF Working, Placed, Extent, Range
<1>3. UNCHANGED heap => (Held = Held')
  BY DEF Held, Placed, Extent, Range
<1> QED
  BY <1>1, <1>2, <1>3

LEMMA StackBeginIInv ==
  ASSUME ConstantsOK, Inv, died = "no", StackBegin
  PROVE  IInv'
<1>1. PICK page \in 0..((Space - StackSize) \div Page) :
         /\ Range(page * Page, StackSize) \cap heap = {}
         /\ stack' = Range(page * Page, StackSize)
  BY DEF StackBegin
<1>2. stack = {} /\ UNCHANGED <<heap, shadow, chunks, mutex, pc, work, died>>
  BY DEF StackBegin
<1>3. Page \in Nat \ {0} /\ Space \in Nat /\ StackSize \in Nat
  BY DEF ConstantsOK
<1>4. Space - StackSize \in Int
  BY <1>3
<1>5. page * Page \in Nat /\ page * Page <= Space - StackSize
  BY <1>3, <1>4, MappedInside
<1>6. PICK beg \in Nat : beg = page * Page
  BY <1>5
<1>7. stack' \subseteq Addresses
  BY <1>1, <1>3, <1>5, <1>6 DEF Range, Addresses
<1>8. Types'
  BY <1>2, <1>7 DEF Inv, Types, Addresses
<1>9. Apart'
  BY <1>1, <1>2, ThreadsStay DEF Inv, Apart, Extent, Range
<1>10. Tagged'
  BY <1>2 DEF Inv, Tagged, Body, Range
<1>11. Untagged'
  <2>1. \A u \in Threads : Left(u)' = Left(u)
    BY <1>2, ThreadsStay
  <2> QED
    BY <1>2, <2>1 DEF Inv, Untagged, Addresses, Body, Range
<1> QED
  BY <1>2, <1>8, <1>9, <1>10, <1>11, ThreadsStay, Living DEF Inv

LEMMA StackTagIInv ==
  ASSUME ConstantsOK, Inv, died = "no",
         NEW g \in Addresses, NEW tag \in Tags \cup {0}, StackTag(g, tag)
  PROVE  IInv'
<1>1. /\ g \in stack /\ shadow' = [shadow EXCEPT ![g] = tag]
      /\ UNCHANGED <<heap, stack, chunks, mutex, pc, work, died>>
  BY DEF StackTag
<1>2. Types'
  BY <1>1 DEF Inv, Types, Addresses
<1>3. Apart'
  BY <1>1, ThreadsStay DEF Inv, Apart, Extent, Range
<1>4. \A h \in Addresses : h # g => shadow'[h] = shadow[h]
  BY <1>1 DEF Inv, Types
<1>5. \A d \in chunks : \A h \in Body(d) : h \in Addresses /\ h # g
  <2> SUFFICES ASSUME NEW d \in chunks PROVE Body(d) \subseteq Addresses /\ g \notin Body(d)
    OBVIOUS
  <2>1. Placed(d) /\ Extent(d) \subseteq heap
    BY DEF Inv, Held
  <2>2. Body(d) \subseteq heap
    BY <2>1, BodyInside
  <2> QED
    BY <1>1, <2>2 DEF Inv, Types, Apart
<1>6. Tagged'
  BY <1>1, <1>4, <1>5 DEF Inv, Tagged, Body, Range
<1>7. Untagged'
  <2>1. \A u \in Threads : Left(u)' = Left(u)
    BY <1>1, ThreadsStay
  <2>2. \A h \in Addresses :
          shadow'[h] # 0 =>
            h \in stack \/ (\E c \in chunks : h \in Body(c)) \/ (\E t \in Threads : h \in Left(t))
    BY <1>1, <1>4 DEF Inv, Untagged
  <2> QED
    BY <1>1, <2>1, <2>2 DEF Untagged, Addresses, Body, Range
<1> QED
  BY <1>1, <1>2, <1>3, <1>6, <1>7, ThreadsStay, Living DEF Inv

LEMMA StackEndIInv ==
  ASSUME ConstantsOK, Inv, died = "no", StackEnd
  PROVE  IInv'
<1>1. /\ \A g \in stack : shadow[g] = 0
      /\ stack' = {} /\ UNCHANGED <<heap, shadow, chunks, mutex, pc, work, died>>
  BY DEF StackEnd
<1>2. Types'
  BY <1>1 DEF Inv, Types, Addresses
<1>3. Apart'
  BY <1>1, ThreadsStay DEF Inv, Apart, Extent, Range
<1>4. Tagged'
  BY <1>1 DEF Inv, Tagged, Body, Range
<1>5. Untagged'
  <2>1. \A u \in Threads : Left(u)' = Left(u)
    BY <1>1, ThreadsStay
  <2>2. \A g \in Addresses :
          shadow[g] # 0 => (\E c \in chunks : g \in Body(c)) \/ (\E t \in Threads : g \in Left(t))
    BY <1>1 DEF Inv, Untagged
  <2> QED
    BY <1>1, <2>1, <2>2 DEF Untagged, Addresses, Body, Range
<1> QED
  BY <1>1, <1>2, <1>3, <1>4, <1>5, ThreadsStay, Living DEF Inv

LEMMA StutterIInv ==
  ASSUME IInv, UNCHANGED vars PROVE IInv'
<1>1. UNCHANGED <<heap, stack, shadow, chunks, pc, work, died>>
  BY DEF vars
<1>2. ASSUME Inv PROVE Inv'
  <2>1. Types'
    BY <1>1, <1>2 DEF Inv, Types, Addresses
  <2>2. Apart'
    BY <1>1, <1>2, ThreadsStay DEF Inv, Apart, Extent, Range
  <2>3. Tagged'
    BY <1>1, <1>2 DEF Inv, Tagged, Body, Range
  <2>4. Untagged'
    <3>1. \A u \in Threads : Left(u)' = Left(u)
      BY <1>1, ThreadsStay
    <3> QED
      BY <1>1, <1>2, <3>1 DEF Inv, Untagged, Addresses, Body, Range
  <2> QED
    BY <1>1, <1>2, <2>1, <2>2, <2>3, <2>4, ThreadsStay DEF Inv
<1> QED
  BY <1>1, <1>2 DEF IInv, TagsKept, Range, OwnFreesPass

LEMMA Invariance ==
  ASSUME ConstantsOK, IInv, [Next]_vars PROVE IInv'
<1>1. CASE UNCHANGED vars
  BY <1>1, StutterIInv
<1>2. CASE Next
  <2>1. died = "no" /\ Inv
    BY <1>2 DEF Next, IInv
  <2>2. CASE \E t \in Threads :
               \/ \E size \in Sizes, tag \in Tags : Map(t, size, tag)
               \/ TrimFront(t)
               \/ TrimBack(t)
               \/ Tag(t)
               \/ \E c \in chunks : Check(t, c)
               \/ Lock(t)
               \/ RemapShadow(t)
               \/ Unmap(t)
    BY <2>1, <2>2, MapIInv, TrimFrontIInv, TrimBackIInv, TagIInv, CheckIInv, LockIInv,
       RemapShadowIInv, UnmapIInv
  <2>3. CASE StackBegin
    BY <2>1, <2>3, StackBeginIInv
  <2>4. CASE \E g \in Addresses, tag \in Tags \cup {0} : StackTag(g, tag)
    BY <2>1, <2>4, StackTagIInv
  <2>5. CASE StackEnd
    BY <2>1, <2>5, StackEndIInv
  <2> QED
    BY <1>2, <2>2, <2>3, <2>4, <2>5 DEF Next
<1> QED
  BY <1>1, <1>2

(* A large chunk has its memory to itself and keeps its tags until it is     *)
(* freed, and freeing it passes the checks of HwasanDeallocate.             *)
THEOREM TagsKeptAlways ==
  ASSUME ConstantsOK PROVE Spec => [](TagsKept /\ OwnFreesPass)
<1>1. Init => IInv
  BY InitIInv
<1>2. IInv /\ [Next]_vars => IInv'
  BY Invariance
<1>3. IInv => TagsKept /\ OwnFreesPass
  BY DEF IInv
<1> QED
  BY <1>1, <1>2, <1>3, PTL DEF Spec

=================================================================================
