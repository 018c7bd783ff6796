------------------------------ MODULE PlacesProofs ------------------------------
(***************************************************************************)
(* Proofs about the modules that MCPlaces puts together.                   *)
(*                                                                         *)
(* DropsExactly, of RegionFragment, and PlacesExact, of SizeClassMap and     *)
(* Dispatch, are proved here; the theorems about RegionLists, LargeChunk    *)
(* and PersistentAllocator are carried over from their own modules.         *)
(***************************************************************************)
EXTENDS MCPlaces, FiniteSetTheorems, TLAPS

PP == INSTANCE PersistentAllocatorProofs WITH
        cur <- curLoc, last <- lastLoc, pc <- persistentPc, size <- persistentSize
RP == INSTANCE RegionListsProofs WITH Region <- Regions, ShadowPage <- ListShadowPage
GP == INSTANCE LargeChunkProofs WITH Sizes <- LargeSizes, pc <- largePc

------------------------------------------------------------------------------
(* Releasing a fragment of a region                                        *)
(*                                                                         *)
(* The loop never looks at the chunks of a page: it works out how many      *)
(* there are.  That the number is right, in each of the branches of        *)
(* CTReleaseRegionFragment, for every size of pages and of chunks, is what  *)
(* is to be proved; the rest follows from comparing it with the number of   *)
(* freed ones.                                                             *)

ConstantsOK ==
  /\ PageSize \in Nat \ {0}
  /\ Chunks \in Nat
  /\ ChunkSizes \subseteq Nat \ {0}
  /\ HeaderSize \in Nat

------------------------------------------------------------------------------
(* Arithmetic *)

LEMMA Product ==
  ASSUME NEW d \in Nat, NEW a \in Int, NEW b \in Int, a < b
  PROVE  d * a + d <= d * b
<1>1. PICK e \in Nat : b = a + 1 + e
  <2>1. b - a - 1 \in Nat /\ b = a + 1 + (b - a - 1)
    OBVIOUS
  <2> QED
    BY <2>1
<1>2. d * b = d * a + d + d * e
  BY <1>1
<1>3. d * e \in Nat /\ d * a \in Int
  OBVIOUS
<1> QED
  BY <1>2, <1>3

LEMMA Division ==
  ASSUME NEW n \in Nat, NEW d \in Nat \ {0}
  PROVE  /\ n \div d \in Nat
         /\ n % d \in 0..(d - 1)
         /\ n = d * (n \div d) + (n % d)
<1>1. n \in Int /\ d \in Int /\ d > 0
  OBVIOUS
<1>2. n \div d \in Int /\ n % d \in 0..(d - 1)
  BY <1>1
<1>3. n = d * (n \div d) + (n % d)
  BY <1>1, Z3
<1>4. n \div d >= 0
  BY <1>1, Z3
<1> QED
  BY <1>2, <1>3, <1>4

LEMMA Quotient ==
  ASSUME NEW n \in Nat, NEW d \in Nat \ {0}
  PROVE  \E q \in Nat, r \in 0..(d - 1) : q = n \div d /\ r = n % d /\ n = d * q + r
<1> DEFINE q == n \div d
           r == n % d
<1>1. q \in Nat /\ r \in 0..(d - 1) /\ n = d * q + r
  BY Division
<1>2. q = n \div d /\ r = n % d
  OBVIOUS
<1> HIDE DEF q, r
<1> QED
  BY <1>1, <1>2

(* Start and end of a page. *)
Start(p) == p * PageSize
End(p) == (p + 1) * PageSize

LEMMA PageBounds ==
  ASSUME ConstantsOK, NEW p \in Nat
  PROVE  Start(p) \in Nat /\ End(p) = Start(p) + PageSize /\ End(p) = Start(p + 1)
BY DEF ConstantsOK, Start, End

(* The chunks with a byte on a page are those from the one on its first byte *)
(* to the one on its last.                                                 *)
LEMMA Between ==
  ASSUME ConstantsOK, chunkSize \in Nat \ {0}, NEW p \in Nat,
         NEW first \in Nat, NEW end \in Nat,
         chunkSize * first <= Start(p), Start(p) < chunkSize * first + chunkSize,
         chunkSize * end < End(p), End(p) <= chunkSize * end + chunkSize,
         End(p) <= chunkSize * Chunks
  PROVE  /\ ChunksOn(p) = first..end
         /\ Cardinality(ChunksOn(p)) = end - first + 1
<1> DEFINE c == chunkSize
           s == Start(p)
           e == End(p)
<1>1. c \in Nat /\ s \in Nat /\ e \in Nat /\ s < e /\ Chunks \in Nat
  BY PageBounds DEF ConstantsOK
<1>2. c * first <= s /\ s < c * first + c /\ c * end < e /\ e <= c * end + c /\ e <= c * Chunks
  OBVIOUS
<1>3. c * first \in Nat /\ c * end \in Nat /\ c * Chunks \in Nat
  BY <1>1
<1>4. ASSUME NEW k \in Nat PROVE c * k < e <=> k <= end
  <2>1. c * k \in Nat
    BY <1>1
  <2>2. CASE k = end
    BY <1>2, <2>2
  <2>3. CASE k < end
    <3>1. c * k + c <= c * end
      BY <1>1, <2>3, Product
    <3> QED
      BY <1>1, <1>2, <1>3, <2>1, <2>3, <3>1
  <2>4. CASE k > end
    <3>1. c * end + c <= c * k
      BY <1>1, <2>4, Product
    <3> QED
      BY <1>1, <1>2, <1>3, <2>1, <2>4, <3>1
  <2> QED
    BY <2>2, <2>3, <2>4
<1>5. ASSUME NEW k \in Nat PROVE c * k + c > s <=> k >= first
  <2>1. c * k \in Nat
    BY <1>1
  <2>2. CASE k = first
    BY <1>2, <2>2
  <2>3. CASE k > first
    <3>1. c * first + c <= c * k
      BY <1>1, <2>3, Product
    <3> QED
      BY <1>1, <1>2, <1>3, <2>1, <2>3, <3>1
  <2>4. CASE k < first
    <3>1. c * k + c <= c * first
      BY <1>1, <2>4, Product
    <3> QED
      BY <1>1, <1>2, <1>3, <2>1, <2>4, <3>1
  <2> QED
    BY <2>2, <2>3, <2>4
<1>6. first <= end
  <2> SUFFICES ASSUME end < first PROVE FALSE
    OBVIOUS
  <2>1. c * end + c <= c * first
    BY <1>1, Product
  <2> QED
    BY <1>1, <1>2, <1>3, <2>1
<1>7. end < Chunks
  <2> SUFFICES ASSUME Chunks <= end PROVE FALSE
    BY <1>1
  <2>1. CASE Chunks = end
    BY <1>1, <1>2, <1>3, <2>1
  <2>2. CASE Chunks < end
    <3>1. c * Chunks + c <= c * end
      BY <1>1, <2>2, Product
    <3> QED
      BY <1>1, <1>2, <1>3, <3>1
  <2> QED
    BY <1>1, <2>1, <2>2
<1>8. ChunksOn(p) = first..end
  <2>1. \A k \in Nat : k * c = c * k /\ (k + 1) * c = c * k + c
    BY <1>1
  <2>2. ASSUME NEW k \in 0..(Chunks - 1)
        PROVE  k * chunkSize < (p + 1) * PageSize /\ (k + 1) * chunkSize > p * PageSize
                 <=> first <= k /\ k <= end
    BY <1>1, <1>4, <1>5, <2>1 DEF Start, End
  <2> QED
    BY <1>1, <1>7, <2>2 DEF ChunksOn
<1>9. Cardinality(first..end) = end - first + 1
  BY <1>6, FS_Interval
<1> QED
  BY <1>8, <1>9

------------------------------------------------------------------------------
(* The number of chunks on a page, branch by branch                         *)

(* current_boundary is the end of the last chunk that starts before the page *)
Boundary(p) ==
  \E k \in Nat : /\ current = chunkSize * k
                 /\ Start(p) <= current /\ current < Start(p) + chunkSize

OnPage(p, n) == Cardinality(ChunksOn(p)) = n

(* A chunk is a whole number of pages. *)
LEMMA ManyPages ==
  ASSUME ConstantsOK, chunkSize \in Nat \ {0}, NEW p \in Nat, End(p) <= chunkSize * Chunks,
         chunkSize > PageSize, chunkSize % PageSize = 0
  PROVE  OnPage(p, 1)
<1> DEFINE c == chunkSize
<1>1. PICK w \in Nat : c = PageSize * w
  <2>1. PICK q \in Nat, r \in 0..(PageSize - 1) :
          q = chunkSize \div PageSize /\ r = chunkSize % PageSize /\ chunkSize = PageSize * q + r
    BY Quotient DEF ConstantsOK
  <2>2. r = 0 /\ PageSize * q \in Nat
    BY <2>1 DEF ConstantsOK
  <2>3. c = PageSize * q
    BY <2>1, <2>2
  <2> QED
    BY <2>3
<1>2. w \in Nat \ {0}
  BY <1>1 DEF ConstantsOK
<1>3. PICK a \in Nat, j \in 0..(w - 1) : a = p \div w /\ j = p % w /\ p = w * a + j
  BY <1>2, Quotient
<1>4. PageSize * p = c * a + PageSize * j
  <2>1. PageSize * (w * a + j) = (PageSize * w) * a + PageSize * j
    BY <1>2 DEF ConstantsOK
  <2> QED
    BY <1>1, <1>3, <2>1
<1>5. PageSize * j + PageSize <= c
  BY <1>1, <1>2, Product DEF ConstantsOK
<1>6. /\ c * a \in Nat /\ PageSize * j \in Nat /\ PageSize \in Nat /\ c \in Nat /\ PageSize > 0
      /\ Start(p) = PageSize * p
  BY DEF ConstantsOK, Start
<1>7. c * a <= Start(p) /\ Start(p) < c * a + c /\ c * a < End(p) /\ End(p) <= c * a + c
  BY <1>4, <1>5, <1>6, PageBounds
<1>8. Cardinality(ChunksOn(p)) = a - a + 1
  BY <1>7, Between
<1> QED
  BY <1>8 DEF OnPage

(* A page has as many chunks as fit, and one more if they do not fill it and *)
(* what is left divides the chunk size.                                    *)
LEMMA ManyChunks ==
  ASSUME ConstantsOK, chunkSize \in Nat \ {0}, NEW p \in Nat, End(p) <= chunkSize * Chunks,
         chunkSize <= PageSize, Rest = 0 \/ chunkSize % Rest = 0
  PROVE  OnPage(p, PageSize \div chunkSize + (IF Rest = 0 THEN 0 ELSE 1))
<1> DEFINE c == chunkSize
<1>1. PICK q \in Nat, r \in 0..(c - 1) :
        q = PageSize \div chunkSize /\ r = Rest /\ PageSize = c * q + r
  BY Quotient DEF ConstantsOK, Rest
<1>2. Start(p) = c * (p * q) + r * p
  <2>1. p * (c * q + r) = c * (p * q) + r * p
    OBVIOUS
  <2> QED
    BY <1>1, <2>1 DEF Start
<1>3. c \in Nat /\ p * q \in Nat /\ Start(p) \in Nat /\ End(p) = Start(p) + PageSize /\ PageSize \in Nat
  BY PageBounds DEF ConstantsOK
<1>4. CASE r = 0
  <2>1. q \in Nat \ {0}
    BY <1>1, <1>4 DEF ConstantsOK
  <2>2. Start(p) = c * (p * q)
    BY <1>2, <1>3, <1>4
  <2>3. c * (p * q + q - 1) = c * (p * q) + c * q - c
    BY <1>3
  <2>4. p * q + q - 1 \in Nat /\ c * q \in Nat /\ c * (p * q) \in Nat
    BY <1>3, <2>1
  <2>5. /\ c * (p * q + q - 1) < End(p)
        /\ End(p) <= c * (p * q + q - 1) + c
    BY <1>1, <1>3, <1>4, <2>2, <2>3, <2>4
  <2> DEFINE f == p * q
             l == p * q + q - 1
  <2>6. f \in Nat /\ l \in Nat /\ l - f + 1 = q
    BY <1>3, <2>4
  <2>7. c * f <= Start(p) /\ Start(p) < c * f + c /\ c * l < End(p) /\ End(p) <= c * l + c
    BY <1>3, <2>2, <2>4, <2>5
  <2> HIDE DEF f, l
  <2>8. Cardinality(ChunksOn(p)) = l - f + 1
    BY <2>6, <2>7, Between
  <2> QED
    BY <1>1, <1>4, <2>6, <2>8 DEF OnPage
<1>5. CASE r # 0
  <2>1. PICK w \in Nat : c = r * w
    <3>1. PICK w \in Nat, m \in 0..(r - 1) : w = c \div r /\ m = c % r /\ c = r * w + m
      BY <1>1, <1>5, Quotient
    <3>2. m = 0 /\ r * w \in Nat
      BY <1>1, <1>5, <3>1
    <3>3. c = r * w
      BY <3>1, <3>2
    <3> QED
      BY <3>3
  <2>2. w \in Nat \ {0}
    BY <1>1, <2>1
  <2>3. PICK a \in Nat, j \in 0..(w - 1) : a = p \div w /\ j = p % w /\ p = w * a + j
    BY <2>2, Quotient
  <2>4. r * p = c * a + r * j
    <3>1. r * (w * a + j) = (r * w) * a + r * j
      BY <1>1, <2>2
    <3> QED
      BY <2>1, <2>3, <3>1
  <2>5. r * j + r <= c
    BY <1>1, <2>1, <2>2, Product
  <2>6. c * (p * q + a) = c * (p * q) + c * a /\ c * (p * q + a + q) = c * (p * q) + c * a + c * q
    BY <1>3
  <2>7. c * (p * q) \in Nat /\ c * a \in Nat /\ c * q \in Nat /\ r * j \in Nat /\ r \in Nat \ {0}
    BY <1>1, <1>3, <1>5
  <2>8. /\ c * (p * q + a) <= Start(p) /\ Start(p) < c * (p * q + a) + c
        /\ c * (p * q + a + q) < End(p) /\ End(p) <= c * (p * q + a + q) + c
    BY <1>1, <1>2, <1>3, <2>4, <2>5, <2>6, <2>7
  <2> DEFINE f == p * q + a
             l == p * q + a + q
  <2>9. f \in Nat /\ l \in Nat /\ l - f + 1 = q + 1
    BY <1>3
  <2>10. c * f <= Start(p) /\ Start(p) < c * f + c /\ c * l < End(p) /\ End(p) <= c * l + c
    BY <2>8
  <2> HIDE DEF f, l
  <2>11. Cardinality(ChunksOn(p)) = l - f + 1
    BY <2>9, <2>10, Between
  <2> QED
    BY <1>1, <1>5, <2>9, <2>11 DEF OnPage
<1> QED
  BY <1>4, <1>5

(* Otherwise the boundary moves along. *)
LEMMA MovingBoundary ==
  ASSUME ConstantsOK, chunkSize \in Nat \ {0}, NEW p \in Nat, p = page,
         End(p) <= chunkSize * Chunks, ~SameCount, Boundary(p)
  PROVE  /\ OnPage(p, ChunksPerPage)
         /\ \E k \in Nat : /\ NextBoundary = chunkSize * k
                           /\ Start(p + 1) <= NextBoundary
                           /\ NextBoundary < Start(p + 1) + chunkSize
<1> DEFINE c == chunkSize
           s == Start(p)
           e == End(p)
<1>1. PICK k \in Nat : current = c * k /\ s <= current /\ current < s + c
  BY DEF Boundary
<1>2. /\ c \in Nat /\ c > 0 /\ s \in Nat /\ e \in Nat /\ e = s + PageSize /\ e = Start(p + 1)
      /\ PageSize \in Nat /\ PageSize > 0 /\ current \in Nat
  BY <1>1, PageBounds DEF ConstantsOK
<1>3. Behind <=> current < e
  BY DEF Behind, End
<1>4. current > page * PageSize <=> current > s
  BY DEF Start
(* The first chunk on the page. *)
<1>5. PICK f \in Nat : /\ f = IF current > s THEN k - 1 ELSE k
                       /\ c * f <= s /\ s < c * f + c
  <2>1. CASE current > s
    <3>1. k # 0
      BY <1>1, <1>2, <2>1
    <3>2. k - 1 \in Nat /\ c * (k - 1) = c * k - c
      BY <1>2, <3>1
    <3> QED
      BY <1>1, <1>2, <2>1, <3>2
  <2>2. CASE ~(current > s)
    BY <1>1, <1>2, <2>2
  <2> QED
    BY <2>1, <2>2
(* The last one: its number, and what the code makes of it. *)
<1>6. PICK l \in Nat : /\ ChunksPerPage = l - f + 1 /\ NextBoundary = c * (l + 1)
                       /\ c * l < e /\ e <= c * l + c
  <2>1. CASE c < PageSize
    <3>1. PICK q \in Nat, r \in 0..(c - 1) :
            q = PageSize \div chunkSize /\ r = Rest /\ PageSize = c * q + r
      BY Quotient DEF ConstantsOK, Rest
    <3>2. r # 0 /\ Whole = q
      BY <2>1, <3>1 DEF SameCount, Whole
    <3>3. AfterWhole = c * (k + q) /\ c * (k + q) = c * k + c * q /\ c * q \in Nat
      BY <1>1, <1>2, <3>1, <3>2 DEF AfterWhole
    <3>4. Behind
      BY <1>1, <1>2, <1>3, <2>1
    <3>5. OneMore <=> c * (k + q) < e
      BY <3>3, <3>4 DEF OneMore, End
    <3>6. ChunksPerPage = q + (IF current > s THEN 1 ELSE 0) + (IF OneMore THEN 1 ELSE 0)
      BY <1>4, <3>2, <3>4 DEF ChunksPerPage
    <3>7. CASE OneMore
      <4>1. NextBoundary = c * (k + q) + c
        BY <3>3, <3>4, <3>7 DEF NextBoundary
      <4>2. c * (k + q + 1) = c * (k + q) + c
        BY <1>2, <3>1
      <4>3. c * (k + q) < e /\ e <= c * (k + q) + c
        BY <1>1, <1>2, <3>1, <3>3, <3>5, <3>7
      <4>4. ChunksPerPage = (k + q) - f + 1
        BY <1>5, <3>1, <3>6, <3>7
      <4>5. k + q \in Nat /\ (k + q) + 1 = k + q + 1
        BY <3>1
      <4> DEFINE l == k + q
      <4> HIDE DEF l
      <4>6. l \in Nat /\ ChunksPerPage = l - f + 1 /\ NextBoundary = c * (l + 1) /\ c * l < e /\ e <= c * l + c
        BY <4>1, <4>2, <4>3, <4>4, <4>5 DEF l
      <4> QED
        BY <4>6
    <3>8. CASE ~OneMore
      <4>1. k + q - 1 \in Nat
        <5>1. q # 0
          BY <1>2, <2>1, <3>1
        <5> QED
          BY <3>1, <5>1
      <4>2. NextBoundary = c * (k + q)
        BY <3>3, <3>4, <3>8 DEF NextBoundary
      <4>3. c * (k + q - 1) = c * (k + q) - c /\ (k + q - 1) + 1 = k + q
        BY <1>2, <3>1
      <4>4. c * (k + q - 1) < e /\ e <= c * (k + q - 1) + c
        BY <1>1, <1>2, <3>1, <3>2, <3>3, <3>5, <3>8, <4>3
      <4>5. ChunksPerPage = (k + q - 1) - f + 1
        <5>1. CASE current > s
          BY <3>1, <3>6, <3>8, <1>5, <5>1
        <5>2. CASE ~(current > s)
          BY <3>1, <3>6, <3>8, <1>5, <5>2
        <5> QED
          BY <5>1, <5>2
      <4> DEFINE l == k + q - 1
      <4> HIDE DEF l
      <4>6. l \in Nat /\ ChunksPerPage = l - f + 1 /\ NextBoundary = c * (l + 1) /\ c * l < e /\ e <= c * l + c
        BY <4>1, <4>2, <4>3, <4>4, <4>5 DEF l
      <4> QED
        BY <4>6
    <3> QED
      BY <3>7, <3>8
  <2>2. CASE c > PageSize
    <3>1. Whole = 1 /\ AfterWhole = c * k + c /\ c * (k + 1) = c * k + c
      BY <1>1, <1>2, <2>2 DEF Whole, AfterWhole
    <3>2. ~OneMore
      BY <1>1, <1>2, <2>2, <3>1 DEF OneMore, End
    <3>3. CASE Behind
      <4>1. NextBoundary = c * (k + 1)
        BY <3>1, <3>2, <3>3, <1>2 DEF NextBoundary
      <4>2. ChunksPerPage = k - f + 1
        BY <1>4, <1>5, <3>1, <3>2, <3>3 DEF ChunksPerPage
      <4>3. c * k < e /\ e <= c * k + c
        BY <1>1, <1>2, <1>3, <2>2, <3>3
      <4> QED
        BY <4>1, <4>2, <4>3
    <3>4. CASE ~Behind
      <4>1. current > s /\ f = k - 1
        BY <1>2, <1>3, <1>5, <3>4
      <4>2. NextBoundary = c * (f + 1) /\ c * (f + 1) = c * f + c
        BY <1>1, <1>2, <3>4, <4>1 DEF NextBoundary
      <4>3. ChunksPerPage = f - f + 1
        BY <3>1, <3>2, <3>4 DEF ChunksPerPage
      <4>4. c * f < e /\ e <= c * f + c
        BY <1>1, <1>2, <1>3, <1>5, <3>4, <4>1, <4>2
      <4> QED
        BY <4>2, <4>3, <4>4
    <3> QED
      BY <3>3, <3>4
  <2>3. CASE c = PageSize
    <3>1. PageSize % PageSize = 0
      BY <1>2
    <3> QED
      BY <2>3, <3>1 DEF SameCount, Rest
  <2> QED
    BY <1>2, <2>1, <2>2, <2>3
<1>7. OnPage(p, ChunksPerPage)
  BY <1>5, <1>6, Between DEF OnPage
<1>8. c * (l + 1) = c * l + c
  BY <1>2
<1>9. Start(p + 1) <= c * (l + 1) /\ c * (l + 1) < Start(p + 1) + c
  BY <1>2, <1>6, <1>8
<1> QED
  BY <1>6, <1>7, <1>9

------------------------------------------------------------------------------
(* The invariant: at every turn the pages given back and those of the open   *)
(* range are the pages seen that only freed chunks lie on.                  *)
FreePages == {p \in 0..(page - 1) : ChunksOn(p) \subseteq freed}

Walking ==
  /\ chunkSize \in ChunkSizes /\ freed \subseteq 0..(Chunks - 1)
  /\ page \in 0..Pages
  /\ inRange \in BOOLEAN /\ (inRange => rangeStart \in 0..(page - 1))
  /\ dropped \cup RangePages = FreePages
  /\ pc = "pages" /\ ~SameCount => Boundary(page)
  /\ pc = "done" => page = Pages /\ ~inRange

IInv ==
  /\ pc \in {"idle", "pages", "done"}
  /\ pc = "idle" => dropped = {}
  /\ pc # "idle" => Walking

LEMMA PagesFit ==
  ASSUME ConstantsOK, chunkSize \in ChunkSizes
  PROVE  /\ Pages \in Nat /\ chunkSize \in Nat \ {0}
         /\ \A p \in Nat : p < Pages => End(p) <= chunkSize * Chunks
<1>1. chunkSize \in Nat \ {0} /\ PageSize \in Nat \ {0} /\ Chunks \in Nat /\ chunkSize * Chunks \in Nat
  BY DEF ConstantsOK
<1>2. PICK q \in Nat, r \in 0..(PageSize - 1) :
        /\ q = (chunkSize * Chunks) \div PageSize /\ r = (chunkSize * Chunks) % PageSize
        /\ chunkSize * Chunks = PageSize * q + r
  BY <1>1, Quotient
<1>3. Pages = q
  BY <1>2 DEF Pages
<1>4. ASSUME NEW p \in Nat, p < q PROVE End(p) <= chunkSize * Chunks
  <2>1. PageSize * p + PageSize <= PageSize * q
    BY <1>1, <1>4, Product
  <2>2. End(p) = PageSize * p + PageSize
    BY <1>1 DEF End
  <2>3. PageSize * q \in Nat /\ PageSize * p \in Nat
    BY <1>1
  <2> QED
    BY <1>1, <1>2, <2>1, <2>2, <2>3
<1> QED
  BY <1>1, <1>3, <1>4

(* The comparison of the counter with the right number. *)
LEMMA CountersTell ==
  ASSUME ConstantsOK, NEW p \in Nat, NEW n, OnPage(p, n)
  PROVE  Counter(p) = n <=> ChunksOn(p) \subseteq freed
<1>1. IsFiniteSet(ChunksOn(p))
  <2>1. IsFiniteSet(0..(Chunks - 1))
    BY FS_Interval DEF ConstantsOK
  <2>2. ChunksOn(p) \subseteq 0..(Chunks - 1)
    BY DEF ChunksOn
  <2> QED
    BY <2>1, <2>2, FS_Subset
<1>2. freed \cap ChunksOn(p) \subseteq ChunksOn(p)
  OBVIOUS
<1>3. Cardinality(ChunksOn(p)) = Counter(p) => ChunksOn(p) = freed \cap ChunksOn(p)
  BY <1>1, <1>2, FS_Subset DEF Counter
<1>4. ChunksOn(p) \subseteq freed => freed \cap ChunksOn(p) = ChunksOn(p)
  OBVIOUS
<1> QED
  BY <1>3, <1>4 DEF OnPage, Counter

LEMMA FullCountRight ==
  ASSUME ConstantsOK, chunkSize \in Nat \ {0}, NEW p \in Nat, End(p) <= chunkSize * Chunks,
         SameCount
  PROVE  OnPage(p, FullCount)
<1>1. PageSize \in Nat
  BY DEF ConstantsOK
<1>2. CASE chunkSize > PageSize
  BY <1>1, <1>2, ManyPages DEF SameCount, FullCount
<1>3. CASE chunkSize <= PageSize
  BY <1>1, <1>3, ManyChunks DEF SameCount, FullCount
<1> QED
  BY <1>1, <1>2, <1>3

LEMMA InitIInv == Init => IInv
BY DEF Init, IInv

LEMMA BeginIInv ==
  ASSUME ConstantsOK, IInv, NEW s \in ChunkSizes, NEW f \in FreedSets, Begin(s, f)
  PROVE  IInv'
<1> USE DEF Begin
<1>1. s \in Nat \ {0} /\ PageSize \in Nat \ {0} /\ HeaderSize \in Nat /\ Chunks \in Nat
  BY DEF ConstantsOK
<1>2. HeaderChunks(s) \in Nat
  <2>1. HeaderSize + s - 1 \in Nat
    BY <1>1
  <2>2. PICK q \in Nat, r \in 0..(s - 1) :
          /\ q = (HeaderSize + s - 1) \div s /\ r = (HeaderSize + s - 1) % s
          /\ HeaderSize + s - 1 = s * q + r
    BY <1>1, <2>1, Quotient
  <2> QED
    BY <2>2 DEF HeaderChunks, RoundUpDivide
<1>3. freed' \subseteq 0..(Chunks - 1) /\ chunkSize' = s
  BY <1>1, <1>2
<1>4. Pages' \in Nat
  <2>1. s * Chunks \in Nat
    BY <1>1
  <2>2. PICK q \in Nat, r \in 0..(PageSize - 1) :
          /\ q = (s * Chunks) \div PageSize /\ r = (s * Chunks) % PageSize
          /\ s * Chunks = PageSize * q + r
    BY <1>1, <2>1, Quotient
  <2> QED
    BY <1>3, <2>2 DEF Pages
<1>5. dropped' \cup RangePages' = {} /\ FreePages' = {}
  BY DEF RangePages, FreePages
<1>6. Boundary(page)'
  <2>1. current' = s * 0 /\ Start(page)' = 0
    BY <1>1 DEF Start
  <2> QED
    BY <1>1, <2>1 DEF Boundary
<1>7. page' \in 0..Pages'
  BY <1>4
<1> QED
  BY <1>3, <1>5, <1>6, <1>7 DEF IInv, Walking

LEMMA NextPageIInv ==
  ASSUME ConstantsOK, IInv, NextPage
  PROVE  IInv'
<1>1. Walking /\ pc = "pages" /\ page < Pages /\ page' = page + 1
      /\ pc' = pc /\ chunkSize' = chunkSize /\ freed' = freed
  BY DEF NextPage, IInv
<1>2. /\ Pages \in Nat /\ chunkSize \in Nat \ {0} /\ page \in Nat
      /\ End(page) <= chunkSize * Chunks
  BY <1>1, PagesFit DEF Walking
<1>3. PICK free \in BOOLEAN :
        /\ Track(free)
        /\ free <=> ChunksOn(page) \subseteq freed
        /\ ~SameCount => Boundary(page)'
  <2>1. CASE SameCount
    <3>1. OnPage(page, FullCount)
      BY <1>2, <2>1, FullCountRight
    <3>2. Track(Counter(page) = FullCount)
      BY <2>1 DEF NextPage
    <3>3. Counter(page) = FullCount <=> ChunksOn(page) \subseteq freed
      BY <1>2, <3>1, CountersTell
    <3> QED
      BY <2>1, <3>2, <3>3
  <2>2. CASE ~SameCount
    <3>1. Boundary(page)
      BY <1>1, <2>2 DEF Walking
    <3>2. /\ OnPage(page, ChunksPerPage)
          /\ \E k \in Nat : /\ NextBoundary = chunkSize * k
                            /\ Start(page + 1) <= NextBoundary
                            /\ NextBoundary < Start(page + 1) + chunkSize
      BY <1>2, <2>2, <3>1, MovingBoundary
    <3>3. Track(Counter(page) = ChunksPerPage) /\ current' = NextBoundary
      BY <2>2 DEF NextPage
    <3>4. Counter(page) = ChunksPerPage <=> ChunksOn(page) \subseteq freed
      BY <1>2, <3>2, CountersTell
    <3>5. Boundary(page)'
      BY <1>1, <3>2, <3>3 DEF Boundary, Start
    <3> QED
      BY <3>3, <3>4, <3>5
  <2> QED
    BY <2>1, <2>2
<1>4. SameCount' <=> SameCount
  BY <1>1 DEF SameCount, Rest
<1>5. Pages' = Pages /\ page' \in 0..Pages'
  BY <1>1, <1>2 DEF Pages
<1>6. \A p : ChunksOn(p)' = ChunksOn(p)
  BY <1>1 DEF ChunksOn
<1>7. FreePages' = FreePages \cup (IF free THEN {page} ELSE {})
  <2>1. 0..(page' - 1) = (0..(page - 1)) \cup {page}
    BY <1>1, <1>2
  <2> QED
    BY <1>1, <1>3, <1>6, <2>1 DEF FreePages
<1>8. /\ inRange' \in BOOLEAN /\ (inRange' => rangeStart' \in 0..(page' - 1))
      /\ dropped' \cup RangePages' = FreePages'
  <2>1. CASE free
    <3>1. /\ rangeStart' = IF inRange THEN rangeStart ELSE page
          /\ inRange' = TRUE /\ dropped' = dropped
      BY <1>3, <2>1 DEF Track
    <3>2. RangePages' = rangeStart'..page
      BY <1>1, <1>2, <3>1 DEF RangePages
    <3>3. rangeStart'..page = RangePages \cup {page}
      BY <1>1, <1>2, <3>1 DEF RangePages, Walking
    <3>4. rangeStart' \in 0..(page' - 1)
      BY <1>1, <1>2, <3>1 DEF Walking
    <3> QED
      BY <1>1, <1>7, <2>1, <3>1, <3>2, <3>3, <3>4 DEF Walking
  <2>2. CASE ~free
    <3>1. dropped' = dropped \cup RangePages /\ inRange' = FALSE
      BY <1>3, <2>2 DEF Track, CloseOpenedRange
    <3>2. RangePages' = {}
      BY <3>1 DEF RangePages
    <3> QED
      BY <1>1, <1>7, <2>2, <3>1, <3>2 DEF Walking
  <2> QED
    BY <2>1, <2>2
<1> QED
  BY <1>1, <1>3, <1>4, <1>5, <1>8 DEF IInv, Walking

LEMMA DoneIInv ==
  ASSUME ConstantsOK, IInv, Done
  PROVE  IInv'
<1>1. Walking /\ page = Pages /\ pc' = "done"
      /\ chunkSize' = chunkSize /\ freed' = freed /\ page' = page
      /\ dropped' = dropped \cup RangePages /\ inRange' = FALSE
  BY DEF Done, IInv, CloseOpenedRange
<1>2. Pages' = Pages /\ RangePages' = {} /\ FreePages' = FreePages
  BY <1>1 DEF Pages, RangePages, FreePages, ChunksOn
<1> QED
  BY <1>1, <1>2 DEF IInv, Walking

LEMMA StepIInv == ASSUME ConstantsOK PROVE IInv /\ [Next]_vars => IInv'
<1> SUFFICES ASSUME IInv, [Next]_vars PROVE IInv'
  OBVIOUS
<1>1. CASE UNCHANGED vars
  BY <1>1 DEF vars, IInv, Walking, Pages, RangePages, FreePages, ChunksOn, SameCount, Rest,
              Boundary, Start
<1> QED
  BY <1>1, BeginIInv, NextPageIInv, DoneIInv DEF Next

LEMMA Invariance == ASSUME ConstantsOK PROVE Spec => []IInv
BY InitIInv, StepIInv, PTL DEF Spec

LEMMA DropsExactlyInSpec == ASSUME ConstantsOK PROVE Spec => []DropsExactly
<1>1. IInv => DropsOnlyFree
  BY DEF IInv, Walking, FreePages, DropsOnlyFree
<1>2. IInv => DropsAllFree
  <2> SUFFICES ASSUME IInv, pc = "done", NEW p \in 0..(Pages - 1), ChunksOn(p) \subseteq freed
               PROVE  p \in dropped
    BY DEF DropsAllFree
  <2>1. dropped \cup RangePages = FreePages /\ page = Pages /\ RangePages = {}
    BY DEF IInv, Walking, RangePages
  <2> QED
    BY <2>1 DEF FreePages
<1> QED
  BY <1>1, <1>2, Invariance, PTL DEF DropsExactly

(* No page goes back that a chunk in use, one cached in the batch or the     *)
(* header has a byte on, and every other one has gone back at the end: the  *)
(* number of chunks on a page that CTReleaseRegionFragment works out is     *)
(* right in each of its branches, and no range is forgotten.               *)
THEOREM DropsExactlyAlways == ASSUME ConstantsOK PROVE MCSpec => []DropsExactly
<1>1. MCInit => Init
  BY DEF MCInit
<1>2. [MCNext]_<<part, dispatchVars, vars, listVars, persistentVars, largeVars>> => [Next]_vars
  BY DEF MCNext, Dispatching, Releasing, Listing, Stacking, Mapping
<1> QED
  BY <1>1, <1>2, DropsExactlyInSpec, PTL DEF MCSpec, Spec

------------------------------------------------------------------------------
(* The lists of regions *)

LEMMA ListsSame ==
  /\ R!Init => RP!Init
  /\ R!Next => RP!Next
  /\ RP!OrderedBothWays => R!OrderedBothWays
<1>1. R!Init => RP!Init
  BY DEF R!Init, RP!Init, R!Null, RP!Null
<1>2. ASSUME NEW r PROVE R!Predecessor(r) = RP!Predecessor(r)
  BY DEF R!Predecessor, RP!Predecessor, R!Null, RP!Null
<1>3. ASSUME NEW n PROVE R!Nth(n) = RP!Nth(n)
  BY DEF R!Nth, RP!Nth
<1>4. R!Next => RP!Next
  <2>1. ASSUME NEW r, R!NewRegion(r) PROVE RP!NewRegion(r)
    BY <1>2, <2>1 DEF R!NewRegion, RP!NewRegion, R!InsertAtHead, RP!InsertAtHead,
       R!InsertAfter, RP!InsertAfter, R!Null, RP!Null, R!loop, RP!loop
  <2>2. ASSUME NEW r, R!Free(r) PROVE RP!Free(r)
    BY <2>2 DEF R!Free, RP!Free, R!freed, RP!freed, R!order, RP!order, R!Null, RP!Null
  <2>3. R!BeginRefill => RP!BeginRefill
    BY <1>3 DEF R!BeginRefill, RP!BeginRefill, R!Null, RP!Null, R!order, RP!order,
       R!freed, RP!freed, R!Min, RP!Min
  <2>4. R!Take => RP!Take
    BY DEF R!Take, RP!Take, R!Following, RP!Following, R!OneLess, RP!OneLess,
       R!Relink, RP!Relink, R!EndLoop, RP!EndLoop, R!Null, RP!Null, R!order, RP!order
  <2>5. R!Drop => RP!Drop
    BY DEF R!Drop, RP!Drop, R!DeleteFromList, RP!DeleteFromList, R!OneLess, RP!OneLess,
       R!ShadowReleased, RP!ShadowReleased, R!FirstPage, RP!FirstPage, R!LastPage, RP!LastPage,
       R!ShadowBegin, RP!ShadowBegin, R!ShadowEnd, RP!ShadowEnd, R!Null, RP!Null
  <2>6. R!Pass => RP!Pass
    BY DEF R!Pass, RP!Pass, R!Null, RP!Null, R!order, RP!order, R!freed, RP!freed
  <2>7. R!End => RP!End
    BY DEF R!End, RP!End, R!EndLoop, RP!EndLoop, R!Null, RP!Null, R!order, RP!order,
       R!freed, RP!freed
  <2> QED
    BY <2>1, <2>2, <2>3, <2>4, <2>5, <2>6, <2>7 DEF R!Next, RP!Next
<1>5. RP!OrderedBothWays => R!OrderedBothWays
  BY DEF R!OrderedBothWays, RP!OrderedBothWays, R!InUse, RP!InUse, R!Null, RP!Null,
     R!Min, RP!Min, R!Max, RP!Max
<1> QED
  BY <1>1, <1>4, <1>5

LEMMA ListsStep ==
  /\ MCInit => RP!Init
  /\ [MCNext]_<<part, dispatchVars, vars, listVars, persistentVars, largeVars>>
       => [RP!Next]_RP!vars
<1>1. MCInit => RP!Init
  BY ListsSame DEF MCInit
<1>2. listVars' = listVars => RP!vars' = RP!vars
  BY DEF listVars, RP!vars, RP!order, RP!freed, RP!loop
<1>3. [MCNext]_<<part, dispatchVars, vars, listVars, persistentVars, largeVars>>
        => [RP!Next]_RP!vars
  BY <1>2, ListsSame DEF MCNext, Dispatching, Releasing, Listing, Stacking, Mapping
<1> QED
  BY <1>1, <1>3

(* See OrderedBothWaysAlways in RegionListsProofs: the links of the regions  *)
(* in use lead to the nearest one, both ways, whatever a refill and a       *)
(* release do.                                                             *)
THEOREM OrderedBothWaysAlways ==
  ASSUME RP!ConstantsOK PROVE MCSpec => []OrderedBothWays
<1>1. RP!Spec => []RP!OrderedBothWays
  BY RP!OrderedBothWaysAlways
<1>2. RP!OrderedBothWays => OrderedBothWays
  BY ListsSame DEF OrderedBothWays
<1> QED
  BY <1>1, <1>2, ListsStep, PTL DEF MCSpec, RP!Spec

(* See ShadowExactAlways in RegionListsProofs: a release gives back the      *)
(* shadow of the region that goes, and no page of one in use.              *)
THEOREM ShadowExactAlways ==
  ASSUME RP!ConstantsOK PROVE MCSpec => ShadowExact
<1>1. RP!Spec => RP!ShadowExact
  BY RP!ShadowExactAlways
<1>2. RP!ShadowExact => ShadowExact
  BY PTL DEF ShadowExact, R!ShadowExact, RP!ShadowExact, R!vars, RP!vars, R!order, RP!order,
     R!freed, RP!freed, R!loop, RP!loop, R!InUse, RP!InUse, R!PagesOf, RP!PagesOf,
     R!ShadowBegin, RP!ShadowBegin, R!ShadowEnd, RP!ShadowEnd
<1> QED
  BY <1>1, <1>2, ListsStep, PTL DEF MCSpec, RP!Spec

LEMMA MappingSame ==
  /\ RP!RegionList = R!RegionList
  /\ RP!FreedList = R!FreedList
  /\ RP!Cursor = R!Cursor
<1>1. RP!RegionList = R!RegionList
  BY DEF RP!RegionList, R!RegionList
<1>2. ASSUME NEW first, NEW link PROVE RP!Linked(first, link) = R!Linked(first, link)
  BY DEF RP!Linked, R!Linked, RP!Null, R!Null, RP!Cardinality, R!Cardinality
<1>3. ASSUME NEW s, NEW r PROVE RP!Place(s, r) = R!Place(s, r)
  BY DEF RP!Place, R!Place
<1>4. RP!FreedList = R!FreedList
  BY <1>2, <1>3 DEF RP!FreedList, R!FreedList
<1>5. RP!Cursor = R!Cursor
  BY <1>3, <1>4 DEF RP!Cursor, R!Cursor, RP!Null, R!Null
<1> QED
  BY <1>1, <1>4, <1>5

(* The same after a step. *)
LEMMA MappingNext ==
  (/\ RP!RegionList = R!RegionList
   /\ RP!FreedList = R!FreedList
   /\ RP!Cursor = R!Cursor)'
BY MappingSame, PTL

LEMMA ClusterListsSame ==
  /\ RP!Lists!Init => R!Lists!Init
  /\ [RP!Lists!Next]_RP!Lists!vars => [R!Lists!Next]_R!Lists!vars
<1>1. RP!Lists!Init => R!Lists!Init
  BY MappingSame DEF RP!Lists!Init, R!Lists!Init
<1>2. RP!Lists!Next => R!Lists!Next
  <2>1. ASSUME NEW r \in Regions, RP!Lists!NewRegion(r) PROVE R!Lists!NewRegion(r)
    BY <2>1, MappingSame, MappingNext DEF RP!Lists!NewRegion, R!Lists!NewRegion
  <2>2. ASSUME NEW r \in Regions, RP!Lists!Free(r) PROVE R!Lists!Free(r)
    BY <2>2, MappingSame, MappingNext
       DEF RP!Lists!Free, R!Lists!Free, RP!Lists!Range, R!Lists!Range
  <2>3. RP!Lists!BeginRefill => R!Lists!BeginRefill
    BY MappingSame, MappingNext DEF RP!Lists!BeginRefill, R!Lists!BeginRefill
  <2>4. RP!Lists!Take => R!Lists!Take
    BY MappingSame, MappingNext
       DEF RP!Lists!Take, R!Lists!Take, RP!Lists!RemoveAt, R!Lists!RemoveAt
  <2>5. RP!Lists!Drop => R!Lists!Drop
    BY MappingSame, MappingNext
       DEF RP!Lists!Drop, R!Lists!Drop, RP!Lists!RemoveAt, R!Lists!RemoveAt
  <2>6. RP!Lists!Pass => R!Lists!Pass
    BY MappingSame, MappingNext DEF RP!Lists!Pass, R!Lists!Pass
  <2>7. RP!Lists!End => R!Lists!End
    BY MappingSame, MappingNext DEF RP!Lists!End, R!Lists!End
  <2> QED
    BY <2>1, <2>2, <2>3, <2>4, <2>5, <2>6, <2>7 DEF RP!Lists!Next, R!Lists!Next
<1>3. RP!Lists!vars' = RP!Lists!vars => R!Lists!vars' = R!Lists!vars
  BY MappingSame, MappingNext DEF RP!Lists!vars, R!Lists!vars
<1> QED
  BY <1>1, <1>2, <1>3

(* See ImplementsListsAlways in RegionListsProofs: every step of the          *)
(* pointers is one of the lists of ClusterLists, which SuperPool has.       *)
THEOREM ImplementsListsAlways ==
  ASSUME RP!ConstantsOK, IsFiniteSet(Regions) PROVE MCSpec => ImplementsLists
<1>1. RP!Spec => RP!ImplementsLists
  <2>1. RP!IsFiniteSet(Regions)
    BY DEF IsFiniteSet, RP!IsFiniteSet
  <2> QED
    BY <2>1, RP!ImplementsListsAlways
<1>2. RP!ImplementsLists => ImplementsLists
  BY ClusterListsSame, PTL
     DEF ImplementsLists, R!ImplementsLists, RP!ImplementsLists, RP!Lists!Spec, R!Lists!Spec
<1> QED
  BY <1>1, <1>2, ListsStep, PTL DEF MCSpec, RP!Spec

------------------------------------------------------------------------------
(* The persistent allocator *)

LEMMA StackSame ==
  /\ P!Init => PP!Init
  /\ P!Next => PP!Next
  /\ PP!StackExact => P!StackExact
<1>1. P!Init => PP!Init
  BY DEF P!Init, PP!Init, P!NoLoc, PP!NoLoc, P!NoBlock, PP!NoBlock, P!Thread, PP!Thread
<1>2. P!Next => PP!Next
  BY DEF P!Next, PP!Next, P!Thread, PP!Thread,
     P!LockFallback, P!UnlockFallback, P!AppendPool, P!Check, P!Place, P!Advance, P!Take,
     P!CheckTop, P!Pop, P!Reset, P!BeginRelease, P!Symbolize, P!Go, P!Call, P!Using, P!Clash,
     P!Fits, P!Top, P!Advanced, P!After, P!Popped, P!NoLoc, P!NoBlock, P!stack, P!locks, P!history,
     PP!LockFallback, PP!UnlockFallback, PP!AppendPool, PP!Check, PP!Place, PP!Advance, PP!Take,
     PP!CheckTop, PP!Pop, PP!Reset, PP!BeginRelease, PP!Symbolize, PP!Go, PP!Call, PP!Using, PP!Clash,
     PP!Fits, PP!Top, PP!Advanced, PP!After, PP!Popped, PP!NoLoc, PP!NoBlock, PP!stack, PP!locks, PP!history
<1>3. PP!StackExact => P!StackExact
  BY DEF PP!StackExact, P!StackExact, PP!Apart, P!Apart, PP!FreeInOrder, P!FreeInOrder,
     PP!ExitsOnlyWhenFull, P!ExitsOnlyWhenFull, PP!Within, P!Within, PP!Disjoint, P!Disjoint,
     PP!Thread, P!Thread
<1> QED
  BY <1>1, <1>2, <1>3

(* See StackExactAlways in PersistentAllocatorProofs: the persistent         *)
(* allocator is a stack.                                                   *)
THEOREM StackExactAlways ==
  ASSUME PP!ConstantsOK PROVE MCSpec => []StackExact
<1>1. MCInit => PP!Init
  BY StackSame DEF MCInit
<1>2. [MCNext]_<<part, dispatchVars, vars, listVars, persistentVars, largeVars>>
        => [PP!Next]_PP!vars
  BY StackSame DEF MCNext, Dispatching, Releasing, Listing, Stacking, Mapping, persistentVars,
     PP!vars, PP!stack, PP!locks, PP!history
<1>3. PP!Spec => []PP!StackExact
  BY PP!StackExactAlways
<1>4. PP!StackExact => StackExact
  BY StackSame DEF StackExact
<1> QED
  BY <1>1, <1>2, <1>3, <1>4, PTL DEF MCSpec, PP!Spec

------------------------------------------------------------------------------
(* Large chunks *)

LEMMA LargeSame ==
  /\ G!Init => GP!Init
  /\ G!Next => GP!Next
  /\ GP!TagsKept /\ GP!OwnFreesPass => G!TagsKept /\ G!OwnFreesPass
<1>1. G!Init => GP!Init
  BY DEF G!Init, GP!Init, G!Addresses, GP!Addresses
<1>2. G!Next => GP!Next
  BY DEF G!Next, GP!Next,
     G!Map, G!TrimFront, G!TrimBack, G!Tag, G!Check, G!Lock, G!RemapShadow, G!Unmap,
     G!StackBegin, G!StackTag, G!StackEnd, G!At, G!Aligned, G!MapSize, G!BlackCheck, G!Remapped,
     G!Addresses, G!Range, G!RoundDownTo, G!RoundUpTo,
     GP!Map, GP!TrimFront, GP!TrimBack, GP!Tag, GP!Check, GP!Lock, GP!RemapShadow, GP!Unmap,
     GP!StackBegin, GP!StackTag, GP!StackEnd, GP!At, GP!Aligned, GP!MapSize, GP!BlackCheck,
     GP!Remapped, GP!Addresses, GP!Range, GP!RoundDownTo, GP!RoundUpTo
<1>3. GP!TagsKept /\ GP!OwnFreesPass => G!TagsKept /\ G!OwnFreesPass
  BY DEF GP!TagsKept, G!TagsKept, GP!OwnFreesPass, G!OwnFreesPass, G!Range, GP!Range
<1> QED
  BY <1>1, <1>2, <1>3

(* See TagsKeptAlways in LargeChunkProofs: a large chunk keeps its memory    *)
(* and its tags until it is freed, and the checks let it be freed.          *)
THEOREM LargeTagsKeptAlways ==
  ASSUME GP!ConstantsOK PROVE MCSpec => []LargeTagsKept
<1>1. MCInit => GP!Init
  BY LargeSame DEF MCInit
<1>2. [MCNext]_<<part, dispatchVars, vars, listVars, persistentVars, largeVars>>
        => [GP!Next]_GP!vars
  BY LargeSame DEF MCNext, Dispatching, Releasing, Listing, Stacking, Mapping, largeVars, GP!vars
<1>3. GP!Spec => [](GP!TagsKept /\ GP!OwnFreesPass)
  BY GP!TagsKeptAlways
<1>4. GP!TagsKept /\ GP!OwnFreesPass => LargeTagsKept
  BY LargeSame DEF LargeTagsKept
<1> QED
  BY <1>1, <1>2, <1>3, <1>4, PTL DEF MCSpec, GP!Spec

------------------------------------------------------------------------------
(* Size classes and places                                                 *)
(*                                                                         *)
(* What a request gets rests on arithmetic with powers of two: between the  *)
(* classes of a doubling the distance is one, which divides every size of   *)
(* the doubling, so that rounding up to a class keeps every alignment.      *)

(* Exponents are those of sizes that 32 bits hold. *)
Power(k) == 2^k

LEMMA Powers == \A k \in 0..30 : Power(k) \in Nat \ {0} /\ Power(k + 1) = 2 * Power(k)
<1>1. /\ Power(0) = 1 /\ Power(1) = 2 /\ Power(2) = 4 /\ Power(3) = 8
      /\ Power(4) = 16 /\ Power(5) = 32 /\ Power(6) = 64 /\ Power(7) = 128
      /\ Power(8) = 256 /\ Power(9) = 512 /\ Power(10) = 1024 /\ Power(11) = 2048
      /\ Power(12) = 4096 /\ Power(13) = 8192 /\ Power(14) = 16384
      /\ Power(15) = 32768 /\ Power(16) = 65536 /\ Power(17) = 131072
      /\ Power(18) = 262144 /\ Power(19) = 524288 /\ Power(20) = 1048576
      /\ Power(21) = 2097152 /\ Power(22) = 4194304 /\ Power(23) = 8388608
      /\ Power(24) = 16777216 /\ Power(25) = 33554432 /\ Power(26) = 67108864
      /\ Power(27) = 134217728 /\ Power(28) = 268435456 /\ Power(29) = 536870912
      /\ Power(30) = 1073741824 /\ Power(31) = 2147483648
  BY DEF Power
<1> SUFFICES ASSUME NEW k \in 0..30 PROVE Power(k) \in Nat \ {0} /\ Power(k + 1) = 2 * Power(k)
  OBVIOUS
<1>2. \/ k = 0 \/ k = 1 \/ k = 2 \/ k = 3 \/ k = 4 \/ k = 5 \/ k = 6 \/ k = 7 \/ k = 8 \/ k = 9
      \/ k = 10 \/ k = 11 \/ k = 12 \/ k = 13 \/ k = 14 \/ k = 15 \/ k = 16 \/ k = 17 \/ k = 18
      \/ k = 19 \/ k = 20 \/ k = 21 \/ k = 22 \/ k = 23 \/ k = 24 \/ k = 25 \/ k = 26 \/ k = 27
      \/ k = 28 \/ k = 29 \/ k = 30
  OBVIOUS
<1> QED
  BY <1>1, <1>2

(* A power of two is a multiple of each smaller one. *)
LEMMA PowersDivide ==
  ASSUME NEW i \in 0..30
  PROVE  \A d \in Nat : i + d <= 30 =>
           Power(i + d) = Power(i) * Power(d) /\ Power(d) \in Nat \ {0} /\ Power(i) <= Power(i + d)
<1> DEFINE bad == {d \in Nat : i + d <= 30 /\ Power(i + d) # Power(i) * Power(d)}
<1>1. bad = {}
  <2> SUFFICES ASSUME bad # {} PROVE FALSE
    OBVIOUS
  <2>1. bad \in SUBSET Nat
    OBVIOUS
  <2>2. PICK d \in bad : \A e \in bad : d <= e
    <3> HIDE DEF bad
    <3> QED
      BY <2>1, RP!Least
  <2>3. d # 0
    <3>1. Power(0) = 1
      BY DEF Power
    <3>2. Power(i) \in Nat
      BY Powers
    <3> QED
      BY <2>2, <3>1, <3>2
  <2>4. PICK e \in Nat : d = e + 1
    <3>1. d - 1 \in Nat /\ d = (d - 1) + 1
      BY <2>3
    <3> QED
      BY <3>1
  <2>5. Power(i + e) = Power(i) * Power(e)
    BY <2>2, <2>4
  <2>6. i + e \in 0..30 /\ e \in 0..30
    BY <2>2, <2>4
  <2>7. /\ Power(i) \in Nat /\ Power(e) \in Nat /\ Power(i + e) \in Nat
        /\ Power((i + e) + 1) = 2 * Power(i + e) /\ Power(e + 1) = 2 * Power(e)
    BY <2>6, Powers
  <2>8. (i + e) + 1 = i + d
    BY <2>4
  <2>9. Power(i + d) = Power(i) * Power(d)
    <3>1. \A x, y \in Nat : 2 * (x * y) = x * (2 * y)
      OBVIOUS
    <3> QED
      BY <2>4, <2>5, <2>7, <2>8, <3>1
  <2> QED
    BY <2>2, <2>9
<1> SUFFICES ASSUME NEW d \in Nat, i + d <= 30
             PROVE  /\ Power(i + d) = Power(i) * Power(d) /\ Power(d) \in Nat \ {0}
                    /\ Power(i) <= Power(i + d)
  OBVIOUS
<1>2. Power(i + d) = Power(i) * Power(d)
  BY <1>1
<1>3. PICK x \in Nat \ {0}, y \in Nat \ {0} : x = Power(i) /\ y = Power(d)
  <2>1. d \in 0..30
    OBVIOUS
  <2> QED
    BY <2>1, Powers
<1>4. x <= x * y
  <2>1. PICK z \in Nat : y = z + 1
    <3>1. y - 1 \in Nat /\ y = (y - 1) + 1
      OBVIOUS
    <3> QED
      BY <3>1
  <2>2. x * y = x * z + x /\ x * z \in Nat
    BY <2>1
  <2> QED
    BY <2>2
<1> QED
  BY <1>2, <1>3, <1>4

(* The same, of two exponents. *)
LEMMA PowerOrder ==
  ASSUME NEW i \in 0..30, NEW j \in 0..30, i <= j
  PROVE  \E q \in Nat \ {0} : Power(j) = Power(i) * q /\ Power(i) <= Power(j) /\ q = Power(j - i)
<1>1. PICK d \in Nat : j = i + d /\ d = j - i
  <2>1. j - i \in Nat /\ j = i + (j - i)
    OBVIOUS
  <2> QED
    BY <2>1
<1>2. Power(j) = Power(i) * Power(d) /\ Power(d) \in Nat \ {0} /\ Power(i) <= Power(j)
  <2>1. i + d <= 30
    BY <1>1
  <2> QED
    BY <1>1, <2>1, PowersDivide
<1> QED
  BY <1>1, <1>2

------------------------------------------------------------------------------
(* The sizes of the classes *)

ClassConstants == S <= kMidSizeLog /\ kMaxSizeLog <= 30

(* The numbers of SizeClassMap: m is the distance of the classes up to        *)
(* kMidSize, T their number in each doubling, K the last one of the former.  *)
Numbers(m, T, K) ==
  /\ m \in Nat \ {0} /\ T \in Nat \ {0} /\ K \in Nat \ {0}
  /\ m = kMinSize /\ T = Power(S) /\ K = kMidClass
  /\ kMidSize = m * K /\ kMidSize = Power(kMidSizeLog) /\ kMaxSize = Power(kMaxSizeLog)
  /\ m = Power(kMinSizeLog)
  /\ kMidSize <= kMaxSize /\ kMaxSize \in Nat
  /\ kBatchClassID = K + (kMaxSizeLog - kMidSizeLog) * T + 1

LEMMA TheNumbers == ASSUME ClassConstants PROVE \E m, T, K : Numbers(m, T, K)
<1>1. /\ kMinSizeLog \in 0..30 /\ kMidSizeLog \in 0..30 /\ kMaxSizeLog \in 0..30 /\ S \in 0..30
      /\ kMinSizeLog <= kMidSizeLog /\ kMidSizeLog <= kMaxSizeLog
  BY SizeClassMapAssumption DEF ClassConstants, S
<1>2. PICK m \in Nat \ {0} : m = Power(kMinSizeLog)
  BY <1>1, Powers
<1>3. PICK T \in Nat \ {0} : T = Power(S)
  BY <1>1, Powers
<1>4. PICK K \in Nat \ {0} : Power(kMidSizeLog) = m * K
  BY <1>1, <1>2, PowerOrder
<1>5. PICK max \in Nat : max = Power(kMaxSizeLog) /\ m * K <= max
  <2>1. Power(kMidSizeLog) <= Power(kMaxSizeLog) /\ Power(kMaxSizeLog) \in Nat
    BY <1>1, PowerOrder, Powers
  <2> QED
    BY <1>4, <2>1
<1>6. kMinSize = m /\ kMidSize = m * K /\ kMaxSize = max
  BY <1>2, <1>4, <1>5 DEF kMinSize, kMidSize, kMaxSize, Power
<1>7. kMidClass = K
  <2>1. (m * K) \div m = K
    <3>1. PICK n \in Nat : n = m * K
      OBVIOUS
    <3>2. PICK q \in Nat, r \in 0..(m - 1) : q = n \div m /\ n = m * q + r
      BY Quotient
    <3>3. CASE q < K
      BY <3>1, <3>2, <3>3, Product
    <3>4. CASE K < q
      BY <3>1, <3>2, <3>4, Product
    <3> QED
      BY <3>1, <3>2, <3>3, <3>4
  <2> QED
    BY <1>6, <2>1 DEF kMidClass
<1>8. kBatchClassID = K + (kMaxSizeLog - kMidSizeLog) * T + 1
  <2>1. kNumClasses = K + (kMaxSizeLog - kMidSizeLog) * T + 2
    BY <1>3, <1>7 DEF kNumClasses, Power
  <2>2. (kMaxSizeLog - kMidSizeLog) * T \in Int
    BY <1>1
  <2> QED
    BY <2>1, <2>2 DEF kBatchClassID
<1>9. Numbers(m, T, K)
  BY <1>2, <1>3, <1>4, <1>5, <1>6, <1>7, <1>8 DEF Numbers
<1> QED
  BY <1>9

(* The quotient and the remainder are known by what they are.               *)
LEMMA QuotientIs ==
  ASSUME NEW d \in Nat \ {0}, NEW q \in Nat, NEW r \in 0..(d - 1), NEW n, n = d * q + r
  PROVE  n \in Nat /\ n \div d = q /\ n % d = r
<1>1. n \in Nat
  OBVIOUS
<1>2. PICK x \in Nat, y \in 0..(d - 1) : x = n \div d /\ y = n % d /\ n = d * x + y
  BY <1>1, Quotient
<1>3. ~(x < q) /\ ~(q < x)
  BY <1>2, Product
<1>4. x = q
  BY <1>3
<1> QED
  BY <1>1, <1>2, <1>4

(* A class in the doubling from 2^l, the j-th of its T, the distance being u. *)
InDoubling(c, l, u, j, m, T, K) ==
  /\ l \in kMidSizeLog..kMaxSizeLog /\ u \in Nat \ {0} /\ j \in 0..(T - 1)
  /\ c = K + (l - kMidSizeLog) * T + j
  /\ u = Power(l - S) /\ Power(l) = T * u
  /\ Size(c) = u * (T + j)

LEMMA SmallClass ==
  ASSUME ClassConstants, NEW m, NEW T, NEW K, Numbers(m, T, K), NEW c \in 1..K
  PROVE  c < kBatchClassID /\ Size(c) = m * c /\ m <= m * c /\ m * c <= kMidSize
<1>1. (kMaxSizeLog - kMidSizeLog) * T \in Nat
  <2>1. kMaxSizeLog - kMidSizeLog \in Nat /\ T \in Nat
    BY SizeClassMapAssumption DEF Numbers
  <2> QED
    BY <2>1
<1>2. c < kBatchClassID /\ c <= kMidClass
  BY <1>1 DEF Numbers
<1>3. Size(c) = kMinSize * c
  BY <1>2 DEF Size
<1>4. m * 1 <= m * c /\ m * c <= m * K
  <2>1. m \in Nat /\ K \in Nat /\ c \in Nat /\ 1 <= c /\ c <= K
    BY DEF Numbers
  <2>2. \A x, y \in Nat : x <= y => m * x <= m * y
    <3> SUFFICES ASSUME NEW x \in Nat, NEW y \in Nat, x < y PROVE m * x <= m * y
      BY <2>1
    <3>1. m * x + m <= m * y /\ m * x \in Nat /\ m * y \in Nat
      BY <2>1, Product
    <3> QED
      BY <2>1, <3>1
  <2> QED
    BY <2>1, <2>2
<1>5. m \in Nat /\ m * 1 = m /\ kMinSize = m /\ kMidSize = m * K
  BY DEF Numbers
<1> QED
  BY <1>2, <1>3, <1>4, <1>5

(* The class of a doubling. *)
LEMMA DoublingSize ==
  ASSUME ClassConstants, NEW m, NEW T, NEW K, Numbers(m, T, K),
         NEW l \in kMidSizeLog..kMaxSizeLog, NEW j \in 0..(T - 1),
         NEW c, c = K + (l - kMidSizeLog) * T + j, l = kMidSizeLog => j # 0, c # kBatchClassID
  PROVE  \E u : InDoubling(c, l, u, j, m, T, K)
<1>1. /\ kMidSizeLog \in 0..30 /\ kMaxSizeLog \in 0..30 /\ S \in 0..30 /\ S <= kMidSizeLog
      /\ l \in 0..30 /\ l - S \in 0..30 /\ l - kMidSizeLog \in Nat
      /\ S <= l /\ kMidSizeLog <= l
  BY SizeClassMapAssumption DEF ClassConstants, S
<1>2. T \in Nat \ {0} /\ K \in Nat \ {0} /\ T = Power(S) /\ K = kMidClass
  BY DEF Numbers
<1>3. PICK u \in Nat \ {0} : u = Power(l - S) /\ Power(l) = T * u
  BY <1>1, <1>2, PowerOrder
<1>4. PICK over \in Nat : /\ over = c - kMidClass /\ over = T * (l - kMidSizeLog) + j
                          /\ over \div T = l - kMidSizeLog /\ over % T = j
  <2>1. PICK d \in Nat : d = l - kMidSizeLog
    BY <1>1
  <2>2. PICK n : n = T * d + j
    OBVIOUS
  <2>3. n \in Nat /\ n \div T = d /\ n % T = j
    <3>1. T \in Nat \ {0} /\ d \in Nat /\ j \in 0..(T - 1)
      BY <1>2
    <3> QED
      BY <2>2, <3>1, QuotientIs, Zenon
  <2>4. c - kMidClass = n
    BY <1>2, <2>1, <2>2
  <2> QED
    BY <2>1, <2>2, <2>3, <2>4
<1>5. c > kMidClass
  <2>1. over # 0
    <3>1. CASE l = kMidSizeLog
      BY <1>1, <1>2, <1>4, <3>1
    <3>2. CASE l # kMidSizeLog
      <4>1. T * 0 + T <= T * (l - kMidSizeLog)
        BY <1>1, <1>2, <3>2, Product
      <4> QED
        BY <1>1, <1>2, <1>4, <4>1
    <3> QED
      BY <3>1, <3>2
  <2> QED
    BY <1>2, <1>4, <2>1
<1>6. kMidSize * Power(l - kMidSizeLog) = T * u
  <2>1. kMidSize = Power(kMidSizeLog)
    BY DEF Numbers
  <2>2. Power(l) = Power(kMidSizeLog) * Power(l - kMidSizeLog)
    BY <1>1, PowerOrder
  <2> QED
    BY <1>3, <2>1, <2>2
<1>7. (T * u) \div T = u
  <2>1. PICK n : n = T * u + 0
    OBVIOUS
  <2>2. T * u + 0 = T * u /\ 0 \in 0..(T - 1)
    BY <1>2
  <2>3. n \div T = u
    BY <1>2, <2>1, <2>2, QuotientIs
  <2> QED
    BY <2>1, <2>2, <2>3
<1>8. Size(c) = T * u + u * j
  <2> DEFINE t == kMidSize * Power((c - kMidClass) \div Power(S))
  <2>1. ~(c <= kMidClass)
    BY <1>2, <1>4, <1>5
  <2>2. Size(c) = t + (t \div Power(S)) * ((c - kMidClass) % Power(S))
    BY <2>1 DEF Size, Power
  <2>3. t = T * u
    BY <1>2, <1>4, <1>6
  <2> HIDE DEF t
  <2> QED
    BY <1>2, <1>4, <1>7, <2>2, <2>3
<1>9. Size(c) = u * (T + j)
  <2>1. T * u + u * j = u * (T + j)
    BY <1>2
  <2> QED
    BY <1>8, <2>1
<1>10. InDoubling(c, l, u, j, m, T, K)
  BY <1>3, <1>9 DEF InDoubling
<1> QED
  BY <1>10

(* Every class beyond kMidSize is in a doubling. *)
LEMMA LargeClass ==
  ASSUME ClassConstants, NEW m, NEW T, NEW K, Numbers(m, T, K), NEW c \in Nat,
         K < c, c < kBatchClassID
  PROVE  \E l, u, j : InDoubling(c, l, u, j, m, T, K) /\ (l = kMaxSizeLog => j = 0)
<1>1. T \in Nat \ {0} /\ K \in Nat \ {0} /\ kBatchClassID = K + (kMaxSizeLog - kMidSizeLog) * T + 1
  BY DEF Numbers
<1>2. PICK span \in Nat : span = kMaxSizeLog - kMidSizeLog
  <2>1. kMaxSizeLog - kMidSizeLog \in Nat
    BY SizeClassMapAssumption
  <2> QED
    BY <2>1
<1>3. PICK over \in Nat \ {0} : c = K + over
  <2>1. c - K \in Nat \ {0} /\ c = K + (c - K)
    BY <1>1
  <2> QED
    BY <2>1
<1>4. PICK q \in Nat, j \in 0..(T - 1) : over = T * q + j
  <2>1. over \in Nat /\ T \in Nat \ {0}
    BY <1>1
  <2> QED
    BY <2>1, Quotient
<1>5. over <= T * span
  BY <1>1, <1>2, <1>3
<1>6. q <= span /\ (q = span => j = 0)
  <2>1. CASE span < q
    <3>1. T * span + T <= T * q
      BY <1>1, <2>1, Product
    <3>2. T * span \in Nat /\ T * q \in Nat
      BY <1>1
    <3> QED
      BY <1>1, <1>4, <1>5, <3>1, <3>2
  <2>2. CASE q <= span
    BY <1>1, <1>4, <1>5, <2>2
  <2> QED
    BY <2>1, <2>2
<1>7. PICK l \in kMidSizeLog..kMaxSizeLog : l = kMidSizeLog + q
  <2>1. kMidSizeLog + q \in kMidSizeLog..kMaxSizeLog
    BY <1>2, <1>6, SizeClassMapAssumption
  <2> QED
    BY <2>1
<1>8. l - kMidSizeLog = q
  BY <1>7, SizeClassMapAssumption
<1>9. c = K + (l - kMidSizeLog) * T + j
  <2>1. T * q = q * T
    BY <1>1
  <2> QED
    BY <1>1, <1>3, <1>4, <1>8, <2>1
<1>10. l = kMidSizeLog => j # 0
  BY <1>1, <1>4, <1>7, SizeClassMapAssumption
<1>11. c # kBatchClassID
  OBVIOUS
<1>12. PICK u : InDoubling(c, l, u, j, m, T, K)
  BY <1>9, <1>10, <1>11, DoublingSize
<1>13. l = kMaxSizeLog => j = 0
  BY <1>2, <1>6, <1>8
<1> QED
  BY <1>12, <1>13

(* The sizes are between those of the first class and of the last one.      *)
LEMMA SizeBounds ==
  ASSUME ClassConstants, NEW m, NEW T, NEW K, Numbers(m, T, K), NEW c \in 1..(kBatchClassID - 1)
  PROVE  /\ Size(c) \in Nat \ {0} /\ m <= Size(c) /\ Size(c) <= kMaxSize
         /\ K < c => kMidSize <= Size(c)
<1>1. /\ T \in Nat \ {0} /\ K \in Nat \ {0} /\ m \in Nat \ {0} /\ kMidSize = m * K
      /\ kMidSize = Power(kMidSizeLog) /\ kMaxSize = Power(kMaxSizeLog)
      /\ kMidSize <= kMaxSize /\ kMaxSize \in Nat
  BY DEF Numbers
<1>2. c \in Nat /\ c < kBatchClassID
  <2>1. (kMaxSizeLog - kMidSizeLog) * T \in Int /\ kBatchClassID = K + (kMaxSizeLog - kMidSizeLog) * T + 1
    BY SizeClassMapAssumption DEF Numbers
  <2>2. kBatchClassID \in Int
    BY <1>1, <2>1
  <2> QED
    BY <2>2
<1>3. m <= kMidSize /\ kMidSize \in Nat
  <2>1. K \in 1..K
    BY <1>1
  <2> QED
    BY <1>1, <2>1, SmallClass
<1>4. CASE c <= K
  <2>1. c \in 1..K
    BY <1>1, <1>2, <1>4
  <2>2. Size(c) = m * c /\ m <= m * c /\ m * c <= kMidSize /\ m * c \in Nat
    BY <1>1, <2>1, SmallClass
  <2> QED
    BY <1>1, <1>3, <1>4, <2>2
<1>5. CASE K < c
  <2>1. PICK l, u, j : InDoubling(c, l, u, j, m, T, K) /\ (l = kMaxSizeLog => j = 0)
    BY <1>2, <1>5, LargeClass
  <2>2. /\ l \in 0..30 /\ kMidSizeLog \in 0..30 /\ kMaxSizeLog \in 0..30
        /\ kMidSizeLog <= l /\ l <= kMaxSizeLog /\ u \in Nat \ {0} /\ j \in 0..(T - 1)
        /\ Power(l) = T * u /\ Size(c) = u * (T + j)
    BY <2>1, SizeClassMapAssumption DEF InDoubling, ClassConstants
  <2>3. u * (T + j) = T * u + u * j /\ u * j \in Nat /\ T * u \in Nat /\ j \in Nat
    BY <1>1, <2>2
  <2>4. kMidSize <= Size(c) /\ Size(c) \in Nat
    <3>1. Power(kMidSizeLog) <= Power(l)
      BY <2>2, PowerOrder
    <3> QED
      BY <1>1, <1>3, <2>2, <2>3, <3>1
  <2>5. Size(c) <= kMaxSize
    <3>1. CASE l = kMaxSizeLog
      <4>1. j = 0 /\ Power(l) = kMaxSize
        BY <1>1, <2>1, <3>1
      <4> QED
        BY <1>1, <2>2, <2>3, <4>1
    <3>2. CASE l # kMaxSizeLog
      <4>1. l + 1 \in 0..30 /\ l + 1 <= kMaxSizeLog
        BY <2>2, <3>2
      <4>2. Power(l + 1) = 2 * Power(l) /\ Power(l + 1) <= kMaxSize
        BY <1>1, <2>2, <4>1, Powers, PowerOrder
      <4>3. u * j <= T * u
        <5>1. u * j + u <= u * T /\ u * T = T * u
          BY <1>1, <2>2, <2>3, Product
        <5> QED
          BY <2>2, <2>3, <5>1
      <4> QED
        BY <1>1, <2>2, <2>3, <4>2, <4>3
    <3> QED
      BY <3>1, <3>2
  <2> QED
    BY <1>1, <1>3, <2>4, <2>5
<1> QED
  BY <1>1, <1>2, <1>4, <1>5

LEMMA LogIs ==
  ASSUME ClassConstants, NEW n \in Nat \ {0}, n <= kMaxSize
  PROVE  Log(n) \in 0..30 /\ Power(Log(n)) <= n /\ n < 2 * Power(Log(n))
<1> DEFINE above == {k \in Nat : k <= 30 /\ n < 2 * Power(k)}
<1>1. kMaxSizeLog \in 0..30 /\ kMaxSize = Power(kMaxSizeLog)
  BY SizeClassMapAssumption DEF ClassConstants, kMaxSize, Power
<1>2. kMaxSizeLog \in above
  <2>1. PICK max \in Nat \ {0} : max = Power(kMaxSizeLog)
    BY <1>1, Powers
  <2> QED
    BY <1>1, <2>1
<1>3. PICK k \in above : \A e \in above : k <= e
  <2>1. above \in SUBSET Nat
    OBVIOUS
  <2> HIDE DEF above
  <2> QED
    BY <1>2, <2>1, RP!Least
<1>4. Power(k) <= n
  <2>1. CASE k = 0
    <3>1. Power(0) = 1
      BY DEF Power
    <3> QED
      BY <2>1, <3>1
  <2>2. CASE k # 0
    <3>1. PICK e \in Nat : k = e + 1
      <4>1. k - 1 \in Nat /\ k = (k - 1) + 1
        BY <2>2
      <4> QED
        BY <4>1
    <3>2. e \in 0..30
      BY <3>1
    <3>3. Power(k) = 2 * Power(e) /\ Power(e) \in Nat
      BY <3>1, <3>2, Powers
    <3>4. ~(n < 2 * Power(e))
      BY <1>3, <3>1, <3>2
    <3> QED
      BY <3>3, <3>4
  <2> QED
    BY <2>1, <2>2
<1>5. \E l \in 0..30 : 2^l <= n /\ n < 2 * 2^l
  <2>1. k \in 0..30 /\ Power(k) <= n /\ n < 2 * Power(k)
    BY <1>3, <1>4
  <2> HIDE DEF above
  <2> QED
    BY <2>1 DEF Power
<1> QED
  BY <1>5 DEF Log, Power

------------------------------------------------------------------------------
(* The class of a size *)

(* Rounded up, a size r is the H-th multiple of the distance u of its classes, *)
(* and that is the size of its class, c; no class before has the room.       *)
RoundsTo(r, c, u, H) ==
  /\ c \in 1..(kBatchClassID - 1) /\ u \in Nat \ {0} /\ H \in Nat
  /\ \E e \in 0..30 : u = Power(e)
  /\ Size(c) = u * H /\ r <= u * H /\ u * H < r + u
  /\ \A d \in 1..(kBatchClassID - 1) : Size(d) >= r => c <= d

LEMMA SmallSize ==
  ASSUME ClassConstants, NEW m, NEW T, NEW K, Numbers(m, T, K),
         NEW r \in Nat \ {0}, r <= kMidSize
  PROVE  \E c, u, H : c = ClassID(r) /\ RoundsTo(r, c, u, H)
<1>1. /\ T \in Nat \ {0} /\ K \in Nat \ {0} /\ m \in Nat \ {0} /\ m = kMinSize
      /\ kMidSize = m * K /\ kMidSize <= kMaxSize /\ kMaxSize \in Nat /\ m = Power(kMinSizeLog)
  BY DEF Numbers
<1>2. PICK q \in Nat, y \in 0..(m - 1) : q = (r + m - 1) \div m /\ r + m - 1 = m * q + y
  <2>1. r + m - 1 \in Nat /\ m \in Nat \ {0}
    BY <1>1
  <2> QED
    BY <2>1, Quotient
<1>3. r <= m * q /\ m * q < r + m /\ m * q \in Nat
  BY <1>1, <1>2
<1>4. q \in 1..K
  <2>1. q # 0
    <3>1. m * 0 = 0
      BY <1>1
    <3> QED
      BY <1>1, <1>3, <3>1
  <2>2. CASE K < q
    <3>1. m * K + m <= m * q /\ m * K \in Nat
      BY <1>1, <2>2, Product
    <3> QED
      BY <1>1, <1>3, <3>1
  <2> QED
    BY <1>1, <2>1, <2>2
<1>5. ClassID(r) = q
  <2>1. ~(r > kMaxSize)
    BY <1>1
  <2> QED
    BY <1>1, <1>2, <2>1 DEF ClassID
<1>6. q \in 1..(kBatchClassID - 1) /\ Size(q) = m * q
  <2>1. kBatchClassID \in Int
    <3>1. kBatchClassID = K + (kMaxSizeLog - kMidSizeLog) * T + 1
      BY DEF Numbers
    <3>2. (kMaxSizeLog - kMidSizeLog) * T \in Int
      BY <1>1, SizeClassMapAssumption
    <3> QED
      BY <1>1, <3>1, <3>2
  <2> QED
    BY <1>1, <1>4, <2>1, SmallClass
<1>7. ASSUME NEW d \in 1..(kBatchClassID - 1), Size(d) >= r PROVE q <= d
  <2>1. CASE d < q
    <3>1. d \in 1..K
      BY <1>1, <1>4, <2>1
    <3>2. Size(d) = m * d
      BY <3>1, SmallClass
    <3>3. m * d + m <= m * q /\ m * d \in Nat
      BY <1>1, <1>4, <2>1, <3>1, Product
    <3> QED
      BY <1>1, <1>3, <1>7, <3>2, <3>3
  <2> QED
    BY <1>4, <1>6, <2>1
<1>8. kMinSizeLog \in 0..30
  BY SizeClassMapAssumption DEF ClassConstants
<1>9. RoundsTo(r, q, m, q)
  BY <1>1, <1>3, <1>6, <1>7, <1>8 DEF RoundsTo
<1> QED
  BY <1>5, <1>9

(* In a doubling a size has T + a whole distances u and a rest b.            *)
Parts(r, l, u, a, b, T) ==
  /\ l \in kMidSizeLog..kMaxSizeLog /\ u \in Nat \ {0} /\ a \in 0..(T - 1) /\ b \in 0..(u - 1)
  /\ l = Log(r) /\ u = Power(l - S) /\ Power(l) = T * u
  /\ r = u * (T + a) + b
  /\ a = (r \div u) % T /\ b = r % u
  /\ l = kMaxSizeLog => a = 0 /\ b = 0

LEMMA InLog ==
  ASSUME ClassConstants, NEW m, NEW T, NEW K, Numbers(m, T, K),
         NEW r \in Nat \ {0}, kMidSize < r, r <= kMaxSize
  PROVE  \E l, u, a, b : Parts(r, l, u, a, b, T)
<1>1. /\ T \in Nat \ {0} /\ T = Power(S)
      /\ kMidSize = Power(kMidSizeLog) /\ kMaxSize = Power(kMaxSizeLog) /\ kMaxSize \in Nat
  BY DEF Numbers
<1>2. /\ kMidSizeLog \in 0..30 /\ kMaxSizeLog \in 0..30 /\ S \in 0..30 /\ S <= kMidSizeLog
      /\ kMidSizeLog <= kMaxSizeLog
  BY SizeClassMapAssumption DEF ClassConstants, S
<1>3. PICK l \in 0..30 : l = Log(r) /\ Power(l) <= r /\ r < 2 * Power(l)
  BY LogIs
<1>4. PICK p \in Nat \ {0} : p = Power(l)
  BY Powers
<1>5. kMidSizeLog <= l
  <2>1. CASE l < kMidSizeLog
    <3>1. l + 1 \in 0..30 /\ l + 1 <= kMidSizeLog
      BY <1>2, <2>1
    <3>2. Power(l + 1) = 2 * Power(l) /\ Power(l + 1) <= kMidSize
      BY <1>1, <1>2, <3>1, Powers, PowerOrder
    <3>3. kMidSize \in Nat
      BY <1>1, <1>2, Powers
    <3> QED
      BY <1>3, <1>4, <3>2, <3>3
  <2> QED
    BY <1>2, <2>1
<1>6. l <= kMaxSizeLog
  <2>1. CASE kMaxSizeLog < l
    <3>1. kMaxSizeLog + 1 \in 0..30 /\ kMaxSizeLog + 1 <= l
      BY <1>2, <2>1
    <3>2. Power(kMaxSizeLog + 1) = 2 * kMaxSize /\ Power(kMaxSizeLog + 1) <= Power(l)
      BY <1>1, <1>2, <3>1, Powers, PowerOrder
    <3> QED
      BY <1>1, <1>3, <1>4, <3>2
  <2> QED
    BY <1>2, <2>1
<1>7. l \in kMidSizeLog..kMaxSizeLog
  BY <1>2, <1>5, <1>6
<1>8. PICK u \in Nat \ {0} : u = Power(l - S) /\ Power(l) = T * u
  <2>1. S <= l
    BY <1>2, <1>5
  <2> QED
    BY <1>1, <1>2, <2>1, PowerOrder
<1>9. PICK h \in Nat, b \in 0..(u - 1) : h = r \div u /\ b = r % u /\ r = u * h + b
  <2>1. r \in Nat /\ u \in Nat \ {0}
    OBVIOUS
  <2> QED
    BY <2>1, Quotient
<1>10. T <= h /\ h < 2 * T
  <2>1. u * T = T * u /\ u * (2 * T) = 2 * (T * u) /\ u * h \in Nat /\ u * T \in Nat
    BY <1>1
  <2>2. u * T <= r /\ r < u * (2 * T)
    BY <1>3, <1>8, <2>1
  <2>3. CASE h < T
    <3>1. u * h + u <= u * T
      BY <1>1, <2>3, Product
    <3> QED
      BY <1>9, <2>1, <2>2, <3>1
  <2>4. CASE 2 * T <= h
    <3>1. u * (2 * T) <= u * h
      <4>1. CASE 2 * T = h
        BY <4>1
      <4>2. CASE 2 * T < h
        <5>1. u * (2 * T) + u <= u * h
          BY <1>1, <4>2, Product
        <5>2. u * (2 * T) \in Nat
          BY <1>1
        <5> QED
          BY <2>1, <5>1, <5>2
      <4> QED
        BY <1>1, <2>4, <4>1, <4>2
    <3>2. u * (2 * T) \in Nat
      BY <1>1
    <3> QED
      BY <1>9, <2>1, <2>2, <3>1, <3>2
  <2> QED
    BY <1>1, <2>3, <2>4
<1>11. PICK a \in 0..(T - 1) : h = T + a
  <2>1. h - T \in 0..(T - 1) /\ h = T + (h - T)
    BY <1>1, <1>10
  <2> QED
    BY <2>1
<1>12. a = h % T
  <2>1. h = T * 1 + a /\ 1 \in Nat
    BY <1>1, <1>11
  <2>2. T \in Nat \ {0} /\ a \in 0..(T - 1)
    BY <1>1
  <2>3. \A q \in Nat : h = T * q + a => h % T = a
    BY <2>2, QuotientIs, Zenon
  <2> QED
    BY <2>1, <2>3
<1>13. l = kMaxSizeLog => a = 0 /\ b = 0
  <2> SUFFICES ASSUME l = kMaxSizeLog PROVE a = 0 /\ b = 0
    OBVIOUS
  <2>1. r <= T * u
    BY <1>1, <1>8
  <2>2. r = T * u + u * a + b /\ u * a \in Nat /\ T * u \in Nat
    BY <1>1, <1>9, <1>11
  <2>3. u * a = 0 /\ b = 0
    BY <2>1, <2>2
  <2>4. a # 0 => u <= u * a
    <3> SUFFICES ASSUME a # 0 PROVE u <= u * a
      OBVIOUS
    <3>1. u * 0 + u <= u * a
      BY <1>1, Product
    <3> QED
      BY <3>1
  <2> QED
    BY <1>1, <2>3, <2>4
<1> QED
  BY <1>3, <1>7, <1>8, <1>9, <1>11, <1>12, <1>13 DEF Parts

(* Of a class that has the room, the doubling is the size's or a later one.  *)
LEMMA LaterDoubling ==
  ASSUME ClassConstants, NEW m, NEW T, NEW K, Numbers(m, T, K),
         NEW r \in Nat \ {0}, kMidSize < r, r <= kMaxSize,
         NEW l, NEW u, NEW a, NEW b, Parts(r, l, u, a, b, T),
         NEW d \in 1..(kBatchClassID - 1), Size(d) >= r
  PROVE  d >= K + (l - kMidSizeLog) * T + a + (IF b > 0 THEN 1 ELSE 0)
<1> DEFINE e == IF b > 0 THEN 1 ELSE 0
<1>1. /\ T \in Nat \ {0} /\ T = Power(S) /\ K \in Nat \ {0}
      /\ kMidSize = m * K /\ m \in Nat \ {0}
  BY DEF Numbers
<1>2. /\ kMidSizeLog \in 0..30 /\ kMaxSizeLog \in 0..30 /\ S \in 0..30 /\ S <= kMidSizeLog
  BY SizeClassMapAssumption DEF ClassConstants, S
<1>3. /\ l \in 0..30 /\ kMidSizeLog <= l /\ u \in Nat \ {0} /\ a \in 0..(T - 1) /\ b \in 0..(u - 1)
      /\ u = Power(l - S) /\ Power(l) = T * u /\ r = u * (T + a) + b
  BY <1>2 DEF Parts
<1>4. d \in Nat /\ d < kBatchClassID /\ d >= 1
  <2>1. kBatchClassID \in Int
    <3>1. kBatchClassID = K + (kMaxSizeLog - kMidSizeLog) * T + 1
      BY DEF Numbers
    <3>2. (kMaxSizeLog - kMidSizeLog) * T \in Int
      BY <1>1, <1>2
    <3> QED
      BY <1>1, <3>1, <3>2
  <2> QED
    BY <2>1
<1>5. K < d
  <2>1. CASE d <= K
    <3>1. d \in 1..K
      BY <1>1, <1>4, <2>1
    <3>2. Size(d) <= kMidSize /\ Size(d) \in Nat /\ kMidSize \in Nat
      <4>1. Size(d) = m * d /\ m * d <= kMidSize
        BY <3>1, SmallClass
      <4> QED
        BY <1>1, <1>4, <4>1
    <3> QED
      BY <3>2
  <2> QED
    BY <1>1, <1>4, <2>1
<1>6. PICK k, v, j : InDoubling(d, k, v, j, m, T, K)
  BY <1>4, <1>5, LargeClass
<1>7. /\ k \in 0..30 /\ kMidSizeLog <= k /\ v \in Nat \ {0} /\ j \in 0..(T - 1)
      /\ d = K + (k - kMidSizeLog) * T + j /\ v = Power(k - S) /\ Power(k) = T * v
      /\ Size(d) = v * (T + j)
  BY <1>2, <1>6 DEF InDoubling
<1>8. PICK x \in Nat, y \in Nat : x = l - kMidSizeLog /\ y = k - kMidSizeLog
  <2>1. l - kMidSizeLog \in Nat /\ k - kMidSizeLog \in Nat
    BY <1>2, <1>3, <1>7
  <2> QED
    BY <2>1
<1>9. e \in 0..1 /\ (b > 0 <=> e = 1) /\ a + e <= T
  BY <1>1, <1>3
<1>10. d = K + T * y + j
  <2>1. y * T = T * y
    BY <1>1
  <2> QED
    BY <1>7, <1>8, <2>1
<1> HIDE DEF e
<1>11. T * y + j >= T * x + a + e
  <2>1. CASE k < l
    <3>1. k + 1 \in 0..30 /\ k + 1 <= l
      BY <1>3, <1>7, <2>1
    <3>2. Power(k + 1) = 2 * Power(k) /\ Power(k + 1) <= Power(l)
      BY <1>3, <1>7, <3>1, Powers, PowerOrder
    <3>3. v * j + v <= v * T
      BY <1>1, <1>7, Product
    <3>4. /\ v * (T + j) = T * v + v * j /\ v * T = T * v /\ v * j \in Nat /\ T * v \in Nat
      BY <1>1, <1>7
    <3>5. Size(d) < Power(l)
      <4>1. PICK p \in Nat : p = Power(l)
        BY <1>3, Powers
      <4> QED
        BY <1>7, <3>2, <3>3, <3>4, <4>1
    <3>6. Power(l) <= r
      <4>1. u * (T + a) = T * u + u * a /\ u * a \in Nat /\ T * u \in Nat
        BY <1>1, <1>3
      <4> QED
        BY <1>3, <4>1
    <3>7. PICK p \in Nat : p = Power(l)
      BY <1>3, Powers
    <3>8. Size(d) \in Nat
      BY <1>7, <3>4
    <3> QED
      BY <3>5, <3>6, <3>7, <3>8
  <2>2. CASE k = l
    <3>1. v = u /\ y = x
      BY <1>3, <1>7, <1>8, <2>2
    <3>2. a + e <= j
      <4>1. CASE j < a + e
        <5>1. u * (T + j) + u <= u * (T + a + e)
          BY <1>1, <1>3, <1>7, <1>9, <4>1, Product
        <5>2. CASE e = 0
          <6>1. u * (T + a + e) = u * (T + a)
            BY <1>1, <1>3, <5>2
          <6>2. u * (T + a) \in Nat /\ u * (T + j) \in Nat
            BY <1>1, <1>3, <1>7
          <6> QED
            BY <1>3, <1>7, <3>1, <5>1, <6>1, <6>2
        <5>3. CASE e = 1
          <6>1. u * (T + a + e) = u * (T + a) + u
            BY <1>1, <1>3, <5>3
          <6>2. u * (T + a) \in Nat /\ u * (T + j) \in Nat /\ b > 0
            BY <1>1, <1>3, <1>7, <1>9, <5>3
          <6> QED
            BY <1>3, <1>7, <3>1, <5>1, <6>1, <6>2
        <5> QED
          BY <1>9, <5>2, <5>3
      <4> QED
        BY <1>3, <1>7, <1>9, <4>1
    <3>3. T * y \in Nat
      BY <1>1
    <3> QED
      BY <1>1, <1>3, <1>7, <1>9, <3>1, <3>2, <3>3
  <2>3. CASE l < k
    <3>1. x < y
      BY <1>2, <1>3, <1>7, <1>8, <2>3
    <3>2. T * x + T <= T * y /\ T * x \in Nat /\ T * y \in Nat
      BY <1>1, <3>1, Product
    <3> QED
      BY <1>1, <1>3, <1>7, <1>9, <3>2
  <2> QED
    BY <1>3, <1>7, <2>1, <2>2, <2>3
<1>12. d >= K + (l - kMidSizeLog) * T + a + e
  <2>1. (l - kMidSizeLog) * T = T * x
    BY <1>1, <1>8
  <2>2. T * x \in Nat /\ T * y \in Nat
    BY <1>1
  <2> QED
    BY <1>1, <1>3, <1>7, <1>9, <1>10, <1>11, <2>1, <2>2
<1> QED
  BY <1>12 DEF e

LEMMA LargeSize ==
  ASSUME ClassConstants, NEW m, NEW T, NEW K, Numbers(m, T, K),
         NEW r \in Nat \ {0}, kMidSize < r, r <= kMaxSize
  PROVE  \E c, u, H : c = ClassID(r) /\ RoundsTo(r, c, u, H)
<1>1. /\ T \in Nat \ {0} /\ T = Power(S) /\ K \in Nat \ {0} /\ K = kMidClass
      /\ kMidSize \in Nat /\ kMaxSize \in Nat
      /\ kBatchClassID = K + (kMaxSizeLog - kMidSizeLog) * T + 1
  <2>1. \A x, y \in Nat : x * y \in Nat
    OBVIOUS
  <2> QED
    BY <2>1 DEF Numbers
<1>2. /\ kMidSizeLog \in 0..30 /\ kMaxSizeLog \in 0..30 /\ S \in 0..30 /\ S <= kMidSizeLog
      /\ kMidSizeLog <= kMaxSizeLog
  BY SizeClassMapAssumption DEF ClassConstants, S
<1>3. PICK l, u, a, b : Parts(r, l, u, a, b, T)
  BY InLog
<1>4. /\ l \in 0..30 /\ kMidSizeLog <= l /\ l <= kMaxSizeLog
      /\ u \in Nat \ {0} /\ a \in 0..(T - 1) /\ b \in 0..(u - 1)
      /\ u = Power(l - S) /\ Power(l) = T * u /\ r = u * (T + a) + b
      /\ l = kMaxSizeLog => a = 0 /\ b = 0
  BY <1>2, <1>3 DEF Parts
<1>5. PICK e \in 0..1 : e = (IF b > 0 THEN 1 ELSE 0)
  OBVIOUS
<1>6. PICK c : c = K + (l - kMidSizeLog) * T + a + e
  OBVIOUS
<1>7. ClassID(r) = c
  <2>1. ~(r > kMaxSize) /\ ~(r <= kMidSize)
    BY <1>1
  <2>2. /\ l = Log(r) /\ u = 2^(l - S) /\ a = (r \div u) % T /\ b = r % u /\ T = 2^S
    BY <1>1, <1>3 DEF Parts, Power
  <2>3. ClassID(r) = kMidClass + (l - kMidSizeLog) * T + a + e
    BY <1>5, <2>1, <2>2 DEF ClassID
  <2> QED
    BY <1>1, <1>6, <2>3
<1>8. PICK x \in Nat, span \in Nat :
        /\ x = l - kMidSizeLog /\ span = kMaxSizeLog - kMidSizeLog /\ x <= span
        /\ c = K + x * T + a + e /\ kBatchClassID = K + span * T + 1
  <2>1. l - kMidSizeLog \in Nat /\ kMaxSizeLog - kMidSizeLog \in Nat
    BY <1>2, <1>4
  <2> QED
    BY <1>1, <1>2, <1>4, <1>6, <2>1
<1>9. c \in 1..(kBatchClassID - 1) /\ K < c + 1 - e
  <2>1. x * T \in Nat /\ span * T \in Nat /\ x * T = T * x /\ span * T = T * span
    BY <1>1
  <2>2. CASE x = span
    <3>1. l = kMaxSizeLog
      BY <1>2, <1>4, <1>8, <2>2
    <3>2. a = 0 /\ e = 0
      BY <1>4, <1>5, <3>1
    <3> QED
      BY <1>1, <1>8, <2>1, <2>2, <3>2
  <2>3. CASE x < span
    <3>1. T * x + T <= T * span
      BY <1>1, <2>3, Product
    <3> QED
      BY <1>1, <1>4, <1>5, <1>8, <2>1, <3>1
  <2> QED
    BY <1>8, <2>2, <2>3
<1>10. c # kBatchClassID
  <2>1. kBatchClassID \in Int
    <3>1. span * T \in Nat
      BY <1>1
    <3> QED
      BY <1>1, <1>8, <3>1
  <2> QED
    BY <1>9, <2>1
<1>11. Size(c) = u * (T + a + e)
  <2>1. CASE a + e < T
    <3>1. PICK j \in 0..(T - 1) : j = a + e
      BY <1>1, <1>4, <2>1
    <3>2. c = K + (l - kMidSizeLog) * T + j
      <4>1. (l - kMidSizeLog) * T \in Int
        BY <1>1, <1>2, <1>4
      <4> QED
        BY <1>1, <1>4, <1>6, <3>1, <4>1
    <3>3. l = kMidSizeLog => j # 0
      <4> SUFFICES ASSUME l = kMidSizeLog, a = 0, e = 0 PROVE FALSE
        BY <1>4, <3>1
      <4>1. b = 0
        BY <1>4, <1>5
      <4>2. r = T * u
        <5>1. u * (T + a) = T * u /\ T * u \in Nat
          BY <1>1, <1>4
        <5> QED
          BY <1>4, <4>1, <5>1
      <4>3. kMidSize = Power(kMidSizeLog)
        BY DEF Numbers
      <4> QED
        BY <1>1, <1>4, <4>2, <4>3
    <3>4. l \in kMidSizeLog..kMaxSizeLog
      BY <1>2, <1>4
    <3>5. PICK v : InDoubling(c, l, v, j, m, T, K)
      BY <1>10, <3>2, <3>3, <3>4, DoublingSize
    <3>6. Size(c) = u * (T + j)
      BY <1>4, <3>5 DEF InDoubling
    <3>7. T + j = T + a + e
      BY <1>1, <1>4, <3>1
    <3> QED
      BY <3>6, <3>7
  <2>2. CASE ~(a + e < T)
    <3>1. e = 1 /\ a = T - 1 /\ l # kMaxSizeLog
      BY <1>1, <1>4, <1>5, <2>2
    <3>2. PICK n \in kMidSizeLog..kMaxSizeLog : n = l + 1
      BY <1>2, <1>4, <3>1
    <3>3. c = K + (n - kMidSizeLog) * T + 0
      <4>1. n - kMidSizeLog = x + 1
        BY <1>2, <1>4, <1>8, <3>2
      <4>2. (x + 1) * T = x * T + T /\ x * T \in Nat
        BY <1>1
      <4> QED
        BY <1>1, <1>8, <3>1, <4>1, <4>2
    <3>4. 0 \in 0..(T - 1) /\ n # kMidSizeLog
      BY <1>1, <1>2, <1>4, <3>2
    <3>5. PICK v : InDoubling(c, n, v, 0, m, T, K)
      BY <1>10, <3>3, <3>4, DoublingSize
    <3>6. Size(c) = v * (T + 0) /\ v = Power(n - S) /\ v \in Nat
      BY <3>5 DEF InDoubling
    <3>7. v = 2 * u
      <4>1. PICK i \in 0..30 : i = l - S
        BY <1>2, <1>4
      <4>2. n - S = i + 1
        BY <1>2, <1>4, <3>2, <4>1
      <4> QED
        BY <1>4, <3>6, <4>1, <4>2, Powers
    <3>8. v * (T + 0) = u * (T + T) /\ T + a + e = T + T
      <4>1. (2 * u) * (T + 0) = u * (T + T)
        BY <1>1, <1>4
      <4> QED
        BY <1>1, <1>4, <3>1, <3>7, <4>1
    <3> QED
      BY <3>6, <3>8
  <2> QED
    BY <2>1, <2>2
<1>12. PICK H \in Nat : H = T + a + e
  <2>1. T + a + e \in Nat
    BY <1>1, <1>4
  <2> QED
    BY <2>1
<1>13. r <= u * H /\ u * H < r + u
  <2>1. CASE e = 0
    <3>1. b = 0 /\ H = T + a
      BY <1>1, <1>4, <1>5, <1>12, <2>1
    <3>2. u * H \in Nat
      BY <1>4
    <3> QED
      BY <1>4, <3>1, <3>2
  <2>2. CASE e = 1
    <3>1. b > 0 /\ H = T + a + 1
      BY <1>1, <1>4, <1>5, <1>12, <2>2
    <3>2. u * (T + a + 1) = u * (T + a) + u /\ u * (T + a) \in Nat
      BY <1>1, <1>4
    <3> QED
      BY <1>4, <3>1, <3>2
  <2> QED
    BY <2>1, <2>2
<1>14. l - S \in 0..30
  BY <1>2, <1>4
<1>15. \A d \in 1..(kBatchClassID - 1) : Size(d) >= r => c <= d
  <2> SUFFICES ASSUME NEW d \in 1..(kBatchClassID - 1), Size(d) >= r PROVE c <= d
    OBVIOUS
  <2>1. d >= K + (l - kMidSizeLog) * T + a + (IF b > 0 THEN 1 ELSE 0)
    BY <1>3, LaterDoubling
  <2>2. d >= c
    BY <1>5, <1>6, <2>1
  <2> QED
    BY <1>9, <2>2
<1>16. RoundsTo(r, c, u, H)
  BY <1>4, <1>9, <1>11, <1>12, <1>13, <1>14, <1>15 DEF RoundsTo
<1> QED
  BY <1>7, <1>16

(* The class of a size is the first one with the room for it.               *)
LEMMA ClassOfSize ==
  ASSUME ClassConstants, NEW r \in Nat \ {0}, r <= kMaxSize
  PROVE  \E c, u, H : c = ClassID(r) /\ RoundsTo(r, c, u, H)
<1>1. PICK m, T, K : Numbers(m, T, K)
  BY TheNumbers
<1>2. kMidSize \in Nat
  BY <1>1, Powers, SizeClassMapAssumption DEF Numbers, ClassConstants
<1> QED
  BY <1>1, <1>2, SmallSize, LargeSize

(* Rounding up to a class keeps what divides the size, if it is a power of   *)
(* two: it divides the distance, or the distance divides it.               *)
LEMMA ClassKeepsAlignment ==
  ASSUME NEW r \in Nat \ {0}, NEW c, NEW u, NEW H, RoundsTo(r, c, u, H),
         NEW e \in 0..30, NEW k \in Nat, r = Power(e) * k
  PROVE  \E w \in Nat : Size(c) = Power(e) * w
<1>1. /\ u \in Nat \ {0} /\ H \in Nat /\ Size(c) = u * H /\ r <= u * H /\ u * H < r + u
  BY DEF RoundsTo
<1>2. PICK i \in 0..30 : u = Power(i)
  BY DEF RoundsTo
<1>3. PICK a \in Nat \ {0} : a = Power(e)
  BY Powers
<1>4. CASE e <= i
  <2>1. PICK q \in Nat \ {0} : u = a * q
    BY <1>2, <1>3, <1>4, PowerOrder
  <2>2. u * H = a * (q * H) /\ q * H \in Nat
    BY <1>1, <1>3, <2>1
  <2> QED
    BY <1>1, <1>3, <2>2
<1>5. CASE i < e
  <2>0. PICK q \in Nat \ {0} : Power(e) = Power(i) * q
    <3>1. i \in 0..30 /\ e \in 0..30 /\ i <= e
      BY <1>5
    <3>2. \E q \in Nat \ {0} :
            Power(e) = Power(i) * q /\ Power(i) <= Power(e) /\ q = Power(e - i)
      BY <3>1, PowerOrder, Zenon
    <3> QED
      BY <3>2
  <2>1. a = u * q
    BY <1>2, <1>3, <2>0
  <2>2. PICK n \in Nat : n = q * k
    OBVIOUS
  <2>3. r = u * n
    BY <1>1, <1>3, <2>1, <2>2
  <2>4. H = n
    <3>1. u * H \in Nat /\ u * n \in Nat
      BY <1>1
    <3>2. CASE H < n
      <4>1. u * H + u <= u * n
        BY <1>1, <3>2, Product
      <4> QED
        BY <1>1, <2>3, <3>1, <4>1
    <3>3. CASE n < H
      <4>1. u * n + u <= u * H
        BY <1>1, <3>3, Product
      <4> QED
        BY <1>1, <2>3, <3>1, <4>1
    <3> QED
      BY <1>1, <3>2, <3>3
  <2>5. Size(c) = a * k
    BY <1>1, <1>3, <2>3, <2>4
  <2> QED
    BY <1>3, <2>5
<1> QED
  BY <1>2, <1>4, <1>5

------------------------------------------------------------------------------
(* Dispatch *)

DispatchConstants ==
  /\ ClassConstants
  /\ RequestSizes \subseteq Nat \ {0}
  /\ \A a \in RequestAlignments : \E e \in 4..30 : a = Power(e)
  /\ RegionHeader \in Nat /\ RegionHeader <= 255 * kMinSize
  /\ PoolSize \in Nat /\ 512 * kMaxSize <= PoolSize
  /\ \E i, j \in 0..30 : LargeHeader = Power(i) /\ LargeAlignment = Power(j) /\ i <= j

(* The size classes of the instance are those of SizeClassMap here.         *)
LEMMA DispatchSame ==
  /\ \A c : D!Size(c) = Size(c)
  /\ \A n : D!ClassID(n) = ClassID(n)
  /\ D!kMaxSize = kMaxSize /\ D!kBatchClassID = kBatchClassID
BY DEF D!Size, Size, D!ClassID, ClassID, D!Log, Log, D!kMaxSize, kMaxSize,
   D!kBatchClassID, kBatchClassID, D!kNumClasses, kNumClasses, D!kMidClass, kMidClass,
   D!kMidSize, kMidSize, D!kMinSize, kMinSize, D!S, S

(* The smallest multiple of a with room for n. *)
LEMMA RoundedUp ==
  ASSUME NEW n \in Nat \ {0}, NEW a \in Nat \ {0}
  PROVE  \E r \in Nat \ {0}, k \in Nat :
           /\ r = D!RoundUpTo(n, a) /\ r = a * k /\ n <= r
           /\ \A x \in Nat : n <= a * x => r <= a * x
<1>1. PICK k \in Nat, y \in 0..(a - 1) : k = (n + a - 1) \div a /\ n + a - 1 = a * k + y
  <2>1. n + a - 1 \in Nat /\ a \in Nat \ {0}
    OBVIOUS
  <2> QED
    BY <2>1, Quotient
<1>2. PICK r \in Nat : r = a * k
  OBVIOUS
<1>3. n <= r /\ r < n + a
  BY <1>1, <1>2
<1>4. r = D!RoundUpTo(n, a)
  <2>1. k * a = a * k
    OBVIOUS
  <2> QED
    BY <1>1, <1>2, <2>1 DEF D!RoundUpTo
<1>5. ASSUME NEW x \in Nat, n <= a * x PROVE r <= a * x
  <2>1. CASE x < k
    <3>1. a * x + a <= a * k
      BY <2>1, Product
    <3>2. a * x \in Nat
      OBVIOUS
    <3> QED
      BY <1>2, <1>3, <1>5, <3>1, <3>2
  <2>2. CASE k <= x
    <3>1. CASE k = x
      BY <1>2, <3>1
    <3>2. CASE k < x
      <4>1. a * k + a <= a * x /\ a * x \in Nat
        BY <3>2, Product
      <4> QED
        BY <1>2, <4>1
    <3> QED
      BY <2>2, <3>1, <3>2
  <2> QED
    BY <2>1, <2>2
<1>6. r \in Nat \ {0}
  BY <1>3
<1>7. /\ r = D!RoundUpTo(n, a) /\ r = a * k /\ n <= r
      /\ \A x \in Nat : n <= a * x => r <= a * x
  BY <1>2, <1>3, <1>4, <1>5
<1> QED
  BY <1>6, <1>7

(* What divides a number leaves no rest, and the other way round. *)
LEMMA NoRest ==
  ASSUME NEW n \in Nat, NEW a \in Nat \ {0}
  PROVE  n % a = 0 <=> \E k \in Nat : n = a * k
<1>1. PICK q \in Nat, y \in 0..(a - 1) : y = n % a /\ n = a * q + y
  BY Quotient
<1>2. ASSUME n % a = 0 PROVE \E k \in Nat : n = a * k
  <2>1. n = a * q
    BY <1>1, <1>2
  <2> QED
    BY <2>1
<1>3. ASSUME NEW k \in Nat, n = a * k PROVE n % a = 0
  <2>1. CASE q < k
    <3>1. a * q + a <= a * k /\ a * q \in Nat
      BY <2>1, Product
    <3> QED
      BY <1>1, <1>3, <3>1
  <2>2. CASE k < q
    <3>1. a * k + a <= a * q /\ a * k \in Nat
      BY <2>2, Product
    <3> QED
      BY <1>1, <1>3, <3>1
  <2>3. CASE k = q
    <3>1. a * q \in Nat
      OBVIOUS
    <3> QED
      BY <1>1, <1>3, <2>3, <3>1
  <2> QED
    BY <2>1, <2>2, <2>3
<1> QED
  BY <1>2, <1>3

LEMMA ClassSizes ==
  ASSUME ClassConstants, NEW c \in 1..(kBatchClassID - 1)
  PROVE  Size(c) \in Nat \ {0} /\ kMinSize <= Size(c) /\ Size(c) <= kMaxSize /\ kMaxSize \in Nat
<1>1. PICK m, T, K : Numbers(m, T, K)
  BY TheNumbers
<1>2. m = kMinSize /\ kMaxSize \in Nat
  BY <1>1 DEF Numbers
<1> QED
  BY <1>1, <1>2, SizeBounds

Fitting(n, a) == {c \in 1..(kBatchClassID - 1) : Size(c) >= n /\ Size(c) % a = 0}

(* A class that fits has room for the rounded size, and both within bounds.  *)
LEMMA FittingHasRoom ==
  ASSUME ClassConstants, NEW n \in Nat \ {0}, NEW a \in Nat \ {0}, a > 8,
         NEW r \in Nat, NEW k \in Nat, r = D!Rounded(n, a), r = a * k, n <= r,
         \A x \in Nat : n <= a * x => r <= a * x,
         NEW c \in Fitting(n, a)
  PROVE  r <= Size(c) /\ D!CanAllocate(r, a)
<1>1. c \in 1..(kBatchClassID - 1) /\ Size(c) >= n /\ Size(c) % a = 0
  BY DEF Fitting
<1>2. Size(c) \in Nat \ {0} /\ Size(c) <= kMaxSize /\ kMaxSize \in Nat
  BY <1>1, ClassSizes
<1>3. PICK x \in Nat : Size(c) = a * x
  BY <1>1, <1>2, NoRest
<1>4. r <= Size(c)
  BY <1>1, <1>3
<1>5. a <= Size(c)
  <2>1. x # 0
    <3>1. a * 0 = 0
      OBVIOUS
    <3> QED
      BY <1>2, <1>3, <3>1
  <2>2. PICK y \in Nat : x = y + 1
    <3>1. x - 1 \in Nat /\ x = (x - 1) + 1
      BY <2>1
    <3> QED
      BY <3>1
  <2>3. a * x = a * y + a /\ a * y \in Nat
    BY <2>2
  <2> QED
    BY <1>3, <2>3
<1> QED
  BY <1>2, <1>4, <1>5, DispatchSame DEF D!CanAllocate

LEMMA Best ==
  ASSUME ClassConstants, NEW n \in Nat \ {0}, NEW e \in 4..30, NEW a, a = Power(e)
  PROVE  LET r == D!Rounded(n, a) IN
         IF D!CanAllocate(r, a)
         THEN /\ ClassID(r) \in Fitting(n, a)
              /\ \A c \in Fitting(n, a) : ClassID(r) <= c
         ELSE Fitting(n, a) = {}
<1>1. a \in Nat \ {0} /\ a > 8
  <2>1. Power(4) <= Power(e) /\ Power(e) \in Nat \ {0}
    <3>1. 4 \in 0..30 /\ e \in 0..30 /\ 4 <= e
      OBVIOUS
    <3> QED
      BY <3>1, PowerOrder, Powers
  <2>2. Power(4) = 16
    BY DEF Power
  <2> QED
    BY <2>1, <2>2
<1>2. PICK r \in Nat \ {0}, k \in Nat :
        /\ r = D!Rounded(n, a) /\ r = a * k /\ n <= r
        /\ \A x \in Nat : n <= a * x => r <= a * x
  BY <1>1, RoundedUp DEF D!Rounded
<1>3. \A c \in Fitting(n, a) : r <= Size(c) /\ D!CanAllocate(r, a)
  BY <1>1, <1>2, FittingHasRoom
<1>4. ASSUME D!CanAllocate(r, a)
      PROVE  ClassID(r) \in Fitting(n, a) /\ \A c \in Fitting(n, a) : ClassID(r) <= c
  <2>1. r <= kMaxSize
    BY <1>4, DispatchSame DEF D!CanAllocate
  <2>2. PICK c, u, H : c = ClassID(r) /\ RoundsTo(r, c, u, H)
    BY <2>1, ClassOfSize
  <2>3. PICK w \in Nat : Size(c) = Power(e) * w
    BY <1>2, <2>2, ClassKeepsAlignment
  <2>4. c \in 1..(kBatchClassID - 1) /\ r <= Size(c) /\ \A d \in 1..(kBatchClassID - 1) : Size(d) >= r => c <= d
    BY <2>2 DEF RoundsTo
  <2>5. Size(c) \in Nat \ {0}
    BY <2>4, ClassSizes
  <2>6. Size(c) % a = 0
    BY <1>1, <2>3, <2>5, NoRest
  <2>7. c \in Fitting(n, a)
    BY <1>2, <2>4, <2>5, <2>6 DEF Fitting
  <2>8. \A d \in Fitting(n, a) : c <= d
    <3> SUFFICES ASSUME NEW d \in Fitting(n, a) PROVE c <= d
      OBVIOUS
    <3>1. d \in 1..(kBatchClassID - 1)
      BY DEF Fitting
    <3>2. Size(d) \in Nat /\ r <= Size(d)
      BY <1>3, <3>1, ClassSizes
    <3> QED
      BY <2>4, <3>1, <3>2
  <2> QED
    BY <2>2, <2>7, <2>8
<1>5. ~D!CanAllocate(r, a) => Fitting(n, a) = {}
  BY <1>3
<1> QED
  BY <1>2, <1>4, <1>5

------------------------------------------------------------------------------
(* Places *)

(* Where a small chunk of a class is. *)
InPool(x, i, c) ==
  /\ x \in Nat /\ i \in D!HeaderChunks(c)..255
  /\ place = [region |-> x, chunk |-> i]
  /\ address = x * D!RegionSize(c) + i * Size(c)
  /\ (x + 1) * D!RegionSize(c) <= PoolSize

PlaceInv ==
  /\ outcome \in {"none", "returned", "died", "parsed"}
  /\ outcome = "none" => class = 0
  /\ D!BestFit /\ D!AlignedUnlessLarge
  /\ class # 0 => /\ class \in 1..(kBatchClassID - 1)
                  /\ \E x, i : InPool(x, i, class)
  /\ outcome = "parsed" => parsed = place /\ class # 0

LEMMA RegionNumbers ==
  ASSUME DispatchConstants, NEW c \in 1..(kBatchClassID - 1)
  PROVE  \E s \in Nat \ {0}, h \in 0..255 :
           /\ s = Size(c) /\ D!RegionSize(c) = s * 256 /\ h = D!HeaderChunks(c)
           /\ RegionHeader <= h * s
           /\ \E all \in Nat : all = D!AllRegionsInPool(c) /\ all >= 2 /\ all * (s * 256) <= PoolSize
<1>1. PICK s \in Nat \ {0} : s = Size(c) /\ kMinSize <= s /\ s <= kMaxSize /\ kMaxSize \in Nat
  BY ClassSizes DEF DispatchConstants
<1>2. RegionHeader \in Nat /\ kMinSize \in Nat /\ RegionHeader <= 255 * s
  <2>1. kMinSize \in Nat
    <3>1. PICK m, T, K : Numbers(m, T, K)
      BY TheNumbers DEF DispatchConstants
    <3> QED
      BY <3>1 DEF Numbers
  <2> QED
    BY <1>1, <2>1 DEF DispatchConstants
<1>3. PICK h \in Nat, y \in 0..(s - 1) : h = (RegionHeader + s - 1) \div s /\ RegionHeader + s - 1 = s * h + y
  <2>1. RegionHeader + s - 1 \in Nat /\ s \in Nat \ {0}
    BY <1>2
  <2> QED
    BY <2>1, Quotient
<1>4. h = D!HeaderChunks(c)
  BY <1>1, <1>3, DispatchSame DEF D!HeaderChunks
<1>5. RegionHeader <= h * s /\ h <= 255
  <2>1. s * h = h * s /\ h * s \in Nat
    OBVIOUS
  <2>2. RegionHeader <= h * s
    BY <1>2, <1>3, <2>1
  <2>3. CASE 255 < h
    <3>1. s * 255 + s <= s * h
      BY <2>3, Product
    <3> QED
      BY <1>2, <1>3, <2>1, <3>1
  <2> QED
    BY <2>2, <2>3
<1>6. D!RegionSize(c) = s * 256
  BY <1>1, DispatchSame DEF D!RegionSize
<1>7. PICK p \in Nat \ {0} : p = s * 256 /\ 2 * p <= PoolSize /\ PoolSize \in Nat
  <2>1. PoolSize \in Nat /\ 512 * kMaxSize <= PoolSize
    BY DEF DispatchConstants
  <2> QED
    BY <1>1, <2>1
<1>8. PICK all \in Nat, z \in 0..(p - 1) : all = PoolSize \div p /\ PoolSize = p * all + z
  BY <1>7, Quotient
<1>9. all >= 2 /\ all * p <= PoolSize
  <2>1. p * all = all * p /\ all * p \in Nat
    OBVIOUS
  <2>2. CASE all < 2
    <3>1. p * all + p <= p * 2
      BY <2>2, Product
    <3> QED
      BY <1>7, <1>8, <2>1, <3>1
  <2> QED
    BY <1>8, <2>1, <2>2
<1>10. all = D!AllRegionsInPool(c)
  BY <1>6, <1>7, <1>8 DEF D!AllRegionsInPool
<1>11. h \in 0..255
  BY <1>5
<1>12. all = D!AllRegionsInPool(c) /\ all >= 2 /\ all * (s * 256) <= PoolSize
  BY <1>7, <1>9, <1>10
<1>13. s = Size(c) /\ D!RegionSize(c) = s * 256 /\ h = D!HeaderChunks(c) /\ RegionHeader <= h * s
  BY <1>1, <1>4, <1>5, <1>6
<1> QED
  BY <1>11, <1>12, <1>13

(* In a pool, an address tells the region and the chunk. *)
IsAddress(n, x, i, s, p) ==
  s \in Nat \ {0} /\ p = s * 256 /\ x \in Nat /\ i \in 0..255 /\ n = x * p + i * s

LEMMA AddressTells ==
  ASSUME NEW n, NEW x, NEW i, NEW s, NEW p, IsAddress(n, x, i, s, p)
  PROVE  /\ n \in Nat /\ n \div p = x /\ (n - x * p) \div s = i /\ (n - x * p) % s = 0
         /\ \E k \in Nat : n = s * k
<1>1. /\ p \in Nat \ {0} /\ p = s * 256 /\ n = x * p + i * s
      /\ s \in Nat \ {0} /\ x \in Nat /\ i \in 0..255
  BY DEF IsAddress
<1>2. PICK b \in Nat : b = i * s
  <2>1. i * s \in Nat
    BY <1>1
  <2> QED
    BY <2>1
<1>3. b \in 0..(p - 1)
  <2>1. s * i + s <= s * 256 /\ s * i = i * s
    BY <1>1, Product
  <2> QED
    BY <1>1, <1>2, <2>1
<1>4. n = p * x + b
  <2>1. x * p = p * x
    BY <1>1
  <2> QED
    BY <1>1, <1>2, <2>1
<1>5. n \in Nat /\ n \div p = x
  <2>1. p \in Nat \ {0} /\ x \in Nat
    BY <1>1
  <2> QED
    BY <1>3, <1>4, <2>1, QuotientIs, Zenon
<1>6. n - x * p = b
  <2>1. x * p = p * x /\ p * x \in Nat
    BY <1>1
  <2> QED
    BY <1>4, <2>1
<1>7. b \div s = i /\ b % s = 0
  <2>1. b = s * i + 0 /\ 0 \in 0..(s - 1) /\ i \in Nat
    <3>1. s * i = i * s /\ s * i \in Nat
      BY <1>1
    <3> QED
      BY <1>1, <1>2, <3>1
  <2>2. s \in Nat \ {0}
    BY <1>1
  <2> QED
    BY <2>1, <2>2, QuotientIs, Zenon
<1>8. \E k \in Nat : n = s * k
  <2>1. x * (s * 256) + i * s = s * (256 * x + i) /\ 256 * x + i \in Nat
    BY <1>1
  <2> QED
    BY <1>1, <2>1
<1> QED
  BY <1>5, <1>6, <1>7, <1>8

LEMMA InitPlaces == D!Init => PlaceInv
BY DEF D!Init, PlaceInv, D!BestFit, D!AlignedUnlessLarge

LEMMA AllocatePlaces ==
  ASSUME DispatchConstants, NEW n \in RequestSizes, NEW a \in RequestAlignments, D!Allocate(n, a)
  PROVE  PlaceInv'
<1> DEFINE r == D!Rounded(n, a)
<1>1. PICK e \in 4..30 : a = Power(e)
  BY DEF DispatchConstants
<1>2. n \in Nat \ {0} /\ a \in Nat \ {0} /\ ClassConstants
  <2>1. e \in 0..30
    OBVIOUS
  <2> QED
    BY <1>1, <2>1, Powers DEF DispatchConstants
<1>3. IF D!CanAllocate(r, a)
      THEN ClassID(r) \in Fitting(n, a) /\ \A c \in Fitting(n, a) : ClassID(r) <= c
      ELSE Fitting(n, a) = {}
  BY <1>1, <1>2, Best
<1>4. /\ size' = n /\ alignment' = a /\ outcome' = D!Checked(a, address')
      /\ D!AllocateSmall(n, a) \/ D!AllocateLarge(n, a)
  BY DEF D!Allocate
<1>5. outcome' \in {"died", "returned"} /\ (outcome' = "died" => address' % a # 0)
  BY <1>4 DEF D!Checked
<1>6. D!BestFit' <=> IF class' = 0 THEN Fitting(n, a) = {}
                     ELSE class' \in Fitting(n, a) /\ \A c \in Fitting(n, a) : class' <= c
  BY <1>4, <1>5, DispatchSame DEF D!BestFit, Fitting
<1> HIDE DEF r
<1>7. CASE D!AllocateSmall(n, a)
  <2>1. PICK c : c = ClassID(r)
    OBVIOUS
  <2>2. /\ D!CanAllocate(r, a) /\ class' = c
        /\ \E x \in D!SomeRegions(c), i \in D!SomeChunks(c) :
             /\ place' = [region |-> x, chunk |-> i]
             /\ address' = x * D!RegionSize(c) + i * Size(c)
    BY <1>7, <2>1, DispatchSame DEF D!AllocateSmall, r
  <2>3. c \in Fitting(n, a) /\ (\A d \in Fitting(n, a) : c <= d) /\ c \in 1..(kBatchClassID - 1)
    BY <1>3, <2>1, <2>2 DEF Fitting
  <2>4. PICK x \in D!SomeRegions(c), i \in D!SomeChunks(c) :
             /\ place' = [region |-> x, chunk |-> i]
             /\ address' = x * D!RegionSize(c) + i * Size(c)
    BY <2>2
  <2>5. PICK s \in Nat \ {0}, h \in 0..255 :
           /\ s = Size(c) /\ D!RegionSize(c) = s * 256 /\ h = D!HeaderChunks(c)
           /\ \E all \in Nat : all = D!AllRegionsInPool(c) /\ all >= 2 /\ all * (s * 256) <= PoolSize
    BY <2>3, RegionNumbers
  <2>6. PICK all \in Nat : all = D!AllRegionsInPool(c) /\ all >= 2 /\ all * (s * 256) <= PoolSize
    BY <2>5
  <2>7. i \in h..255 /\ i \in 0..255
    BY <2>5 DEF D!SomeChunks
  <2>8. x \in Nat /\ x < all
    BY <2>6 DEF D!SomeRegions
  <2>9. (x + 1) * (s * 256) <= PoolSize
    <3>1. PICK p \in Nat : p = s * 256
      OBVIOUS
    <3>2. (x + 1) * p <= all * p
      <4>1. p * x + p <= p * all /\ (x + 1) * p = p * x + p /\ p * all = all * p
        BY <2>8, Product
      <4> QED
        BY <4>1
    <3>3. (x + 1) * p \in Nat /\ all * p \in Nat /\ PoolSize \in Nat
      BY <2>8 DEF DispatchConstants
    <3> QED
      BY <2>6, <3>1, <3>2, <3>3
  <2>10. InPool(x, i, c)'
    BY <2>4, <2>5, <2>7, <2>8, <2>9 DEF InPool
  <2>11. outcome' # "died"
    <3>1. address' = x * (s * 256) + i * s
      BY <2>4, <2>5
    <3>2. address' \in Nat /\ \E k \in Nat : address' = s * k
      <4>1. PICK at1 : at1 = address'
        OBVIOUS
      <4>2. at1 \in Nat /\ \E k \in Nat : at1 = s * k
        <5>1. PICK p : p = s * 256
          OBVIOUS
        <5>2. IsAddress(at1, x, i, s, p)
          BY <2>7, <2>8, <3>1, <4>1, <5>1 DEF IsAddress
        <5> QED
          BY <5>2, AddressTells
      <4> QED
        BY <4>1, <4>2
    <3>3. PICK y \in Nat : s = a * y
      <4>1. s % a = 0
        BY <2>3, <2>5 DEF Fitting
      <4> QED
        BY <1>2, <4>1, NoRest
    <3>4. PICK k \in Nat : address' = s * k
      BY <3>2
    <3>5. (a * y) * k = a * (y * k) /\ y * k \in Nat
      BY <1>2
    <3>6. address' % a = 0
      <4>1. PICK at1 \in Nat : at1 = address' /\ at1 = a * (y * k)
        BY <3>2, <3>3, <3>4, <3>5
      <4>2. at1 % a = 0
        BY <1>2, <3>5, <4>1, NoRest
      <4> QED
        BY <4>1, <4>2
    <3> QED
      BY <1>5, <3>6
  <2>12. class' # 0
    BY <2>2, <2>3
  <2>13. D!BestFit' /\ D!AlignedUnlessLarge'
    BY <1>6, <2>2, <2>3, <2>11, <2>12 DEF D!AlignedUnlessLarge
  <2> QED
    BY <1>5, <2>2, <2>3, <2>10, <2>13 DEF PlaceInv
<1>8. CASE D!AllocateLarge(n, a)
  <2>1. ~D!CanAllocate(r, a) /\ class' = 0 /\ address' \in {LargeHeader, LargeAlignment + LargeHeader}
    BY <1>8 DEF D!AllocateLarge, r
  <2>2. D!BestFit'
    BY <1>3, <1>6, <2>1
  <2>3. ASSUME outcome' = "died", ~(a > LargeHeader) PROVE FALSE
    <3>1. PICK i \in 0..30, j \in 0..30 :
            LargeHeader = Power(i) /\ LargeAlignment = Power(j) /\ i <= j
      BY DEF DispatchConstants
    <3>2. PICK lh \in Nat \ {0}, la \in Nat \ {0} : lh = LargeHeader /\ la = LargeAlignment
      BY <3>1, Powers
    <3>3. e \in 0..30 /\ e <= i
      <4>1. CASE i < e
        <5>1. e \in 0..30 /\ i + 1 \in 0..30 /\ i + 1 <= e
          BY <4>1
        <5>2. Power(i + 1) = 2 * Power(i) /\ Power(i + 1) <= Power(e)
          BY <3>1, <5>1, Powers, PowerOrder
        <5> QED
          BY <1>1, <1>2, <2>3, <3>1, <3>2, <5>2
      <4> QED
        BY <3>1, <4>1
    <3>4. PICK q \in Nat \ {0} : lh = a * q
      BY <1>1, <3>1, <3>2, <3>3, PowerOrder
    <3>5. PICK p \in Nat \ {0} : la = a * p
      <4>1. e <= j
        BY <3>1, <3>3
      <4> QED
        BY <1>1, <3>1, <3>2, <3>3, <4>1, PowerOrder
    <3>6. PICK at1 \in Nat, k \in Nat : at1 = address' /\ at1 = a * k
      <4>1. CASE address' = LargeHeader
        BY <3>2, <3>4, <4>1
      <4>2. CASE address' = LargeAlignment + LargeHeader
        <5>1. a * p + a * q = a * (p + q) /\ p + q \in Nat
          BY <1>2
        <5>2. PICK k \in Nat : k = p + q
          OBVIOUS
        <5>3. PICK at1 : at1 = address' /\ at1 = la + lh
          BY <3>2, <4>2
        <5>4. at1 = a * k
          BY <3>4, <3>5, <5>1, <5>2, <5>3
        <5>5. at1 \in Nat
          BY <5>3
        <5> QED
          BY <5>2, <5>3, <5>4, <5>5
      <4> QED
        BY <2>1, <4>1, <4>2
    <3>7. at1 % a = 0
      BY <1>2, <3>6, NoRest
    <3> QED
      BY <1>5, <2>3, <3>6, <3>7
  <2>4. D!AlignedUnlessLarge'
    BY <1>4, <2>1, <2>3 DEF D!AlignedUnlessLarge
  <2> QED
    BY <1>5, <2>1, <2>2, <2>4 DEF PlaceInv
<1> QED
  BY <1>4, <1>7, <1>8

LEMMA ParsePlaces == ASSUME DispatchConstants, PlaceInv, D!Parse PROVE PlaceInv'
<1>1. /\ class # 0 /\ outcome = "returned" /\ outcome' = "parsed"
      /\ UNCHANGED <<size, alignment, class, place, address>>
  BY DEF D!Parse
<1>2. class \in 1..(kBatchClassID - 1)
  BY <1>1 DEF PlaceInv
<1>3. PICK x, i : InPool(x, i, class)
  BY <1>1 DEF PlaceInv
<1>4. PICK c : c = class
  OBVIOUS
<1>5. PICK s \in Nat \ {0}, h \in 0..255 :
        s = Size(c) /\ D!RegionSize(c) = s * 256 /\ h = D!HeaderChunks(c)
  BY <1>2, <1>4, RegionNumbers
<1>6. /\ x \in Nat /\ i \in 0..255 /\ place = [region |-> x, chunk |-> i]
      /\ address = x * (s * 256) + i * s
  BY <1>3, <1>4, <1>5 DEF InPool
<1>7. address \div (s * 256) = x /\ (address - x * (s * 256)) \div s = i
  <2>1. PICK at1 : at1 = address
    OBVIOUS
  <2>2. at1 \div (s * 256) = x /\ (at1 - x * (s * 256)) \div s = i
    <3>1. PICK p : p = s * 256
      OBVIOUS
    <3>2. IsAddress(at1, x, i, s, p)
      BY <1>6, <2>1, <3>1 DEF IsAddress
    <3>3. at1 \div p = x /\ (at1 - x * p) \div s = i
      BY <3>2, AddressTells
    <3> QED
      BY <3>1, <3>3
  <2> QED
    BY <2>1, <2>2
<1>8. D!RegionAt(address, class) = x
  BY <1>4, <1>5, <1>7 DEF D!RegionAt
<1>9. parsed' = [region |-> x, chunk |-> i]
  BY <1>4, <1>5, <1>7, <1>8, DispatchSame DEF D!Parse
<1>10. D!BestFit' /\ D!AlignedUnlessLarge'
  BY <1>1 DEF PlaceInv, D!BestFit, D!AlignedUnlessLarge
<1>11. InPool(x, i, class)'
  BY <1>1, <1>3 DEF InPool
<1> QED
  BY <1>1, <1>2, <1>6, <1>9, <1>10, <1>11 DEF PlaceInv

LEMMA StepPlaces ==
  ASSUME DispatchConstants PROVE PlaceInv /\ [D!Next]_dispatchVars => PlaceInv'
<1>1. PlaceInv /\ UNCHANGED dispatchVars => PlaceInv'
  <2> SUFFICES ASSUME PlaceInv, UNCHANGED dispatchVars PROVE PlaceInv'
    OBVIOUS
  <2>1. D!BestFit' /\ D!AlignedUnlessLarge'
    BY DEF PlaceInv, dispatchVars, D!BestFit, D!AlignedUnlessLarge
  <2>2. \A x, i : InPool(x, i, class) => InPool(x, i, class)'
    BY DEF InPool, dispatchVars
  <2> QED
    BY <2>1, <2>2 DEF PlaceInv, dispatchVars
<1> QED
  BY <1>1, AllocatePlaces, ParsePlaces DEF D!Next

LEMMA PlacesAreExact ==
  ASSUME DispatchConstants PROVE PlaceInv => PlacesExact
<1> SUFFICES ASSUME PlaceInv PROVE D!ClearOfHeader /\ D!ParsedBack
  BY DEF PlacesExact, PlaceInv
<1>1. ASSUME class # 0
      PROVE  \E x \in Nat, i \in 0..255, s \in Nat \ {0} :
               /\ s = Size(class) /\ D!RegionSize(class) = s * 256
               /\ place.region = x /\ address = x * (s * 256) + i * s
               /\ RegionHeader <= i * s /\ (x + 1) * (s * 256) <= PoolSize
  <2>1. class \in 1..(kBatchClassID - 1)
    BY <1>1 DEF PlaceInv
  <2>2. PICK x, i : InPool(x, i, class)
    BY <1>1 DEF PlaceInv
  <2>3. PICK s \in Nat \ {0}, h \in 0..255 :
          /\ s = Size(class) /\ D!RegionSize(class) = s * 256 /\ h = D!HeaderChunks(class)
          /\ RegionHeader <= h * s
    <3>1. PICK c : c = class
      OBVIOUS
    <3> QED
      BY <2>1, <3>1, RegionNumbers
  <2>4. /\ x \in Nat /\ i \in h..255 /\ place.region = x /\ address = x * (s * 256) + i * s
        /\ (x + 1) * (s * 256) <= PoolSize
    BY <2>2, <2>3 DEF InPool
  <2>5. RegionHeader <= i * s
    <3>1. h * s <= i * s
      <4>1. CASE h = i
        BY <4>1
      <4>2. CASE h # i
        <5>1. s * h + s <= s * i /\ s * h = h * s /\ s * i = i * s /\ h * s \in Nat /\ i * s \in Nat
          BY <2>4, <4>2, Product
        <5> QED
          BY <5>1
      <4> QED
        BY <4>1, <4>2
    <3>2. h * s \in Nat /\ i * s \in Nat /\ RegionHeader \in Nat
      BY <2>4 DEF DispatchConstants
    <3> QED
      BY <2>3, <3>1, <3>2
  <2>6. i \in 0..255
    BY <2>4
  <2> QED
    BY <2>3, <2>4, <2>5, <2>6
<1>2. D!ClearOfHeader
  <2> SUFFICES ASSUME class # 0
               PROVE  LET inRegion == address - place.region * D!RegionSize(class)
                      IN  /\ inRegion >= RegionHeader
                          /\ inRegion + D!Size(class) <= D!RegionSize(class)
                          /\ (place.region + 1) * D!RegionSize(class) <= PoolSize
    BY DEF D!ClearOfHeader
  <2>1. PICK x \in Nat, i \in 0..255, s \in Nat \ {0} :
               /\ s = Size(class) /\ D!RegionSize(class) = s * 256
               /\ place.region = x /\ address = x * (s * 256) + i * s
               /\ RegionHeader <= i * s /\ (x + 1) * (s * 256) <= PoolSize
    BY <1>1
  <2>2. PICK b \in Nat : b = i * s /\ b + s <= s * 256
    <3>1. s * i + s <= s * 256 /\ s * i = i * s /\ i * s \in Nat
      BY Product
    <3> QED
      BY <3>1
  <2>3. address - x * (s * 256) = b
    <3>1. x * (s * 256) \in Nat
      OBVIOUS
    <3> QED
      BY <2>1, <2>2, <3>1
  <2>4. D!Size(class) = s
    BY <2>1, DispatchSame
  <2> QED
    BY <2>1, <2>2, <2>3, <2>4
<1>3. D!ParsedBack
  <2> SUFFICES ASSUME outcome = "parsed"
               PROVE  /\ parsed = place
                      /\ (address - parsed.region * D!RegionSize(class)) % D!Size(class) = 0
    BY DEF D!ParsedBack
  <2>1. parsed = place /\ class # 0
    BY DEF PlaceInv
  <2>2. PICK x \in Nat, i \in 0..255, s \in Nat \ {0} :
               /\ s = Size(class) /\ D!RegionSize(class) = s * 256
               /\ place.region = x /\ address = x * (s * 256) + i * s
    BY <1>1, <2>1
  <2>3. PICK at1 : at1 = address
    OBVIOUS
  <2>4. (at1 - x * (s * 256)) % s = 0
    <3>1. PICK p : p = s * 256
      OBVIOUS
    <3>2. IsAddress(at1, x, i, s, p)
      BY <2>2, <2>3, <3>1 DEF IsAddress
    <3>3. (at1 - x * p) % s = 0
      BY <3>2, AddressTells
    <3> QED
      BY <3>1, <3>3
  <2> QED
    BY <2>1, <2>2, <2>3, <2>4, DispatchSame
<1> QED
  BY <1>2, <1>3

(* Whatever the size and the alignment, a request has the smallest class     *)
(* that serves it, a place clear of the header and of its neighbours, and an *)
(* address that leads back to the place: for every size class map whose      *)
(* doublings are of whole distances, and every header that leaves a chunk.   *)
THEOREM PlacesExactAlways ==
  ASSUME DispatchConstants PROVE MCSpec => []PlacesExact
<1>1. MCInit => PlaceInv
  BY InitPlaces DEF MCInit
<1>2. PlaceInv /\ [MCNext]_<<part, dispatchVars, vars, listVars, persistentVars, largeVars>>
        => PlaceInv'
  <2>1. [MCNext]_<<part, dispatchVars, vars, listVars, persistentVars, largeVars>>
          => [D!Next]_dispatchVars
    BY DEF MCNext, Dispatching, Releasing, Listing, Stacking, Mapping
  <2> QED
    BY <2>1, StepPlaces
<1> QED
  BY <1>1, <1>2, PlacesAreExact, PTL DEF MCSpec

=================================================================================
