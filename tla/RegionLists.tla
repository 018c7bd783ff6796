----------------------------- MODULE RegionLists -----------------------------
(***************************************************************************)
(* The two lists of a SuperPool as the pointers in the headers of its      *)
(* regions (my_tools.h, sanitizer_allocator_primary64.h), and the release  *)
(* of shadow memory, which looks at the neighbours in the first of them.   *)
(*                                                                         *)
(* SuperPoolsRegionList links the regions in use both ways in the order of *)
(* their addresses.  SuperPoolsFreedRegionList links those with freed      *)
(* chunks one way; a refill walks it from a random start, around its end,  *)
(* and repairs it at last, while a release unlinks regions as it goes.     *)
(*                                                                         *)
(* How many freed chunks a region has is left open: each turn of a refill  *)
(* may find that it has enough, each turn of a release that all chunks of  *)
(* the region are free.                                                    *)
(***************************************************************************)
EXTENDS Integers, SequencesExt

CONSTANTS
  Region,      \* addresses, in units of region_size
  RegionShadow,\* bytes of shadow of a region
  ShadowPage,  \* bytes of a page
  StartSpan    \* a refill starts among this many regions

(* nullptr, which is what a header in memory fresh from the system holds. *)
Null == 0

VARIABLES
  head,         \* SuperPoolsRegionList->head
  prev, next,   \* CTRegionInfo.prev, next
  freedHead,    \* SuperPoolsFreedRegionList->head
  freedNext,    \* CTRegionInfo.freed_next
  inFreeList,   \* CTRegionInfo.in_free_list
  status,       \* CTRegionInfo.status
  freeRegionNum,\* CTSuperPoolChunkInfo.free_region_num
  walk,         \* the loop in progress, if any
  cur,          \* its cur_region
  before,       \* its prev_region
  start,        \* start_region of a refill
  isCycle,      \* is_cycle of a refill
  advised       \* the shadow pages the last step gave back

order == <<head, prev, next, status>>
freed == <<freedHead, freedNext, inFreeList, freeRegionNum>>
loop == <<walk, cur, before, start, isCycle>>
vars == <<order, freed, loop, advised>>

Init ==
  /\ head = Null
  /\ prev = [r \in Region |-> Null] /\ next = [r \in Region |-> Null]
  /\ freedHead = Null
  /\ freedNext = [r \in Region |-> Null]
  /\ inFreeList = [r \in Region |-> FALSE]
  /\ status = [r \in Region |-> 0]
  /\ freeRegionNum = 0
  /\ walk = "none" /\ cur = Null /\ before = Null /\ start = Null
  /\ isCycle = FALSE
  /\ advised = {}

------------------------------------------------------------------------------
(* insertInOrder, when r goes before the head: insertAtHead. *)
InsertAtHead(r) ==
  /\ prev' = [q \in Region |-> IF q = r THEN Null ELSE IF q = head THEN r ELSE prev[q]]
  /\ next' = [next EXCEPT ![r] = head]
  /\ head' = r

(* Mutant: the list is not searched. *)
Predecessor_Head(r) == head

(* The last region before r that the loop of insertInOrder reaches. *)
Predecessor(r) ==
  LET reach[q \in Region] ==
        IF next[q] # Null /\ next[q] < r THEN reach[next[q]] ELSE q
  IN  reach[head]

(* Otherwise: behind its predecessor. *)
InsertAfter(p, r) ==
  /\ next' = [next EXCEPT ![r] = next[p], ![p] = r]
  /\ prev' = [q \in Region |-> IF q = r THEN p ELSE IF q = next[p] THEN r ELSE prev[q]]
  /\ UNCHANGED head

(* CTAllocateNewRegion *)
NewRegion(r) ==
  /\ walk = "none"
  /\ status[r] = 0
  /\ status' = [status EXCEPT ![r] = 1]
  /\ inFreeList' = [inFreeList EXCEPT ![r] = FALSE]
  /\ IF head = Null \/ r < head THEN InsertAtHead(r) ELSE InsertAfter(Predecessor(r), r)
  /\ advised' = {}
  /\ UNCHANGED <<freedHead, freedNext, freeRegionNum, loop>>

(* CTDeallocateSmallChunk for a chunk of r: insertAtFreedListHead, and      *)
(* perhaps the call of CTReleasePeriodically.                              *)
Free(r) ==
  /\ walk = "none"
  /\ status[r] = 1
  /\ IF inFreeList[r]
       THEN UNCHANGED freed
       ELSE /\ freedNext' = [freedNext EXCEPT ![r] = freedHead]
            /\ freedHead' = r
            /\ inFreeList' = [inFreeList EXCEPT ![r] = TRUE]
            /\ freeRegionNum' = freeRegionNum + 1
  /\ \/ /\ walk' = "release"
        /\ cur' = freedHead' /\ before' = Null
     \/ UNCHANGED <<walk, cur, before>>
  /\ advised' = {}
  /\ UNCHANGED <<order, start, isCycle>>

------------------------------------------------------------------------------
(* CTRefillFromRegionList *)

(* The region n links behind the head of the freed list. *)
Nth(n) ==
  LET step[i \in 0..n] == IF i = 0 THEN freedHead ELSE freedNext[step[i - 1]]
  IN  step[n]

(* Up to the loop.  With enough freed chunks the list is not empty. *)
BeginRefill ==
  /\ walk = "none"
  /\ freeRegionNum > 0
  /\ \E n \in 0..(Min({freeRegionNum, StartSpan}) - 1) :
       /\ cur' = Nth(n) /\ start' = Nth(n)
       /\ before' = IF n = 0 THEN Null ELSE Nth(n - 1)
  /\ walk' = "refill"
  /\ isCycle' = FALSE
  /\ advised' = {}
  /\ UNCHANGED <<order, freed>>

(* free_region_num when a region has left the freed list. *)
OneLess == freeRegionNum - 1

(* The region the loop goes to: around the end to the head. *)
Following(r) == IF freedNext[r] = Null THEN freedHead ELSE freedNext[r]

(* Mutant: the end of the list is not cut off after a wrap. *)
Relink_Uncut(c, cycle) ==
  /\ freedNext' = IF before = Null \/ cycle THEN freedNext
                  ELSE [freedNext EXCEPT ![before] = c]
  /\ freedHead' = IF before = Null \/ cycle THEN c ELSE freedHead

(* The list without what a refill took that stops at c before it comes      *)
(* back to its start.                                                      *)
Relink(c, cycle) ==
  /\ freedNext' = IF before = Null THEN freedNext
                  ELSE [freedNext EXCEPT ![before] = IF cycle THEN Null ELSE c]
  /\ freedHead' = IF before = Null \/ cycle THEN c ELSE freedHead

EndLoop ==
  /\ walk' = "none" /\ cur' = Null /\ before' = Null /\ start' = Null
  /\ isCycle' = FALSE

(* One turn of the loop: it takes cur's chunks and goes on, or it has       *)
(* enough, or it has come around.                                          *)
Take ==
  LET c == Following(cur)
      cycle == isCycle \/ freedNext[cur] = Null
  IN  /\ walk = "refill"
      /\ inFreeList' = [inFreeList EXCEPT ![cur] = FALSE]
      /\ freeRegionNum' = OneLess
      /\ \/ /\ c # start
            /\ cur' = c /\ isCycle' = cycle
            /\ UNCHANGED <<freedHead, freedNext, walk, before, start>>
         \/ /\ c # start
            /\ Relink(c, cycle)
            /\ EndLoop
         \/ /\ c = start
            /\ freedHead' = Null
            /\ EndLoop
            /\ UNCHANGED freedNext
      /\ advised' = {}
      /\ UNCHANGED order

------------------------------------------------------------------------------
(* CTReleasePeriodically *)

(* The first byte of r's shadow, and the first behind it. *)
ShadowBegin(r) == r * RegionShadow
ShadowEnd(r) == (r + 1) * RegionShadow

(* The pages of r's shadow, from the one it begins on to the one before its *)
(* end rounded up.                                                         *)
FirstPage(r) == ShadowBegin(r) \div ShadowPage
LastPage(r) == (ShadowEnd(r) - 1) \div ShadowPage

(* Mutant: the ends of the shadow are not rounded to pages. *)
ShadowReleased_Unrounded(r, p, n) ==
  IF /\ p = Null \/ ShadowEnd(p) <= ShadowBegin(r)
     /\ n = Null \/ ShadowBegin(n) >= ShadowEnd(r)
    THEN FirstPage(r)..LastPage(r)
    ELSE {}

(* CTReleaseShadowMemory: all pages of r's shadow, when its neighbours p    *)
(* and n in the list, if any, have none of them.                           *)
ShadowReleased(r, p, n) ==
  IF /\ p = Null \/ ShadowEnd(p) <= FirstPage(r) * ShadowPage
     /\ n = Null \/ ShadowBegin(n) >= (LastPage(r) + 1) * ShadowPage
    THEN FirstPage(r)..LastPage(r)
    ELSE {}

(* deleteFromList; r's own links are gone when its header is. *)
DeleteFromList(r) ==
  /\ head' = IF prev[r] = Null THEN next[r] ELSE head
  /\ next' = [q \in Region |-> IF q = r THEN Null
                               ELSE IF q = prev[r] THEN next[r]
                               ELSE next[q]]
  /\ prev' = [q \in Region |-> IF q = r THEN Null
                               ELSE IF q = next[r] THEN prev[r]
                               ELSE prev[q]]

(* A turn over a region whose chunks are all free: it leaves the freed      *)
(* list and, with deleteFromList, the other one; its shadow is released     *)
(* while its header still has its neighbours; and its memory, header        *)
(* included, goes back to the system.                                      *)
Drop ==
  /\ walk = "release"
  /\ cur # Null
  /\ freedHead' = IF before = Null THEN freedNext[cur] ELSE freedHead
  /\ freedNext' = [q \in Region |-> IF q = cur THEN Null
                                    ELSE IF q = before THEN freedNext[cur]
                                    ELSE freedNext[q]]
  /\ inFreeList' = [inFreeList EXCEPT ![cur] = FALSE]
  /\ freeRegionNum' = OneLess
  /\ DeleteFromList(cur)
  /\ advised' = ShadowReleased(cur, prev[cur], next[cur])
  /\ status' = [status EXCEPT ![cur] = 0]
  /\ cur' = freedNext[cur]
  /\ UNCHANGED <<walk, before, start, isCycle>>

(* A turn over a region with chunks in use. *)
Pass ==
  /\ walk = "release"
  /\ cur # Null
  /\ before' = cur
  /\ cur' = freedNext[cur]
  /\ advised' = {}
  /\ UNCHANGED <<order, freed, walk, start, isCycle>>

End ==
  /\ walk = "release"
  /\ cur = Null
  /\ EndLoop
  /\ advised' = {}
  /\ UNCHANGED <<order, freed>>

------------------------------------------------------------------------------
Next ==
  \/ \E r \in Region : NewRegion(r) \/ Free(r)
  \/ BeginRefill
  \/ Take
  \/ Drop
  \/ Pass
  \/ End

Spec == Init /\ [][Next]_vars

------------------------------------------------------------------------------
(* Properties *)

InUse == {r \in Region : status[r] = 1}

(* The links of SuperPoolsRegionList run through the regions in use, both   *)
(* ways, in the order of their addresses: each leads to the nearest one.   *)
OrderedBothWays ==
  LET Nearest(S, closest(_)) == IF S = {} THEN Null ELSE closest(S)
  IN  /\ head = Nearest(InUse, Min)
      /\ \A r \in InUse :
           /\ next[r] = Nearest({q \in InUse : q > r}, Min)
           /\ prev[r] = Nearest({q \in InUse : q < r}, Max)

(* The pages on which r has shadow. *)
PagesOf(r) == {b \div ShadowPage : b \in ShadowBegin(r)..(ShadowEnd(r) - 1)}

(* No shadow of a region in use is ever given back, its tags would read as  *)
(* zero, and that of a region that goes is, if no region in use has one of  *)
(* its pages.  CTReleaseShadowMemory looks at two regions only and may be   *)
(* wrong about all others if the list is not in order.                     *)
ShadowExact ==
  [][/\ \A r \in InUse' : advised' \cap PagesOf(r) = {}
     /\ \A r \in InUse \ InUse' :
          (\A q \in InUse' : PagesOf(q) \cap PagesOf(r) = {}) => advised' = PagesOf(r)]_vars

(* The regions in the list that head and next make. *)
RegionList == {r \in Region : r = head \/ \E q \in Region : next[q] = r}

(* The regions that link leads through from first on, in this order. *)
Linked(first, link) ==
  LET at[i \in 1..(Cardinality(Region) + 1)] ==
        IF i = 1 THEN first ELSE IF at[i - 1] = Null THEN Null ELSE link[at[i - 1]]
      length == Cardinality({i \in DOMAIN at : at[i] # Null})
  IN  [i \in 1..length |-> at[i]]

Place(s, r) == CHOOSE i \in DOMAIN s : s[i] = r

(* Together the pointers are the lists of ClusterLists at every turn of a   *)
(* loop: the freed list is what its links lead through, during a refill     *)
(* without what that has taken, from its start to where it is.              *)
FreedList ==
  LET s == Linked(freedHead, freedNext)
  IN  IF walk # "refill" THEN s
      ELSE IF isCycle THEN SubSeq(s, Place(s, cur), Place(s, start) - 1)
      ELSE SubSeq(s, 1, Place(s, start) - 1) \o SubSeq(s, Place(s, cur), Len(s))

Cursor ==
  IF walk = "none" THEN 0
  ELSE IF cur = Null THEN Len(FreedList) + 1
  ELSE Place(FreedList, cur)

Lists ==
  INSTANCE ClusterLists WITH
    regionList <- RegionList,
    freedList <- FreedList,
    cursor <- Cursor

ImplementsLists == Lists!Spec

==============================================================================
