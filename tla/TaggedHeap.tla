------------------------------ MODULE TaggedHeap ------------------------------
(***************************************************************************)
(* What a SuperPool promises to the program that allocates from it, with   *)
(* no word of batches, lists or counters: it maps regions, hands out       *)
(* tagged pointers to chunks of them, takes them back and unmaps regions.  *)
(* A pointer it hands out is to a chunk nobody holds and carries a tag     *)
(* nobody else holds in its region; a region goes only when none of its    *)
(* chunks is held.                                                         *)
(***************************************************************************)
CONSTANTS Region, Chunk, Tag

VARIABLES
  mapped,  \* the regions the program's pointers may point into
  live     \* the tagged pointers the program holds

vars == <<mapped, live>>

Slot == [region : Region, chunk : Chunk, tag : Tag]

Init == mapped = {} /\ live = {}

Malloc(s) ==
  /\ s.region \in mapped
  /\ \A t \in live : t.region = s.region => t.chunk # s.chunk /\ t.tag # s.tag
  /\ live' = live \cup {s}
  /\ UNCHANGED mapped

Free(s) ==
  /\ live' = live \ {s}
  /\ UNCHANGED mapped

Map(r) ==
  /\ r \notin mapped
  /\ mapped' = mapped \cup {r}
  /\ UNCHANGED live

Unmap(r) ==
  /\ r \in mapped
  /\ \A t \in live : t.region # r
  /\ mapped' = mapped \ {r}
  /\ UNCHANGED live

Next ==
  \/ \E s \in Slot : Malloc(s)
  \/ \E s \in live : Free(s)
  \/ \E r \in Region : Map(r) \/ Unmap(r)

Spec == Init /\ [][Next]_vars

==============================================================================
