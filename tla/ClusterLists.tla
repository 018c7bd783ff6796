----------------------------- MODULE ClusterLists -----------------------------
(***************************************************************************)
(* What the two lists of a SuperPool are, with no word of pointers: a set  *)
(* of regions in use, a sequence of those with freed chunks, and the       *)
(* position a refill or a release has reached in it.  SuperPool has the    *)
(* lists this way; RegionLists has the pointers that stand for them.       *)
(***************************************************************************)
EXTENDS Integers, SequencesExt

CONSTANTS Region, StartSpan

VARIABLES
  regionList, \* SuperPoolsRegionList
  freedList,  \* SuperPoolsFreedRegionList, head first
  walk,       \* the loop over it in progress, if any
  cursor      \* the position of its cur_region

vars == <<regionList, freedList, walk, cursor>>

Init ==
  /\ regionList = {} /\ freedList = <<>>
  /\ walk = "none" /\ cursor = 0

NewRegion(r) ==
  /\ walk = "none"
  /\ r \notin regionList
  /\ regionList' = regionList \cup {r}
  /\ UNCHANGED <<freedList, walk, cursor>>

(* A chunk of r is freed, which may begin a release. *)
Free(r) ==
  /\ walk = "none"
  /\ r \in regionList
  /\ freedList' = IF r \in Range(freedList) THEN freedList ELSE <<r>> \o freedList
  /\ \/ UNCHANGED <<walk, cursor>>
     \/ walk' = "release" /\ cursor' = 1
  /\ UNCHANGED regionList

BeginRefill ==
  /\ walk = "none"
  /\ walk' = "refill"
  /\ cursor' \in DOMAIN freedList /\ cursor' <= StartSpan
  /\ UNCHANGED <<regionList, freedList>>

(* A refill takes the region it stands at and goes on behind it, from the   *)
(* end to the head, or ends.                                               *)
Take ==
  /\ walk = "refill"
  /\ freedList' = RemoveAt(freedList, cursor)
  /\ \/ /\ freedList' # <<>>
        /\ cursor' = IF cursor > Len(freedList') THEN 1 ELSE cursor
        /\ UNCHANGED walk
     \/ walk' = "none" /\ cursor' = 0
  /\ UNCHANGED regionList

(* A release drops the region it stands at, passes it, or ends. *)
Drop ==
  /\ walk = "release"
  /\ cursor <= Len(freedList)
  /\ regionList' = regionList \ {freedList[cursor]}
  /\ freedList' = RemoveAt(freedList, cursor)
  /\ UNCHANGED <<walk, cursor>>

Pass ==
  /\ walk = "release"
  /\ cursor <= Len(freedList)
  /\ cursor' = cursor + 1
  /\ UNCHANGED <<regionList, freedList, walk>>

End ==
  /\ walk = "release"
  /\ cursor > Len(freedList)
  /\ walk' = "none" /\ cursor' = 0
  /\ UNCHANGED <<regionList, freedList>>

Next ==
  \/ \E r \in Region : NewRegion(r) \/ Free(r)
  \/ BeginRefill
  \/ Take
  \/ Drop
  \/ Pass
  \/ End

Spec == Init /\ [][Next]_vars

==============================================================================
