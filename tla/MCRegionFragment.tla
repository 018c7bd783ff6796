--------------------------- MODULE MCRegionFragment ---------------------------
(***************************************************************************)
(* TLC instances of RegionFragment.                                        *)
(***************************************************************************)
EXTENDS RegionFragment

(* Every set of freed chunks of a small region. *)
AnyChunks == SUBSET (0..7)

==============================================================================
