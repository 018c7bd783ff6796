---------------------------- MODULE MCSuperPool ----------------------------
(***************************************************************************)
(* TLC instances of SuperPool.                                             *)
(***************************************************************************)
EXTENDS SuperPool

(* Regions a pool takes before it has no room. *)
RegionsUntilFull ==
  Min({n \in 0..AllRegionsInPool :
         n = AllRegionsInPool \/ n * PoolDensity >= AllRegionsInPool})

(* The pools of an instance hold what the program and a refill need, as    *)
(* the code's 1TB SuperPools do; beyond it the code searches for a pool or *)
(* a region for ever and no step would be enabled.                         *)
ASSUME CapacityAssumption ==
  MaxLive + MinChunk - 1 <= NumPools * RegionsUntilFull * Available

=============================================================================
