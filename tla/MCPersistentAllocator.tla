------------------------ MODULE MCPersistentAllocator ------------------------
(***************************************************************************)
(* TLC instances of PersistentAllocator.                                   *)
(***************************************************************************)
EXTENDS PersistentAllocator, TLC

CONSTANTS m1, m2, s1, s2

Symmetry == Permutations(Mallocs) \cup Permutations(Symbolizers)

(* What happens once two kinds of users have overlapped is not explored.    *)
NotMixed == ~mixed

==============================================================================
