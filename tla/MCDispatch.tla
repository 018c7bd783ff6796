------------------------------ MODULE MCDispatch ------------------------------
(***************************************************************************)
(* TLC instances of Dispatch, with the code's own numbers.                 *)
(***************************************************************************)
EXTENDS Dispatch

AllAlignments == {2^k : k \in 4..17}

(* Sizes about the largest class. *)
LargeSizes == {65520, 65536, 65552, 100000}

==============================================================================
