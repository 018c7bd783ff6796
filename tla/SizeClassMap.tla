----------------------------- MODULE SizeClassMap -----------------------------
(***************************************************************************)
(* The size classes: sanitizer_allocator_size_class_map.h.                 *)
(*                                                                         *)
(* Classes go up by kMinSize until kMidSize; from there each doubling of   *)
(* the size is divided into 2^S classes.                                   *)
(***************************************************************************)
EXTENDS Integers

CONSTANTS kNumBits, kMinSizeLog, kMidSizeLog, kMaxSizeLog, kMaxNumCachedHint

ASSUME SizeClassMapAssumption ==
  /\ kNumBits \in Nat \ {0}
  /\ kMinSizeLog \in Nat /\ kMidSizeLog \in Nat /\ kMaxSizeLog \in Nat
  /\ kMinSizeLog <= kMidSizeLog /\ kMidSizeLog <= kMaxSizeLog
  /\ kMaxNumCachedHint \in Nat

kMinSize == 2^kMinSizeLog
kMidSize == 2^kMidSizeLog
kMaxSize == 2^kMaxSizeLog
kMidClass == kMidSize \div kMinSize
S == kNumBits - 1
kNumClasses == kMidClass + (kMaxSizeLog - kMidSizeLog) * 2^S + 2
kBatchClassID == kNumClasses - 1

Size(class) ==
  LET over == class - kMidClass
      t == kMidSize * 2^(over \div 2^S)
  IN  CASE class = kBatchClassID -> kMaxNumCachedHint * 8
        [] class # kBatchClassID /\ class <= kMidClass -> kMinSize * class
        [] OTHER -> t + (t \div 2^S) * (over % 2^S)

(* MostSignificantSetBitIndex *)
Log(n) == CHOOSE l \in 0..30 : 2^l <= n /\ n < 2 * 2^l

(* Mutant: sizes between two classes go to the smaller one. *)
ClassID_Down(size) ==
  LET l == Log(size)
      hbits == (size \div 2^(l - S)) % 2^S
  IN  CASE size > kMaxSize -> 0
        [] size <= kMidSize -> (size + kMinSize - 1) \div kMinSize
        [] OTHER -> kMidClass + (l - kMidSizeLog) * 2^S + hbits

ClassID(size) ==
  LET l == Log(size)
      hbits == (size \div 2^(l - S)) % 2^S
      lbits == size % 2^(l - S)
  IN  CASE size > kMaxSize -> 0
        [] size <= kMidSize -> (size + kMinSize - 1) \div kMinSize
        [] OTHER -> kMidClass + (l - kMidSizeLog) * 2^S + hbits
                      + (IF lbits > 0 THEN 1 ELSE 0)

==============================================================================
