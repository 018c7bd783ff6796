----------------------- MODULE PersistentAllocatorProofs -----------------------
(***************************************************************************)
(* Proof of StackExact: as long as no symbolization overlaps with a use by *)
(* malloc or free, the persistent allocator is a stack, for any number of  *)
(* threads and any sizes.                                                  *)
(*                                                                         *)
(* The allocator has no lock; that one thread at most is in it follows     *)
(* from the locks of its users (Exclusive, Alone).  What it is in the      *)
(* middle of then says what the two words are (Stage).                     *)
(***************************************************************************)
EXTENDS PersistentAllocator, TLAPS

ConstantsOK ==
  /\ Mallocs \cap Symbolizers = {} /\ None \notin Thread
  /\ Capacity \in Nat \ {0} /\ PoolNodeSize \in Nat
  /\ CounterSizes \subseteq Nat /\ SymbolSizes \subseteq Nat

Block == [from : Int, len : Nat]

Types ==
  /\ cur \in Int /\ last \in Int
  /\ pc \in [Thread -> {"idle", "locked", "check", "place", "advance", "take", "counting",
                        "pop", "reset", "exited"}]
  /\ use \in [Thread -> {"none", "pool", "counters", "symbol"}]
  /\ size \in [Thread -> Nat]
  /\ at \in [Thread -> Int]
  /\ blocks \in Seq(Block) /\ counters \in Block /\ held \in Int
  /\ exit \in {"no", "limit exceeded", "out of order"}
  /\ mixed \in BOOLEAN

(* A thread that is not idle holds the mutex of its kind, and is after what *)
(* its kind is after.                                                      *)
Exclusive ==
  \A t \in Thread :
    IF t \in Mallocs
      THEN use[t] # "symbol" /\ (pc[t] # "idle" => fallbackMutex = t)
      ELSE /\ pc[t] \notin {"locked", "counting", "pop", "reset"}
           /\ pc[t] # "idle" => symbolMutex = t /\ use[t] = "symbol"

Alone == ~mixed => \A t, u \in Thread : Using(t) /\ Using(u) => t = u

(* The blocks lie below n, one behind the other. *)
Below(n) ==
  /\ n \in Nat /\ n < Capacity
  /\ \A i \in DOMAIN blocks :
       /\ blocks[i].from \in Nat /\ blocks[i].from + blocks[i].len <= n
       /\ \A j \in 1..(i - 1) : Disjoint(blocks[i], blocks[j])

(* Nobody is in the middle of anything. *)
Settled == cur = held /\ counters = NoBlock /\ Below(cur)

Stage(t) ==
  /\ pc[t] \in {"check", "place", "advance", "reset", "exited"} => Settled
  /\ pc[t] \in {"place", "advance"} => Fits(t)
  /\ pc[t] = "advance" => at[t] = cur /\ last = cur
  /\ pc[t] \in {"take", "counting", "pop"} =>
       /\ last = at[t] /\ Below(at[t])
       /\ cur < Capacity
  /\ pc[t] = "take" =>
       held = at[t] /\ cur = at[t] + size[t] /\ counters = NoBlock
  /\ pc[t] \in {"counting", "pop"} =>
       counters.from = at[t] /\ cur = at[t] + counters.len /\ held = cur
  /\ pc[t] = "exited" => exit = "limit exceeded" /\ ~Fits(t)

StackInv ==
  ~mixed =>
    /\ \A t \in Thread : Stage(t)
    /\ (\A t \in Thread : ~Using(t)) => Settled
    /\ exit # "out of order"

IInv == Types /\ Exclusive /\ Alone /\ StackInv
------------------------------------------------------------------------------
(* What a step has to show: it moves one thread while the others are not    *)
(* in the allocator, if kinds have not overlapped.                         *)
LEMMA OneMoves ==
  ASSUME IInv, NEW t \in Thread, NEW x, pc' = [pc EXCEPT ![t] = x],
         mixed' = FALSE => mixed = FALSE /\ \A u \in Thread : Using(u) => u = t,
         mixed' = FALSE => Stage(t)' /\ exit' # "out of order",
         mixed' = FALSE /\ x \in {"idle", "locked"} => Settled',
         mixed' \in BOOLEAN
  PROVE  Alone' /\ StackInv'
<1>1. pc'[t] = x /\ \A u \in Thread : u # t => pc'[u] = pc[u]
  BY DEF IInv, Types
<1>2. ASSUME ~mixed', NEW u \in Thread, u # t
      PROVE  ~Using(u)' /\ pc'[u] \in {"idle", "locked"}
  BY <1>1, <1>2 DEF Using
<1>3. Alone'
  BY <1>2 DEF Alone
<1>4. ASSUME ~mixed' PROVE \A u \in Thread : Stage(u)'
  <2> SUFFICES ASSUME NEW u \in Thread, u # t PROVE Stage(u)'
    BY <1>4
  <2>1. pc'[u] \in {"idle", "locked"}
    BY <1>2, <1>4
  <2> QED
    BY <2>1 DEF Stage
<1>5. ASSUME ~mixed', \A u \in Thread : ~Using(u)' PROVE Settled'
  <2>1. ~Using(t)'
    BY <1>5
  <2> QED
    BY <2>1, <1>1, <1>5 DEF Using
<1> QED
  BY <1>3, <1>4, <1>5 DEF StackInv

(* For a thread that is in the allocator already. *)
LEMMA OnlyOne ==
  ASSUME IInv, NEW t \in Thread, Using(t)
  PROVE  mixed = FALSE => \A u \in Thread : Using(u) => u = t
BY DEF IInv, Alone

LEMMA BelowKept ==
  ASSUME NEW n, Below(n), UNCHANGED blocks
  PROVE  Below(n)'
BY DEF Below, Disjoint

(* A block on top of the others. *)
LEMMA OnTop ==
  ASSUME ConstantsOK, Types, NEW n, NEW len \in Nat, Below(n), n + len < Capacity,
         blocks' = Append(blocks, [from |-> n, len |-> len])
  PROVE  Below(n + len)'
<1> DEFINE b == [from |-> n, len |-> len]
           m == Len(blocks)
<1>0. blocks \in Seq(Block) /\ n \in Nat /\ Capacity \in Nat
  BY DEF Types, Below, ConstantsOK
<1>1. n \in Nat /\ m \in Nat /\ Capacity \in Nat
  BY <1>0
<1>2. DOMAIN blocks = 1..m /\ DOMAIN blocks' = 1..(m + 1)
  BY <1>0
<1>3. blocks'[m + 1] = b /\ \A i \in 1..m : blocks'[i] = blocks[i]
  BY <1>0
<1>4. \A i \in 1..m : blocks[i].from \in Nat /\ blocks[i].len \in Nat
  <2>1. \A i \in 1..m : blocks[i] \in Block
    BY <1>0
  <2> QED
    BY <1>2, <2>1 DEF Below, Block
<1>5. ASSUME NEW i \in 1..m
      PROVE  /\ blocks'[i].from \in Nat /\ blocks'[i].from + blocks'[i].len <= n + len
             /\ \A j \in 1..(i - 1) : Disjoint(blocks'[i], blocks'[j])
  <2>1. blocks[i].from + blocks[i].len <= n /\ \A j \in 1..(i - 1) : Disjoint(blocks[i], blocks[j])
    BY <1>2 DEF Below
  <2>2. \A j \in 1..(i - 1) : j \in 1..m
    BY <1>1
  <2> QED
    BY <1>1, <1>3, <1>4, <2>1, <2>2
<1>6. \A j \in 1..m : Disjoint(b, blocks'[j])
  BY <1>2, <1>3 DEF Below, Disjoint
<1>7. (m + 1) - 1 = m /\ b.from = n /\ b.len = len
  BY <1>1
<1>8. ASSUME NEW i \in 1..(m + 1)
      PROVE  /\ blocks'[i].from \in Nat /\ blocks'[i].from + blocks'[i].len <= n + len
             /\ \A j \in 1..(i - 1) : Disjoint(blocks'[i], blocks'[j])
  <2>1. CASE i = m + 1
    BY <2>1, <1>1, <1>3, <1>6, <1>7
  <2>2. CASE i \in 1..m
    BY <2>2, <1>5
  <2> QED
    BY <1>1, <2>1, <2>2
<1> QED
  BY <1>1, <1>2, <1>8 DEF Below, Disjoint
------------------------------------------------------------------------------
LEMMA InitIInv == ASSUME ConstantsOK PROVE Init => IInv
<1> SUFFICES ASSUME Init PROVE IInv
  OBVIOUS
<1> USE DEF Init
<1>1. Types
  <2>1. blocks \in Seq(Block) /\ counters \in Block /\ last \in Int
    BY DEF Block, NoBlock, NoLoc
  <2>2. size \in [Thread -> Nat] /\ at \in [Thread -> Int]
    <3>1. size = [t \in Thread |-> 0] /\ at = [t \in Thread |-> 0]
      OBVIOUS
    <3>2. 0 \in Nat /\ 0 \in Int
      OBVIOUS
    <3> HIDE DEF Init
    <3> QED
      BY <3>1, <3>2, Zenon
  <2>3. use \in [Thread -> {"none", "pool", "counters", "symbol"}]
    OBVIOUS
  <2>4. cur \in Int /\ held \in Int /\ exit = "no" /\ mixed = FALSE
    OBVIOUS
  <2> QED
    BY <2>1, <2>2, <2>3, <2>4 DEF Types
<1>2. Exclusive /\ Alone
  BY DEF Exclusive, Alone, Using
<1>3. Settled
  BY DEF Settled, Below, ConstantsOK
<1>4. StackInv
  BY <1>3 DEF StackInv, Stage
<1> QED
  BY <1>1, <1>2, <1>4 DEF IInv

(* The users.  Between two calls the stack stays as it is. *)

LEMMA SettledWhenUnused ==
  ASSUME IInv, mixed = FALSE, NEW t \in Thread, \A u \in Thread : Using(u) => u = t,
         ~Using(t)
  PROVE  Settled
BY DEF IInv, StackInv

LEMMA SettledKept ==
  ASSUME Settled, UNCHANGED <<stack, history>>
  PROVE  Settled'
BY DEF Settled, Below, Disjoint, stack, history

LEMMA LockFallbackIInv ==
  ASSUME ConstantsOK, IInv, NEW t \in Thread, LockFallback(t) PROVE IInv'
<1> USE DEF LockFallback, Go
<1>1. Types'
  BY DEF IInv, Types, stack, history
<1>2. pc'[t] = "locked" /\ \A u \in Thread : u # t => pc'[u] = pc[u]
  BY DEF IInv, Types
<1>3. Exclusive'
  BY <1>2 DEF IInv, Exclusive, ConstantsOK
<1>4. Alone'
  BY <1>2 DEF IInv, Alone, Using
<1>5. StackInv'
  <2> SUFFICES ASSUME ~mixed
               PROVE  StackInv'
    BY DEF StackInv
  <2>1. ASSUME NEW u \in Thread PROVE Stage(u)'
    BY <1>2, SettledKept, BelowKept DEF IInv, StackInv, Stage, stack, history, Fits
  <2>2. ASSUME \A u \in Thread : ~Using(u)' PROVE Settled'
    BY <1>2, <2>2, SettledKept DEF IInv, StackInv, Using
  <2> QED
    BY <2>1, <2>2 DEF IInv, StackInv
<1> QED
  BY <1>1, <1>3, <1>4, <1>5 DEF IInv

LEMMA UnlockFallbackIInv ==
  ASSUME IInv, NEW t \in Thread, UnlockFallback(t) PROVE IInv'
<1> USE DEF UnlockFallback, Go
<1>1. Types'
  BY DEF IInv, Types, stack, history
<1>2. pc'[t] = "idle" /\ \A u \in Thread : u # t => pc'[u] = pc[u]
  BY DEF IInv, Types
<1>3. Exclusive'
  BY <1>2 DEF IInv, Exclusive
<1>4. Alone'
  BY <1>2 DEF IInv, Alone, Using
<1>5. StackInv'
  <2> SUFFICES ASSUME ~mixed
               PROVE  StackInv'
    BY DEF StackInv
  <2>1. ASSUME NEW u \in Thread PROVE Stage(u)'
    BY <1>2, SettledKept, BelowKept DEF IInv, StackInv, Stage, stack, history, Fits
  <2>2. ASSUME \A u \in Thread : ~Using(u)' PROVE Settled'
    BY <1>2, <2>2, SettledKept DEF IInv, StackInv, Using
  <2> QED
    BY <2>1, <2>2 DEF IInv, StackInv
<1> QED
  BY <1>1, <1>3, <1>4, <1>5 DEF IInv

(* A call, by a thread that holds the mutex of its kind and is not in the    *)
(* allocator.                                                              *)
LEMMA CallIInv ==
  ASSUME IInv, NEW t \in Thread, NEW from \in {"idle", "locked"},
         NEW purpose \in {"pool", "counters", "symbol"}, NEW n \in Nat,
         Call(t, from, purpose, n),
         IF t \in Mallocs THEN fallbackMutex' = t /\ purpose # "symbol"
                          ELSE symbolMutex' = t /\ purpose = "symbol",
         \A u \in Thread : u # t /\ pc[u] # "idle" =>
           /\ u \in Mallocs => t \notin Mallocs /\ fallbackMutex' = fallbackMutex
           /\ u \notin Mallocs => t \in Mallocs /\ symbolMutex' = symbolMutex
  PROVE  IInv'
<1> USE DEF Call, Go
<1>1. Types'
  BY DEF IInv, Types, stack, history
<1>2. pc'[t] = "check" /\ \A u \in Thread : u # t => pc'[u] = pc[u]
  BY DEF IInv, Types
<1>3. use'[t] = purpose /\ \A u \in Thread : u # t => use'[u] = use[u]
  BY DEF IInv, Types
<1>4. Exclusive'
  BY <1>2, <1>3 DEF IInv, Exclusive
<1>5. ~Using(t)
  BY DEF Using
<1>6. mixed' = FALSE => mixed = FALSE /\ \A u \in Thread : Using(u) => u = t
  <2> SUFFICES ASSUME mixed' = FALSE, NEW u \in Thread, Using(u), u # t
               PROVE  FALSE
    BY DEF IInv, Types
  <2>1. (u \in Mallocs) = (t \in Mallocs)
    BY DEF Clash
  <2> QED
    BY <2>1 DEF Using
<1>7. mixed' = FALSE => Settled'
  BY <1>5, <1>6, SettledWhenUnused, SettledKept
<1>8. mixed' = FALSE => Stage(t)' /\ exit' # "out of order"
  BY <1>2, <1>7 DEF Stage
<1>9. mixed' \in BOOLEAN
  BY <1>1 DEF Types
<1>10. Alone' /\ StackInv'
  BY <1>6, <1>8, <1>9, OneMoves
<1> QED
  BY <1>1, <1>4, <1>10 DEF IInv

LEMMA AppendPoolIInv ==
  ASSUME ConstantsOK, IInv, NEW t \in Thread, AppendPool(t) PROVE IInv'
<1>1. t \in Mallocs /\ pc[t] = "locked" /\ Call(t, "locked", "pool", PoolNodeSize)
  BY DEF AppendPool, Call, Go
<1>2. fallbackMutex = t /\ UNCHANGED locks
  BY <1>1 DEF IInv, Exclusive, AppendPool
<1>3. \A u \in Thread : u # t /\ pc[u] # "idle" => u \notin Mallocs
  BY <1>2 DEF IInv, Exclusive
<1> QED
  BY <1>1, <1>2, <1>3, CallIInv DEF ConstantsOK, locks

LEMMA BeginReleaseIInv ==
  ASSUME ConstantsOK, IInv, NEW t \in Thread, NEW n \in CounterSizes, BeginRelease(t, n)
  PROVE  IInv'
<1>1. t \in Mallocs /\ pc[t] = "locked" /\ Call(t, "locked", "counters", n)
  BY DEF BeginRelease, Call, Go
<1>2. fallbackMutex = t /\ UNCHANGED <<fallbackMutex, symbolMutex>> /\ n \in Nat
  BY <1>1 DEF IInv, Exclusive, BeginRelease, ConstantsOK
<1>3. \A u \in Thread : u # t /\ pc[u] # "idle" => u \notin Mallocs
  BY <1>2 DEF IInv, Exclusive
<1> QED
  BY <1>1, <1>2, <1>3, CallIInv

LEMMA SymbolizeIInv ==
  ASSUME ConstantsOK, IInv, NEW t \in Thread, NEW n \in SymbolSizes, Symbolize(t, n)
  PROVE  IInv'
<1>1. t \notin Mallocs /\ pc[t] = "idle" /\ Call(t, "idle", "symbol", n) /\ symbolMutex' = t
  BY DEF Symbolize, Call, Go, ConstantsOK
<1>2. UNCHANGED fallbackMutex /\ n \in Nat /\ symbolMutex = None
  BY DEF Symbolize, ConstantsOK
<1>3. \A u \in Thread : pc[u] # "idle" => u \in Mallocs
  BY <1>2 DEF IInv, Exclusive, ConstantsOK
<1> QED
  BY <1>1, <1>2, <1>3, CallIInv
------------------------------------------------------------------------------
(* The steps of the allocator: the thread is in it, and alone. *)

LEMMA CheckIInv ==
  ASSUME ConstantsOK, IInv, NEW t \in Thread, Check(t) PROVE IInv'
<1> USE DEF Check, Go
<1>1. Types'
  BY DEF IInv, Types, stack, history
<1>2. PICK x \in {"place", "exited"} :
        /\ pc' = [pc EXCEPT ![t] = x]
        /\ x = "place" => Fits(t) /\ exit' = exit
        /\ x = "exited" => ~Fits(t) /\ exit' = "limit exceeded"
  OBVIOUS
<1>3. pc[t] = "check" /\ Using(t)
  BY DEF Using
<1>4. pc'[t] = x /\ \A u \in Thread : u # t => pc'[u] = pc[u]
  BY <1>2 DEF IInv, Types
<1>5. Exclusive'
  BY <1>3, <1>4 DEF IInv, Exclusive, locks
<1>6. ASSUME mixed' = FALSE PROVE Stage(t)' /\ exit' # "out of order"
  <2>1. Settled /\ exit # "out of order"
    <3>1. mixed = FALSE
      BY <1>6
    <3>2. Stage(t) /\ exit # "out of order"
      BY <3>1 DEF IInv, StackInv
    <3> QED
      BY <1>3, <3>2 DEF Stage
  <2>2. Settled'
    BY <2>1, SettledKept
  <2>3. Fits(t)' = Fits(t)
    BY DEF Fits, stack
  <2> QED
    BY <1>2, <1>4, <2>1, <2>2, <2>3 DEF Stage
<1>7. Alone' /\ StackInv'
  BY <1>1, <1>2, <1>3, <1>6, OneMoves, OnlyOne DEF Types
<1> QED
  BY <1>1, <1>5, <1>7 DEF IInv

LEMMA PlaceIInv ==
  ASSUME ConstantsOK, IInv, NEW t \in Thread, Place(t) PROVE IInv'
<1> USE DEF Place, Go, Top
<1>1. Types'
  BY DEF IInv, Types, history
<1>2. pc[t] = "place" /\ Using(t)
  BY DEF Using
<1>3. pc'[t] = "advance" /\ \A u \in Thread : u # t => pc'[u] = pc[u]
  BY DEF IInv, Types
<1>4. Exclusive'
  BY <1>2, <1>3 DEF IInv, Exclusive, locks
<1>5. ASSUME mixed' = FALSE PROVE Stage(t)' /\ exit' # "out of order"
  <2>1. Settled /\ Fits(t) /\ exit # "out of order"
    BY <1>2, <1>5 DEF IInv, StackInv, Stage
  <2>2. Settled' /\ Fits(t)'
    BY <2>1 DEF Settled, Below, Disjoint, Fits, history
  <2>3. at'[t] = cur /\ last' = cur
    BY DEF IInv, Types
  <2> QED
    BY <1>3, <2>1, <2>2, <2>3 DEF Stage
<1>6. Alone' /\ StackInv'
  BY <1>1, <1>2, <1>5, OneMoves, OnlyOne DEF Types
<1> QED
  BY <1>1, <1>4, <1>6 DEF IInv

LEMMA AdvanceIInv ==
  ASSUME ConstantsOK, IInv, NEW t \in Thread, Advance(t) PROVE IInv'
<1> USE DEF Advance, Go, Advanced
<1>1. Types'
  <2>1. PICK from \in {at[t], cur} : cur' = from + size[t]
    OBVIOUS
  <2>2. from \in Int /\ size[t] \in Nat
    BY <2>1 DEF IInv, Types
  <2>3. cur' \in Int
    BY <2>1, <2>2
  <2> QED
    BY <2>3 DEF IInv, Types, history
<1>2. pc[t] = "advance" /\ Using(t)
  BY DEF Using
<1>3. pc'[t] = "take" /\ \A u \in Thread : u # t => pc'[u] = pc[u]
  BY DEF IInv, Types
<1>4. Exclusive'
  BY <1>2, <1>3 DEF IInv, Exclusive, locks
<1>5. ASSUME mixed' = FALSE PROVE Stage(t)' /\ exit' # "out of order"
  <2>1. /\ Settled /\ Fits(t) /\ exit # "out of order"
        /\ at[t] = cur /\ last = cur
    BY <1>2, <1>5 DEF IInv, StackInv, Stage
  <2>2. cur' = cur + size[t]
    BY <2>1
  <2>3. Below(at[t])'
    BY <2>1 DEF Settled, Below, Disjoint, history
  <2>4. held' = at'[t] /\ cur' = at'[t] + size'[t] /\ counters' = NoBlock /\ cur' < Capacity
    BY <2>1, <2>2 DEF Settled, Fits, history
  <2> QED
    BY <1>3, <2>1, <2>3, <2>4 DEF Stage
<1>6. Alone' /\ StackInv'
  BY <1>1, <1>2, <1>5, OneMoves, OnlyOne DEF Types
<1> QED
  BY <1>1, <1>4, <1>6 DEF IInv
LEMMA TakeIInv ==
  ASSUME ConstantsOK, IInv, NEW t \in Thread, Take(t) PROVE IInv'
<1> DEFINE x == After(use[t])
<1>1. PICK got \in {at[t], last} :
        LET block == [from |-> got, len |-> size[t]]
        IN  IF use[t] = "counters"
              THEN counters' = block /\ blocks' = blocks /\ at' = [at EXCEPT ![t] = got]
              ELSE /\ blocks' = Append(blocks, block) /\ counters' = counters
                   /\ at' = [at EXCEPT ![t] = 0]
  BY DEF Take
<1>2. /\ pc[t] = "take" /\ exit = "no" /\ pc' = [pc EXCEPT ![t] = x]
      /\ held' = held + size[t]
      /\ symbolMutex' = IF use[t] = "symbol" THEN None ELSE symbolMutex
      /\ use' = [use EXCEPT ![t] = "none"] /\ size' = [size EXCEPT ![t] = 0]
      /\ UNCHANGED <<cur, last, fallbackMutex, releaseMutex, exit, mixed>>
  BY DEF Take, Go, stack
<1>3. Using(t)
  BY <1>2 DEF Using
<1>4. x \in {"counting", "locked", "idle"}
      /\ (use[t] = "counters" => x = "counting") /\ (x = "counting" => use[t] = "counters")
      /\ (use[t] = "pool" => x = "locked") /\ (use[t] = "symbol" => x = "idle")
      /\ (x = "locked" => use[t] = "pool")
  BY DEF After
<1> HIDE DEF x
<1>5. pc'[t] = x /\ \A u \in Thread : u # t => pc'[u] = pc[u]
  BY <1>2 DEF IInv, Types
<1>6. use'[t] = "none" /\ \A u \in Thread : u # t => use'[u] = use[u]
  BY <1>2 DEF IInv, Types
<1>7. got \in Int /\ size[t] \in Nat /\ [from |-> got, len |-> size[t]] \in Block
      /\ blocks \in Seq(Block) /\ counters \in Block
  BY <1>1 DEF IInv, Types, Block
<1>8. Types'
  <2>1. blocks' \in Seq(Block) /\ counters' \in Block
    BY <1>1, <1>7
  <2>2. at' \in [Thread -> Int]
    <3>1. PICK y \in Int : at' = [at EXCEPT ![t] = y]
      BY <1>1, <1>7
    <3>2. at \in [Thread -> Int]
      BY DEF IInv, Types
    <3> QED
      BY <3>1, <3>2
  <2>3. size' \in [Thread -> Nat] /\ held' \in Int
    BY <1>2, <1>7 DEF IInv, Types
  <2>4. pc' \in [Thread -> {"idle", "locked", "check", "place", "advance", "take", "counting",
                            "pop", "reset", "exited"}]
        /\ use' \in [Thread -> {"none", "pool", "counters", "symbol"}]
    BY <1>2, <1>4 DEF IInv, Types
  <2> QED
    BY <1>2, <2>1, <2>2, <2>3, <2>4 DEF IInv, Types
<1>9. Exclusive'
  <2> SUFFICES ASSUME NEW u \in Thread
               PROVE  IF u \in Mallocs
                        THEN use'[u] # "symbol" /\ (pc'[u] # "idle" => fallbackMutex' = u)
                        ELSE /\ pc'[u] \notin {"locked", "counting", "pop", "reset"}
                             /\ pc'[u] # "idle" => symbolMutex' = u /\ use'[u] = "symbol"
    BY DEF Exclusive
  <2>1. CASE u = t
    BY <2>1, <1>2, <1>4, <1>5, <1>6 DEF IInv, Exclusive
  <2>2. CASE u # t
    BY <2>2, <1>2, <1>4, <1>5, <1>6 DEF IInv, Exclusive
  <2> QED
    BY <2>1, <2>2
<1>10. ASSUME mixed' = FALSE
       PROVE  /\ Stage(t)' /\ exit' # "out of order"
              /\ x \in {"idle", "locked"} => Settled'
  <2>1. mixed = FALSE
    BY <1>2, <1>10
  <2>2. Stage(t) /\ exit # "out of order"
    BY <2>1 DEF IInv, StackInv
  <2>3. /\ last = at[t] /\ Below(at[t]) /\ cur < Capacity /\ held = at[t]
        /\ cur = at[t] + size[t] /\ counters = NoBlock
    BY <1>2, <2>2 DEF Stage
  <2>4. got = at[t] /\ held' = cur'
    BY <1>1, <1>2, <2>3
  <2>5. CASE use[t] = "counters"
    <3>1. counters' = [from |-> at[t], len |-> size[t]] /\ blocks' = blocks
      BY <1>1, <2>4, <2>5
    <3>2. at'[t] = at[t]
      BY <1>1, <2>4, <2>5 DEF IInv, Types
    <3>3. Below(at[t])'
      BY <2>3, <3>1, <3>2 DEF Below, Disjoint
    <3> QED
      BY <1>2, <1>4, <1>5, <2>2, <2>3, <2>4, <2>5, <3>1, <3>2, <3>3 DEF Stage
  <2>6. CASE use[t] # "counters"
    <3>1. blocks' = Append(blocks, [from |-> at[t], len |-> size[t]]) /\ counters' = NoBlock
      BY <1>1, <2>3, <2>4, <2>6
    <3>2. at[t] + size[t] < Capacity /\ Types
      BY <2>3 DEF IInv
    <3>3. PICK n, len : n = at[t] /\ len = size[t]
      OBVIOUS
    <3>4. Below(n + len)'
      BY <1>7, <2>3, <3>1, <3>2, <3>3, OnTop
    <3>5. cur' = n + len /\ cur' = held'
      BY <1>2, <2>3, <2>4, <3>3
    <3>6. Settled'
      BY <3>1, <3>4, <3>5 DEF Settled
    <3>7. Stage(t)'
      BY <1>4, <1>5, <2>6 DEF Stage
    <3> QED
      BY <1>2, <2>2, <3>6, <3>7
  <2> QED
    BY <2>5, <2>6
<1>11. Alone' /\ StackInv'
  <2>1. mixed' = FALSE => mixed = FALSE /\ \A u \in Thread : Using(u) => u = t
    BY <1>2, <1>3, OnlyOne
  <2>2. mixed' \in BOOLEAN
    BY <1>8 DEF Types
  <2> QED
    BY <1>2, <1>10, <2>1, <2>2, OneMoves
<1> QED
  BY <1>8, <1>9, <1>11 DEF IInv

LEMMA CheckTopIInv ==
  ASSUME ConstantsOK, IInv, NEW t \in Thread, CheckTop(t) PROVE IInv'
<1> USE DEF CheckTop, Go
<1>1. Types'
  BY DEF IInv, Types, stack, history
<1>2. PICK x \in {"pop", "exited"} :
        /\ pc' = [pc EXCEPT ![t] = x]
        /\ x = "pop" => exit' = exit
        /\ x = "exited" => at[t] # last
  OBVIOUS
<1>3. pc[t] = "counting" /\ Using(t) /\ mixed' = mixed
  BY DEF Using
<1>4. pc'[t] = x /\ \A u \in Thread : u # t => pc'[u] = pc[u]
  BY <1>2 DEF IInv, Types
<1>5. Exclusive'
  BY <1>3, <1>4 DEF IInv, Exclusive, locks
<1>6. ASSUME mixed' = FALSE PROVE Stage(t)' /\ exit' # "out of order"
  <2>1. Stage(t) /\ exit # "out of order"
    <3>1. mixed = FALSE
      BY <1>3, <1>6
    <3> QED
      BY <3>1 DEF IInv, StackInv
  <2>2. last = at[t] /\ x = "pop" /\ Below(at[t])
    BY <1>2, <1>3, <2>1 DEF Stage
  <2>3. Below(at[t])'
    BY <2>2 DEF Below, Disjoint, history
  <2> QED
    BY <1>2, <1>3, <1>4, <2>1, <2>2, <2>3 DEF Stage, stack, history
<1>7. Alone' /\ StackInv'
  BY <1>1, <1>2, <1>3, <1>6, OneMoves, OnlyOne DEF Types
<1> QED
  BY <1>1, <1>5, <1>7 DEF IInv

LEMMA PopIInv ==
  ASSUME ConstantsOK, IInv, NEW t \in Thread, Pop(t) PROVE IInv'
<1> USE DEF Pop, Go, Popped
<1>1. Types'
  <2>1. cur' \in Int
    BY DEF IInv, Types
  <2>2. counters' \in Block /\ held' \in Int
    BY DEF IInv, Types, Block, NoBlock
  <2>3. at' \in [Thread -> Int]
    BY DEF IInv, Types
  <2> QED
    BY <2>1, <2>2, <2>3 DEF IInv, Types
<1>2. pc[t] = "pop" /\ Using(t) /\ mixed' = mixed
  BY DEF Using
<1>3. pc'[t] = "reset" /\ \A u \in Thread : u # t => pc'[u] = pc[u]
  BY DEF IInv, Types
<1>4. Exclusive'
  BY <1>2, <1>3 DEF IInv, Exclusive, locks
<1>5. ASSUME mixed' = FALSE PROVE Stage(t)' /\ exit' # "out of order"
  <2>1. Stage(t) /\ exit # "out of order"
    BY <1>2, <1>5 DEF IInv, StackInv
  <2>2. /\ last = at[t] /\ Below(at[t]) /\ counters.from = at[t]
        /\ cur = at[t] + counters.len /\ held = cur
    BY <1>2, <2>1 DEF Stage
  <2>3. at[t] \in Nat /\ counters.len \in Nat
    BY <2>2 DEF IInv, Types, Block, Below
  <2>4. cur' = at[t] /\ held' = at[t] /\ counters' = NoBlock
    BY <2>2, <2>3
  <2>5. Settled'
    BY <2>2, <2>4 DEF Settled, Below, Disjoint
  <2> QED
    BY <1>3, <2>1, <2>5 DEF Stage
<1>6. Alone' /\ StackInv'
  BY <1>1, <1>2, <1>5, OneMoves, OnlyOne DEF Types
<1> QED
  BY <1>1, <1>4, <1>6 DEF IInv

LEMMA ResetIInv ==
  ASSUME ConstantsOK, IInv, NEW t \in Thread, Reset(t) PROVE IInv'
<1> USE DEF Reset, Go
<1>1. Types'
  BY DEF IInv, Types, history, NoLoc
<1>2. pc[t] = "reset" /\ Using(t) /\ mixed' = mixed
  BY DEF Using
<1>3. pc'[t] = "locked" /\ \A u \in Thread : u # t => pc'[u] = pc[u]
  BY DEF IInv, Types
<1>4. Exclusive'
  BY <1>2, <1>3 DEF IInv, Exclusive
<1>5. ASSUME mixed' = FALSE PROVE Stage(t)' /\ exit' # "out of order" /\ Settled'
  <2>1. Stage(t) /\ exit # "out of order"
    BY <1>2, <1>5 DEF IInv, StackInv
  <2>2. Settled
    BY <1>2, <2>1 DEF Stage
  <2>3. Settled'
    BY <2>2 DEF Settled, Below, Disjoint, history
  <2> QED
    BY <1>3, <2>1, <2>3 DEF Stage
<1>6. Alone' /\ StackInv'
  BY <1>1, <1>2, <1>5, OneMoves, OnlyOne DEF Types
<1> QED
  BY <1>1, <1>4, <1>6 DEF IInv
------------------------------------------------------------------------------
LEMMA StutterIInv == ASSUME IInv, UNCHANGED vars PROVE IInv'
<1> USE DEF vars, stack, locks, history
<1>1. Types'
  BY DEF IInv, Types
<1>2. Exclusive' /\ Alone'
  BY DEF IInv, Exclusive, Alone, Using
<1>3. Settled => Settled'
  BY DEF Settled, Below, Disjoint
<1>4. \A t \in Thread : Below(at[t]) => Below(at[t])'
  BY DEF Below, Disjoint
<1>5. \A t \in Thread : Stage(t) => Stage(t)'
  BY <1>3, <1>4 DEF Stage, Fits
<1>6. (\A t \in Thread : ~Using(t)') => (\A t \in Thread : ~Using(t))
  BY DEF Using
<1>7. StackInv'
  BY <1>3, <1>5, <1>6 DEF IInv, StackInv
<1> QED
  BY <1>1, <1>2, <1>7 DEF IInv

LEMMA StepIInv == ASSUME ConstantsOK, IInv, [Next]_vars PROVE IInv'
<1>1. ASSUME NEW t \in Thread,
             \/ LockFallback(t) \/ UnlockFallback(t) \/ AppendPool(t)
             \/ Check(t) \/ Place(t) \/ Advance(t) \/ Take(t)
             \/ CheckTop(t) \/ Pop(t) \/ Reset(t)
      PROVE  IInv'
  BY <1>1, LockFallbackIInv, UnlockFallbackIInv, AppendPoolIInv, CheckIInv, PlaceIInv,
     AdvanceIInv, TakeIInv, CheckTopIInv, PopIInv, ResetIInv
<1>2. ASSUME NEW t \in Thread, NEW n \in CounterSizes, BeginRelease(t, n) PROVE IInv'
  BY <1>2, BeginReleaseIInv
<1>3. ASSUME NEW t \in Thread, NEW n \in SymbolSizes, Symbolize(t, n) PROVE IInv'
  BY <1>3, SymbolizeIInv
<1> QED
  BY <1>1, <1>2, <1>3, StutterIInv DEF Next

LEMMA Invariance == ASSUME ConstantsOK PROVE Spec => []IInv
BY InitIInv, StepIInv, PTL DEF Spec

LEMMA BelowApart ==
  ASSUME ConstantsOK, Types, NEW n \in Nat, Below(n), n <= counters.from \/ counters = NoBlock,
         Within(counters)
  PROVE  ~mixed => /\ Within(counters)
                   /\ \A i \in DOMAIN blocks :
                        /\ Within(blocks[i]) /\ Disjoint(blocks[i], counters)
                        /\ \A j \in 1..(i - 1) : Disjoint(blocks[i], blocks[j])
<1>1. Capacity \in Nat /\ counters.from \in Int /\ counters.len \in Nat
  BY DEF ConstantsOK, Types, Block
<1>2. ASSUME NEW i \in DOMAIN blocks
      PROVE  /\ Within(blocks[i]) /\ Disjoint(blocks[i], counters)
             /\ \A j \in 1..(i - 1) : Disjoint(blocks[i], blocks[j])
  <2>0. blocks \in Seq(Block)
    BY DEF Types
  <2>1. blocks[i] \in Block
    BY <2>0, <1>2
  <2>2. /\ blocks[i].from \in Nat /\ blocks[i].len \in Nat
        /\ blocks[i].from + blocks[i].len <= n /\ n < Capacity
        /\ \A j \in 1..(i - 1) : Disjoint(blocks[i], blocks[j])
    BY <2>1, <1>2 DEF Below, Block
  <2>3. Within(blocks[i])
    BY <1>1, <2>2 DEF Within
  <2>4. Disjoint(blocks[i], counters)
    BY <1>1, <2>2 DEF Disjoint, NoBlock
  <2> QED
    BY <2>2, <2>3, <2>4
<1> QED
  BY <1>2

(* As long as no symbolization overlaps with a use by malloc or free, what   *)
(* callers of CTPersistentAllocatorAllocate hold is apart, a release frees   *)
(* its counters in order, and the process ends only for lack of room.       *)
THEOREM StackExactAlways == ASSUME ConstantsOK PROVE Spec => []StackExact
<1>1. ASSUME IInv PROVE Apart
  <2> SUFFICES ASSUME ~mixed PROVE Apart
    BY DEF Apart
  <2>1. Types
    BY <1>1 DEF IInv
  <2>2. CASE \E t \in Thread : pc[t] \in {"counting", "pop"}
    <3>1. PICK t \in Thread : pc[t] \in {"counting", "pop"}
      BY <2>2
    <3>2. /\ Below(at[t]) /\ cur < Capacity /\ counters.from = at[t]
          /\ cur = at[t] + counters.len
      BY <1>1, <3>1 DEF IInv, StackInv, Stage
    <3>3. at[t] \in Nat /\ at[t] <= counters.from /\ Within(counters)
      BY <3>2 DEF Below, Within
    <3> QED
      BY <2>1, <3>2, <3>3, BelowApart DEF Apart
  <2>3. CASE ~\E t \in Thread : pc[t] \in {"counting", "pop"}
    <3>1. \E n \in Nat : Below(n) /\ counters = NoBlock
      <4>1. CASE \A t \in Thread : ~Using(t)
        BY <1>1, <4>1 DEF IInv, StackInv, Settled, Below
      <4>2. CASE ~\A t \in Thread : ~Using(t)
        <5>1. PICK t \in Thread : Using(t)
          BY <4>2
        <5>2. pc[t] \in {"check", "place", "advance", "take", "reset", "exited"} /\ Stage(t)
          BY <1>1, <2>1, <2>3, <5>1 DEF IInv, StackInv, Types, Using
        <5>3. CASE pc[t] = "take"
          BY <5>2, <5>3 DEF Stage, Below
        <5>4. CASE pc[t] # "take"
          <6>1. Settled
            BY <5>2, <5>4 DEF Stage
          <6> QED
            BY <6>1 DEF Settled, Below
        <5> QED
          BY <5>3, <5>4
      <4> QED
        BY <4>1, <4>2
    <3>2. Within(NoBlock)
      BY DEF Within, NoBlock, ConstantsOK
    <3> QED
      BY <2>1, <3>1, <3>2, BelowApart DEF Apart
  <2> QED
    BY <2>2, <2>3
<1>2. ASSUME IInv PROVE FreeInOrder
  BY <1>2 DEF IInv, StackInv, FreeInOrder
<1>3. ASSUME IInv PROVE ExitsOnlyWhenFull
  <2> SUFFICES ASSUME ~mixed, NEW t \in Thread, pc[t] = "exited"
               PROVE  held + size[t] >= Capacity
    BY DEF ExitsOnlyWhenFull
  <2>1. ~Fits(t) /\ cur = held
    BY <1>3 DEF IInv, StackInv, Stage, Settled
  <2>2. cur \in Int /\ size[t] \in Nat /\ Capacity \in Nat
    BY <1>3 DEF IInv, Types, ConstantsOK
  <2> QED
    BY <2>1, <2>2 DEF Fits
<1> QED
  BY <1>1, <1>2, <1>3, Invariance, PTL DEF StackExact

=================================================================================
