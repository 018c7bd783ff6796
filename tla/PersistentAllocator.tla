-------------------------- MODULE PersistentAllocator --------------------------
(***************************************************************************)
(* The persistent allocator: a stack of 16 pages without a lock of its own *)
(* (CTPersistentAllocatorAllocate and -Free in my_tools.cpp) and its users *)
(* once the process runs.                                                  *)
(*                                                                         *)
(* Threads in malloc and free use it under fallback_mutex: a new pool      *)
(* needs a node for ever, a release of regions needs counters, takes       *)
(* global_persistent_allocator_mutex and frees them before it gives it     *)
(* back.  Threads that symbolize addresses use it under the mutex of the   *)
(* symbolizer and free with noCheck, which does nothing.                   *)
(*                                                                         *)
(* Each access to the two shared words is a step.  Where the function      *)
(* reads a word that it has read or written before, the compiler may have  *)
(* kept the value: the step then uses either.                              *)
(***************************************************************************)
EXTENDS Integers, Sequences

CONSTANTS
  Mallocs,      \* threads in malloc and free
  Symbolizers,  \* threads that symbolize
  Capacity,     \* end_addr - base_addr, in units of 16 bytes
  PoolNodeSize, \* sizeof(CTPoolNode)
  CounterSizes, \* num_counters, by class
  SymbolSizes,  \* names and stack frames
  None          \* the holder of a free mutex

Thread == Mallocs \cup Symbolizers

VARIABLES
  cur, last,      \* cur_loc, last_loc, last_loc = -1 standing for 0
  fallbackMutex,  \* fallback_mutex
  releaseMutex,   \* global_persistent_allocator_mutex
  symbolMutex,    \* Symbolizer::mu_
  pc,             \* per thread
  use,            \* what the allocation is for
  size,           \* its size
  at,             \* cur_loc as the thread has read it
  blocks,         \* history: what callers hold for ever, nodes and symbols
  counters,       \* history: what a release holds
  held,           \* history: the size of all that
  exit,           \* the message of internal__exit, if any
  mixed           \* history: a symbolization has overlapped with a use by malloc or free

history == <<blocks, counters, held>>
locks == <<fallbackMutex, releaseMutex, symbolMutex>>
stack == <<cur, last>>
vars == <<stack, locks, pc, use, size, at, history, exit, mixed>>

NoLoc == -1
NoBlock == [from |-> 0, len |-> 0]

Init ==
  /\ cur = 0 /\ last = NoLoc
  /\ fallbackMutex = None /\ releaseMutex = None /\ symbolMutex = None
  /\ pc = [t \in Thread |-> "idle"]
  /\ use = [t \in Thread |-> "none"]
  /\ size = [t \in Thread |-> 0]
  /\ at = [t \in Thread |-> 0]
  /\ blocks = <<>> /\ counters = NoBlock /\ held = 0
  /\ exit = "no"
  /\ mixed = FALSE

Go(t, from, to) == exit = "no" /\ pc[t] = from /\ pc' = [pc EXCEPT ![t] = to]

Using(t) == pc[t] \notin {"idle", "locked"}
Clash(t) ==
  \E u \in Thread : Using(u) /\ (u \in Mallocs) # (t \in Mallocs)

(* A call of CTPersistentAllocatorAllocate. *)
Call(t, from, purpose, n) ==
  /\ Go(t, from, "check")
  /\ use' = [use EXCEPT ![t] = purpose]
  /\ size' = [size EXCEPT ![t] = n]
  /\ mixed' = (mixed \/ Clash(t))
  /\ UNCHANGED <<stack, at, history, exit>>

------------------------------------------------------------------------------
(* The users *)

(* HwasanAllocate and HwasanDeallocate *)
LockFallback(t) ==
  /\ t \in Mallocs /\ fallbackMutex = None
  /\ Go(t, "idle", "locked")
  /\ fallbackMutex' = t
  /\ UNCHANGED <<stack, releaseMutex, symbolMutex, use, size, at, history, exit, mixed>>

UnlockFallback(t) ==
  /\ Go(t, "locked", "idle")
  /\ fallbackMutex' = None
  /\ UNCHANGED <<stack, releaseMutex, symbolMutex, use, size, at, history, exit, mixed>>

(* appendCTPoolList *)
AppendPool(t) == t \in Mallocs /\ Call(t, "locked", "pool", PoolNodeSize) /\ UNCHANGED locks

(* The start of CTReleasePeriodically. *)
BeginRelease(t, n) ==
  /\ t \in Mallocs /\ releaseMutex = None
  /\ Call(t, "locked", "counters", n)
  /\ releaseMutex' = t
  /\ UNCHANGED <<fallbackMutex, symbolMutex>>

(* SymbolizePC: internal_strdup, SymbolizedStack::New *)
Symbolize(t, n) ==
  /\ t \in Symbolizers /\ symbolMutex = None
  /\ Call(t, "idle", "symbol", n)
  /\ symbolMutex' = t
  /\ UNCHANGED <<fallbackMutex, releaseMutex>>

------------------------------------------------------------------------------
(* CTPersistentAllocatorAllocate *)

Fits(t) == cur + size[t] < Capacity

(* The check of the limit. *)
Check(t) ==
  /\ \/ Fits(t) /\ Go(t, "check", "place") /\ UNCHANGED exit
     \/ ~Fits(t) /\ Go(t, "check", "exited") /\ exit' = "limit exceeded"
  /\ at' = [at EXCEPT ![t] = cur]
  /\ UNCHANGED <<stack, locks, use, size, history, mixed>>

(* Mutant: last_loc is set to the end of the block. *)
Top_After(t) == cur + size[t]

Top(t) == cur

(* last_loc = cur_loc: after the call that clears the block, cur_loc is     *)
(* read again.                                                             *)
Place(t) ==
  /\ Go(t, "place", "advance")
  /\ last' = Top(t)
  /\ at' = [at EXCEPT ![t] = cur]
  /\ UNCHANGED <<cur, locks, use, size, history, exit, mixed>>

(* Mutant: the top stays where it is. *)
Advanced_Not(t, from) == from

Advanced(t, from) == from + size[t]

(* cur_loc = cur_loc + size *)
Advance(t) ==
  /\ Go(t, "advance", "take")
  /\ \E from \in {at[t], cur} : cur' = Advanced(t, from)
  /\ UNCHANGED <<last, locks, use, size, at, history, exit, mixed>>

(* Where the caller goes on with its block. *)
After(purpose) ==
  CASE purpose = "counters" -> "counting"
    [] purpose = "pool" -> "locked"
    [] OTHER -> "idle"

(* return last_loc, and back in the caller; SymbolizePC is done. *)
Take(t) ==
  /\ Go(t, "take", After(use[t]))
  /\ \E got \in {at[t], last} :
       LET block == [from |-> got, len |-> size[t]]
       IN  IF use[t] = "counters"
             THEN /\ counters' = block /\ UNCHANGED blocks
                  /\ at' = [at EXCEPT ![t] = got]
             ELSE /\ blocks' = Append(blocks, block) /\ UNCHANGED counters
                  /\ at' = [at EXCEPT ![t] = 0]
  /\ held' = held + size[t]
  /\ symbolMutex' = IF use[t] = "symbol" THEN None ELSE symbolMutex
  /\ use' = [use EXCEPT ![t] = "none"] /\ size' = [size EXCEPT ![t] = 0]
  /\ UNCHANGED <<stack, fallbackMutex, releaseMutex, exit, mixed>>

------------------------------------------------------------------------------
(* CTPersistentAllocatorFree at the end of CTReleasePeriodically: the       *)
(* comparison,                                                             *)
CheckTop(t) ==
  /\ \/ at[t] = last /\ Go(t, "counting", "pop") /\ UNCHANGED exit
     \/ at[t] # last /\ Go(t, "counting", "exited") /\ exit' = "out of order"
  /\ UNCHANGED <<stack, locks, use, size, at, history, mixed>>

(* Mutant: the freed block stays on the stack. *)
Popped_Not(t) == {cur}

Popped(t) == {at[t], last}

(* cur_loc = last_loc, *)
Pop(t) ==
  /\ Go(t, "pop", "reset")
  /\ cur' \in Popped(t)
  /\ counters' = NoBlock /\ held' = held - counters.len /\ UNCHANGED blocks
  /\ at' = [at EXCEPT ![t] = 0]
  /\ UNCHANGED <<last, locks, use, size, exit, mixed>>

(* last_loc = 0, and the release gives its mutex back. *)
Reset(t) ==
  /\ Go(t, "reset", "locked")
  /\ last' = NoLoc
  /\ releaseMutex' = None
  /\ UNCHANGED <<cur, fallbackMutex, symbolMutex, use, size, at, history, exit, mixed>>

Next ==
  \/ \E t \in Thread :
       \/ LockFallback(t) \/ UnlockFallback(t) \/ AppendPool(t)
       \/ Check(t) \/ Place(t) \/ Advance(t) \/ Take(t)
       \/ CheckTop(t) \/ Pop(t) \/ Reset(t)
  \/ \E t \in Thread, n \in CounterSizes : BeginRelease(t, n)
  \/ \E t \in Thread, n \in SymbolSizes : Symbolize(t, n)

Spec == Init /\ [][Next]_vars

------------------------------------------------------------------------------
(* Properties *)

Within(b) == b.from \in Nat /\ b.from + b.len < Capacity
Disjoint(b, c) == b.from + b.len <= c.from \/ c.from + c.len <= b.from

(* What the callers hold lies within the stack and no two overlap: pool     *)
(* nodes are never overwritten by counters or names, unless two kinds of   *)
(* users have overlapped.                                                  *)
Apart ==
  ~mixed =>
    /\ Within(counters)
    /\ \A i \in DOMAIN blocks :
         /\ Within(blocks[i]) /\ Disjoint(blocks[i], counters)
         /\ \A j \in 1..(i - 1) : Disjoint(blocks[i], blocks[j])

(* The counters of a release are on top of the stack when it frees them,    *)
(* whatever pools were added before: the release never ends the process,   *)
(* unless somebody symbolizes meanwhile.                                   *)
FreeInOrder == ~mixed => exit # "out of order"

(* The stack gives out its last words before it ends the process: counters  *)
(* that were freed are used again, and nothing lies unused between blocks. *)
ExitsOnlyWhenFull ==
  ~mixed =>
    \A t \in Thread :
      pc[t] = "exited" /\ exit = "limit exceeded" => held + size[t] >= Capacity

(* All three. *)
StackExact == Apart /\ FreeInOrder /\ ExitsOnlyWhenFull

(* A release frees what it has allocated last, so that the rule "Only the   *)
(* chunk at the top of the stack can be freed" (my_tools.cpp:84) never     *)
(* ends the process.                                                       *)
FreeAccepted == exit # "out of order"

==============================================================================
