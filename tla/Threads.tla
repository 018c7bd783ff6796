------------------------------- MODULE Threads -------------------------------
(***************************************************************************)
(* The life of threads and forks (hwasan_thread.cpp, hwasan_linux.cpp and  *)
(* __hwasan_init in hwasan.cpp).                                           *)
(*                                                                         *)
(* A thread has a Thread from __hwasan_thread_enter until a destructor of  *)
(* thread-specific data, one of several that the C library runs in rounds,  *)
(* calls __hwasan_thread_exit.  Its code generates tags and calls malloc    *)
(* and free in the destructors too, and malloc and free even later.  A fork *)
(* takes the locks of the upstream allocator and of the stack depot, not    *)
(* fallback_mutex, which malloc and free hold.                             *)
(***************************************************************************)
EXTENDS Integers

CONSTANTS
  Threads,
  Main,      \* the thread that runs __hwasan_init
  Rounds,    \* GetPthreadDestructorIterations()
  NumLocks,  \* the mutexes of ForceLock and StackDepotLockAll
  None       \* the holder of a free mutex

ASSUME ThreadsAssumption ==
  /\ Main \in Threads /\ None \notin Threads
  /\ Rounds \in Nat \ {0}
  /\ NumLocks \in Nat

VARIABLES
  pc,
  tsdInited,  \* tsd_key_inited
  current,    \* GetCurrentThread() # nullptr, by thread
  tsd,        \* the value of tsd_key, 0 for NULL, by thread
  round,      \* the round of destructors a thread is in
  ran,        \* the destructor of tsd_key has had its turn in it
  tag,        \* the kind of tag the thread has generated last
  fallback,   \* the holder of fallback_mutex
  holder,     \* the holders of the mutexes that forks take
  locked,     \* how many of them a thread has taken
  child       \* the forked process, if any

tsdVars == <<tsdInited, current, tsd, round, ran, tag>>
lockVars == <<fallback, holder, locked>>
vars == <<pc, tsdVars, lockVars, child>>

Locks == 1..NumLocks

Init ==
  /\ pc = [t \in Threads |-> IF t = Main THEN "init" ELSE "none"]
  /\ tsdInited = FALSE
  /\ current = [t \in Threads |-> FALSE]
  /\ tsd = [t \in Threads |-> 0]
  /\ round = [t \in Threads |-> 0]
  /\ ran = [t \in Threads |-> FALSE]
  /\ tag = [t \in Threads |-> "none"]
  /\ fallback = None
  /\ holder = [l \in Locks |-> None]
  /\ locked = [t \in Threads |-> 0]
  /\ child = None

At(t, l, m) == pc[t] = l /\ pc' = [pc EXCEPT ![t] = m]

------------------------------------------------------------------------------
(* Beginning *)

(* HwasanTSDThreadInit: nothing before the key is there. *)
ThreadInit(t) == IF tsdInited THEN [tsd EXCEPT ![t] = Rounds] ELSE tsd

(* InitThreads in __hwasan_init *)
InitThreads ==
  /\ At(Main, "init", "initTSD")
  /\ current' = [current EXCEPT ![Main] = TRUE]
  /\ tsd' = ThreadInit(Main)
  /\ UNCHANGED <<tsdInited, round, ran, tag, lockVars, child>>

(* Mutant: the first thread's value is not set again. *)
InitTSD_Once ==
  /\ At(Main, "initTSD", "running")
  /\ tsdInited' = TRUE
  /\ UNCHANGED <<current, tsd, round, ran, tag, lockVars, child>>

(* HwasanTSDInit and HwasanTSDThreadInit, and the rest of __hwasan_init. *)
InitTSD ==
  /\ At(Main, "initTSD", "running")
  /\ tsdInited' = TRUE
  /\ tsd' = [tsd EXCEPT ![Main] = Rounds]
  /\ UNCHANGED <<current, round, ran, tag, lockVars, child>>

(* __hwasan_thread_enter, once the program runs. *)
ThreadEnter(t) ==
  /\ tsdInited
  /\ At(t, "none", "running")
  /\ current' = [current EXCEPT ![t] = TRUE]
  /\ tsd' = ThreadInit(t)
  /\ UNCHANGED <<tsdInited, round, ran, tag, lockVars, child>>

------------------------------------------------------------------------------
(* Running: also in destructors, where instrumented code runs too. *)

InCode == {"running", "destructors"}

(* __hwasan_generate_tag: GenerateRandomTag, which is never 0, or the tag    *)
(* for code without a thread.                                              *)
GenerateTag(t) ==
  /\ pc[t] \in InCode
  /\ tag' = [tag EXCEPT ![t] = IF current[t] THEN "random" ELSE "fallback"]
  /\ UNCHANGED <<pc, tsdInited, current, tsd, round, ran, lockVars, child>>

(* malloc or free under fallback_mutex. *)
Enter(t) ==
  /\ pc[t] \in InCode \cup {"late"}
  /\ fallback = None
  /\ fallback' = t
  /\ UNCHANGED <<pc, tsdVars, holder, locked, child>>

Leave(t) ==
  /\ fallback = t
  /\ fallback' = None
  /\ UNCHANGED <<pc, tsdVars, holder, locked, child>>

------------------------------------------------------------------------------
(* Ending *)

(* The thread function has returned: the first round of destructors. *)
ThreadEnds(t) ==
  /\ t # Main /\ fallback # t
  /\ At(t, "running", "destructors")
  /\ round' = [round EXCEPT ![t] = 1]
  /\ ran' = [ran EXCEPT ![t] = FALSE]
  /\ UNCHANGED <<tsdInited, current, tsd, tag, lockVars, child>>

(* Mutant: the thread exits in the first round. *)
Iterate_First(n) == 0

(* What HwasanTSDDtor sets the value to, which was n before it was cleared. *)
Iterate(n) == IF n > 1 THEN n - 1 ELSE 0

(* HwasanTSDDtor, before or after the other destructors of the round; the   *)
(* last time it calls __hwasan_thread_exit.                                *)
TSDDtor(t) ==
  /\ pc[t] = "destructors" /\ fallback # t
  /\ ~ran[t] /\ tsd[t] # 0
  /\ ran' = [ran EXCEPT ![t] = TRUE]
  /\ tsd' = [tsd EXCEPT ![t] = Iterate(tsd[t])]
  /\ current' = [current EXCEPT ![t] = @ /\ Iterate(tsd[t]) # 0]
  /\ UNCHANGED <<pc, tsdInited, round, tag, lockVars, child>>

(* The C library goes on to the next round, if any value is set again. *)
NextRound(t) ==
  /\ pc[t] = "destructors" /\ fallback # t
  /\ ran[t] \/ tsd[t] = 0
  /\ round[t] < Rounds
  /\ round' = [round EXCEPT ![t] = @ + 1]
  /\ ran' = [ran EXCEPT ![t] = FALSE]
  /\ UNCHANGED <<pc, tsdInited, current, tsd, tag, lockVars, child>>

(* All rounds are done, or no value is set. *)
LastRound(t) ==
  /\ fallback # t
  /\ At(t, "destructors", "late")
  /\ ran[t] \/ tsd[t] = 0
  /\ round[t] = Rounds \/ tsd[t] = 0
  /\ UNCHANGED <<tsdVars, lockVars, child>>

(* The memory of the thread is free for another one. *)
ThreadGone(t) ==
  /\ fallback # t
  /\ At(t, "late", "none")
  /\ tag' = [tag EXCEPT ![t] = "none"]
  /\ round' = [round EXCEPT ![t] = 0]
  /\ UNCHANGED <<tsdInited, current, tsd, ran, lockVars, child>>

------------------------------------------------------------------------------
(* Forking *)

ForkBegins(t) ==
  /\ fallback # t
  /\ At(t, "running", "before")
  /\ UNCHANGED <<tsdVars, lockVars, child>>

(* The handler before: HwasanAllocatorLock takes the mutexes one by one,    *)
(* then StackDepotLockAll.                                                 *)
TakeLock(t) ==
  LET l == locked[t] + 1
  IN  /\ pc[t] = "before" /\ l \in Locks
      /\ holder[l] = None
      /\ holder' = [holder EXCEPT ![l] = t]
      /\ locked' = [locked EXCEPT ![t] = l]
      /\ UNCHANGED <<pc, tsdVars, fallback, child>>

(* The system call: the child has the one thread and all of the memory.     *)
(* Bound: one child.                                                       *)
Fork(t) ==
  /\ locked[t] = NumLocks
  /\ At(t, "before", "after")
  /\ child = None
  /\ child' = [thread |-> t, holder |-> holder, locked |-> locked[t],
               fallback |-> fallback, done |-> FALSE]
  /\ UNCHANGED <<tsdVars, lockVars>>

(* No child: the parent goes on alike. *)
ForkFails(t) ==
  /\ locked[t] = NumLocks
  /\ At(t, "before", "after")
  /\ UNCHANGED <<tsdVars, lockVars, child>>

(* Mutant: the stack depot stays locked. *)
Released_ButLast(h, l) == IF l = NumLocks THEN h ELSE [h EXCEPT ![l] = None]

(* The holders h once lock l is released. *)
Released(h, l) == [h EXCEPT ![l] = None]

(* The handler after: in the reverse order. *)
ReleaseLock(t) ==
  /\ pc[t] = "after" /\ locked[t] > 0
  /\ holder' = Released(holder, locked[t])
  /\ locked' = [locked EXCEPT ![t] = @ - 1]
  /\ UNCHANGED <<pc, tsdVars, fallback, child>>

ForkEnds(t) ==
  /\ locked[t] = 0
  /\ At(t, "after", "running")
  /\ UNCHANGED <<tsdVars, lockVars, child>>

(* The same handler in the child. *)
ChildReleases ==
  /\ child # None /\ child.locked > 0
  /\ child' = [child EXCEPT !.holder = Released(@, child.locked), !.locked = @ - 1]
  /\ UNCHANGED <<pc, tsdVars, lockVars>>

(* The child's thread calls malloc, or forks again, and then is done. *)
ChildGoesOn ==
  /\ child # None /\ child.locked = 0 /\ ~child.done
  /\ child.fallback = None
  /\ \A l \in Locks : child.holder[l] = None
  /\ child' = [child EXCEPT !.done = TRUE]
  /\ UNCHANGED <<pc, tsdVars, lockVars>>

ChildExits ==
  /\ child # None /\ child.done
  /\ child' = None
  /\ UNCHANGED <<pc, tsdVars, lockVars>>

------------------------------------------------------------------------------
Step(t) ==
  \/ ThreadEnter(t)
  \/ GenerateTag(t)
  \/ Enter(t)
  \/ Leave(t)
  \/ ThreadEnds(t)
  \/ TSDDtor(t)
  \/ NextRound(t)
  \/ LastRound(t)
  \/ ThreadGone(t)
  \/ ForkBegins(t)
  \/ TakeLock(t)
  \/ Fork(t)
  \/ ForkFails(t)
  \/ ReleaseLock(t)
  \/ ForkEnds(t)

Next ==
  \/ InitThreads
  \/ InitTSD
  \/ \E t \in Threads : Step(t)
  \/ ChildReleases
  \/ ChildGoesOn
  \/ ChildExits

(* A thread in a handler, in malloc or in free goes on, and gets a lock that *)
(* is free again and again; what the program does is its own choice.        *)
Fairness ==
  /\ \A t \in Threads :
       /\ SF_vars(TakeLock(t))
       /\ WF_vars(Fork(t) \/ ForkFails(t) \/ ReleaseLock(t) \/ ForkEnds(t))
       /\ WF_vars(Leave(t))
  /\ WF_vars(ChildReleases \/ ChildGoesOn)

Spec == Init /\ [][Next]_vars
FairSpec == Spec /\ Fairness

------------------------------------------------------------------------------
(* Properties *)

(* Instrumented code has its thread as long as there is another round of    *)
(* destructors to come: only destructors of the last round, after the       *)
(* runtime's own, and what the C library does later may find none.  And     *)
(* whatever has ended has none: no thread is left in the list.             *)
AliveToTheLast ==
  \A t \in Threads :
    /\ pc[t] \in {"running", "before", "after"} => current[t]
    /\ pc[t] = "destructors" /\ round[t] < Rounds => current[t]
    /\ pc[t] \in {"late", "none"} => ~current[t]

(* A fork ends, whatever forks other threads are in, and a child gets        *)
(* through its first malloc and its own forks, provided that no other       *)
(* thread was in malloc or free when it was forked: the handlers do not     *)
(* take fallback_mutex, so that it would wait for that thread for ever.     *)
ForksEnd ==
  /\ \A t \in Threads : pc[t] \in {"before", "after"} ~> pc[t] = "running"
  /\ (child # None /\ child.fallback = None) ~> (child = None \/ child.done)

==============================================================================
