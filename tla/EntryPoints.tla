----------------------------- MODULE EntryPoints -----------------------------
(***************************************************************************)
(* What the functions of malloc's family make of their arguments before     *)
(* they allocate, and of what they get (hwasan_allocator.cpp): products and  *)
(* sums of machine words, alignments, limits, errno, and what becomes of     *)
(* the old block.  One call, with any arguments, in a process with a block.  *)
(***************************************************************************)
EXTENDS Integers, FiniteSetsExt

CONSTANTS
  Width,        \* bits of a uptr
  Granule,      \* kShadowAlignment
  Word,         \* sizeof(u64)
  PageSize,     \* GetPageSizeCached()
  Classes,      \* SizeClassMap::Size(i)
  LargeHeader,  \* sizeof(CTLargeChunkHeader)
  LargeAlignment, \* alignment of a mapping for a large chunk
  MaxSize,      \* kMaxAllowedMallocSize
  Numbers,      \* bound: the sizes and the numbers of elements
  Alignments,   \* bound: the alignments
  OldSizes,     \* bound: the size of the block there is
  None

VARIABLES
  mayReturnNull,   \* allocator_may_return_null
  overRss,         \* IsRssLimitExceeded()
  call,            \* the call
  old,             \* the size of the block, None when it has been freed
  answer           \* what came of the call, None before

vars == <<mayReturnNull, overRss, call, old, answer>>

uptr == 0 .. 2 ^ Width - 1
Wrapped(n) == n % 2 ^ Width
RoundUpTo(n, boundary) == (Wrapped(n + boundary - 1) \div boundary) * boundary
IsPowerOfTwo(n) == \E k \in 0 .. Width - 1 : n = 2 ^ k

Call ==
  [name : {"malloc", "valloc", "pvalloc"}, n : {1}, size : Numbers, align : {1}]
    \cup [name : {"calloc", "reallocarray"}, n : Numbers, size : Numbers, align : {1}]
    \cup [name : {"realloc"}, n : {1}, size : Numbers, align : {1}]
    \cup [name : {"memalign", "aligned_alloc", "posix_memalign"}, n : {1}, size : Numbers,
          align : Alignments]

Init ==
  /\ mayReturnNull \in BOOLEAN /\ overRss \in BOOLEAN
  /\ call \in Call /\ old \in OldSizes /\ answer = None

------------------------------------------------------------------------------
(* The checks of sanitizer_allocator_checks.h *)

(* Mutant: the product itself is looked at. *)
CallocOverflow_Product(n, size) == Wrapped(n * size) < size /\ n # 0

CallocOverflow(n, size) == size # 0 /\ (2 ^ Width - 1) \div size < n

PvallocOverflow(size) == RoundUpTo(size, PageSize) < size
AlignedAllocFits(align, size) == IsPowerOfTwo(align) /\ size % align = 0
PosixMemalignFits(align) == IsPowerOfTwo(align) /\ align % Word = 0

------------------------------------------------------------------------------
(* HwasanAllocate.  A chunk is [bytes, align, zero]: what there is, what its  *)
(* address is a multiple of, and how much of it is zeroed.                  *)

Block(bytes, align, zero) == [bytes |-> bytes, align |-> align, zero |-> zero]
Died == [died |-> TRUE]
Null == [null |-> TRUE]
MayBeNull == IF mayReturnNull THEN Null ELSE Died

TaggedSize(size) == RoundUpTo(IF size = 0 THEN 1 ELSE size, Granule)

PowerIn(n) == Max({2 ^ k : k \in {j \in 0 .. Width : n % 2 ^ j = 0}})

(* CTAllocateCombined: a chunk of a class, or a large one, whose address is a *)
(* header behind that of its mapping; or the check of the alignment fails.   *)
Combined(size, align, zero) ==
  LET rounded == IF align > Word THEN RoundUpTo(size, align) ELSE size
      class == {c \in Classes : c >= rounded}
      large == PowerIn(LargeAlignment + LargeHeader)
  IN  IF Wrapped(size + align) < size THEN {Null}
      ELSE IF class # {} THEN {Block(Min(class), PowerIn(Min(class)), zero)}
      ELSE {Died} \cup
           {b \in {Block(RoundUpTo(size + LargeHeader, PageSize) - LargeHeader, large, zero)} :
              large >= align}

Allocate(size, align, zeroise) ==
  CASE size > MaxSize \/ overRss -> {MayBeNull}
    [] OTHER -> LET tagged == TaggedSize(size)
                IN  Combined(tagged, Max({align, Granule}), IF zeroise THEN tagged ELSE 0)

------------------------------------------------------------------------------
Answer(result, errno) == [result |-> result, errno |-> errno]

(* SetErrnoOnNull *)
WithErrno(results) == {Answer(r, IF r = Null THEN "ENOMEM" ELSE None) : r \in results}
(* A check fails: errno is set, and a report ends the process unless null    *)
(* may be returned.                                                        *)
Refuse(errno) == {Answer(MayBeNull, errno)}

Ends(answers) == answer' \in answers /\ UNCHANGED <<mayReturnNull, overRss, call, old>>

Called(name) == answer = None /\ call.name = name

Malloc == Called("malloc") /\ Ends(WithErrno(Allocate(call.size, Word, FALSE)))
Valloc == Called("valloc") /\ Ends(WithErrno(Allocate(call.size, PageSize, FALSE)))

Calloc ==
  /\ Called("calloc")
  /\ Ends(WithErrno(IF CallocOverflow(call.n, call.size) THEN {MayBeNull}
                    ELSE Allocate(Wrapped(call.n * call.size), Word, TRUE)))

Pvalloc ==
  /\ Called("pvalloc")
  /\ Ends(IF PvallocOverflow(call.size) THEN Refuse("ENOMEM")
          ELSE WithErrno(Allocate(IF call.size = 0 THEN PageSize
                                  ELSE RoundUpTo(call.size, PageSize), PageSize, FALSE)))

AlignedAlloc ==
  /\ Called("aligned_alloc")
  /\ Ends(IF AlignedAllocFits(call.align, call.size)
          THEN WithErrno(Allocate(call.size, call.align, FALSE)) ELSE Refuse("EINVAL"))

Memalign ==
  /\ Called("memalign")
  /\ Ends(IF IsPowerOfTwo(call.align)
          THEN WithErrno(Allocate(call.size, call.align, FALSE)) ELSE Refuse("EINVAL"))

(* It returns its error, and leaves errno alone. *)
PosixMemalign ==
  /\ Called("posix_memalign")
  /\ Ends(IF PosixMemalignFits(call.align)
          THEN {Answer(r, IF r = Null THEN "ENOMEM" ELSE None) :
                  r \in Allocate(call.size, call.align, FALSE)}
          ELSE Refuse("EINVAL"))

(* Mutant: the old block goes whatever came of the new one. *)
Reallocated_Freed(r) == None

(* HwasanReallocate frees the old block once there is a new one.             *)
Reallocated(r) == IF r \in {Null, Died} THEN old ELSE None

(* hwasan_realloc with a pointer to the block, of as many bytes.             *)
ReallocTo(size) ==
  /\ IF size = 0 THEN answer' = Answer(Null, None) /\ old' = None
     ELSE \E a \in WithErrno(Allocate(size, Word, FALSE)) :
            answer' = a /\ old' = Reallocated(a.result)
  /\ UNCHANGED <<mayReturnNull, overRss, call>>

Realloc == Called("realloc") /\ ReallocTo(call.size)

Reallocarray ==
  /\ Called("reallocarray")
  /\ IF CallocOverflow(call.n, call.size) THEN Ends(Refuse("ENOMEM"))
     ELSE ReallocTo(Wrapped(call.n * call.size))

Next ==
  \/ Malloc \/ Valloc \/ Calloc \/ Pvalloc \/ AlignedAlloc \/ Memalign \/ PosixMemalign
  \/ Realloc \/ Reallocarray

Spec == Init /\ [][Next]_vars

------------------------------------------------------------------------------
(* What the program asked for, in numbers that do not wrap. *)
Asked == call.n * call.size

(* A call that answers with a block answers with as many bytes as the         *)
(* arguments ask for, whatever they overflow on the way, at a multiple of    *)
(* the alignment, zeroed where that is promised; and without one it says     *)
(* why, except where the block was freed by being resized to nothing.        *)
AnswersFit ==
  answer # None =>
    LET r == answer.result
    IN  /\ r \notin {Null, Died} =>
             /\ r.bytes >= Asked /\ r.bytes > 0
             /\ call.name \in {"memalign", "aligned_alloc", "posix_memalign"} =>
                  IsPowerOfTwo(call.align) /\ r.align >= call.align
             /\ call.name \in {"valloc", "pvalloc"} => r.align >= PageSize
             /\ call.name = "calloc" => r.zero >= Asked
             /\ answer.errno = None
        /\ r = Null => (answer.errno # None <=> ~(call.name \in {"realloc", "reallocarray"}
                                                    /\ Asked = 0))

(* The old block survives a call that failed, and any that is not about it.  *)
OldKept ==
  answer # None =>
    (old = None <=> /\ call.name \in {"realloc", "reallocarray"}
                    /\ (answer.result \notin {Died, Null} \/ Asked = 0))

==============================================================================
