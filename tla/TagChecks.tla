------------------------------ MODULE TagChecks ------------------------------
(***************************************************************************)
(* Tags of stacks and globals, the checks of accesses and the report of a  *)
(* mismatch (hwasan.cpp, hwasan_linux.cpp, hwasan_report.cpp).             *)
(*                                                                         *)
(* A granule of memory has a byte of shadow: the tag of the pointers that  *)
(* reach it or, in a short granule, the number of its first bytes that are  *)
(* reached by pointers with the tag in its last byte.  One thread runs      *)
(* functions whose frames are tagged, leaves them by return and longjmp and *)
(* calls vfork; a library with a global is loaded and unloaded.  What the    *)
(* checks of an access let through, and what the report of one that failed   *)
(* says, follows from the shadow and the memory as they are.               *)
(***************************************************************************)
EXTENDS Integers, Sequences

CONSTANTS
  kShadowAlignment,   \* bytes of a granule
  ShadowPage,         \* GetPageSizeCached(), in granules
  ClearThreshold,     \* clear_shadow_mmap_threshold, in granules
  StackGranules,      \* granules of the stack, which grows down from the last
  GlobalGranules,     \* granules of the library's global
  MaxCleanup,         \* kMaxExpectedCleanupSize, in granules
  MaxFrames,          \* bound: frames at one time
  MaxFrame,           \* bound: granules of a frame
  MaxSize,            \* bound: bytes of an access through loadN and storeN
  Tags                \* the tags of frames and globals

VARIABLES
  shadow,    \* the byte of shadow of every granule
  lastByte,  \* the last byte of every granule
  frames,    \* the frames of the stack, the first one called first
  parent,    \* frames of the caller of vfork while the child runs, or 0
  global,    \* the size and the tag of the library's global
  loaded,    \* the library is loaded
  ignored    \* __hwasan_handle_longjmp has warned and cleared nothing

vars == <<shadow, lastByte, frames, parent, global, loaded, ignored>>
stackVars == <<frames, parent, ignored>>

AllGranules == 0 .. StackGranules + GlobalGranules - 1
Segment == StackGranules        \* the first granule of the library

RoundDown(x, n) == x - (x % n)
RoundUp(x, n) == RoundDown(x + n - 1, n)

Sp == IF frames = <<>> THEN StackGranules ELSE frames[Len(frames)].first

Init ==
  /\ shadow = [g \in AllGranules |-> 0]
  /\ lastByte = [g \in AllGranules |-> 0]
  /\ frames = <<>> /\ parent = 0
  /\ global \in [size : 1 .. kShadowAlignment * GlobalGranules, tag : Tags]
  /\ loaded = FALSE
  /\ ignored = FALSE

------------------------------------------------------------------------------
(* Tagging *)

(* Mutant: the pages given back are those that the range touches. *)
Cleared_Outward(first, end) ==
  RoundDown(first, ShadowPage) .. RoundUp(end, ShadowPage) - 1

(* The shadow that TagMemoryAligned makes 0 where it gives pages back: the   *)
(* ends by memset and the pages between.                                   *)
Cleared(first, end) ==
  LET pageStart == RoundUp(first, ShadowPage)
      pageEnd == RoundDown(end, ShadowPage)
  IN  (first .. pageStart - 1) \cup (pageEnd .. end - 1) \cup (pageStart .. pageEnd - 1)

(* TagMemoryAligned on n granules. *)
Tagged(s, first, n, t) ==
  LET end == first + n
      large == /\ RoundDown(end, ShadowPage) >= RoundUp(first, ShadowPage) + ClearThreshold
               /\ t = 0
      set == IF large THEN Cleared(first, end) ELSE first .. end - 1
  IN  [g \in AllGranules |-> IF g \in set THEN t ELSE s[g]]

(* An instrumented function tags its frame, any other (0) does not. *)
Call ==
  /\ Len(frames) < MaxFrames
  /\ \E n \in 1 .. MaxFrame, t \in Tags \cup {0} :
       /\ n <= Sp
       /\ frames' = Append(frames, [first |-> Sp - n, n |-> n, tag |-> t])
       /\ shadow' = IF t = 0 THEN shadow ELSE Tagged(shadow, Sp - n, n, t)
  /\ UNCHANGED <<lastByte, parent, ignored, global, loaded>>

(* A return, of a vfork's child only from the functions it has called. *)
Return ==
  /\ Len(frames) > parent
  /\ LET f == frames[Len(frames)]
     IN  shadow' = IF f.tag = 0 THEN shadow ELSE Tagged(shadow, f.first, f.n, 0)
  /\ frames' = SubSeq(frames, 1, Len(frames) - 1)
  /\ UNCHANGED <<lastByte, parent, ignored, global, loaded>>

(* Mutant: the frame that jumps is left out. *)
Longjmp_Above ==
  /\ \E k \in 1 .. Len(frames) - 1 :
       /\ k >= parent
       /\ frames' = SubSeq(frames, 1, k)
       /\ LET n == frames[k].first - Sp
          IN  IF n > MaxCleanup
              THEN ignored' = TRUE /\ UNCHANGED shadow
              ELSE /\ shadow' = Tagged(shadow, frames[Len(frames) - 1].first,
                                   frames[k].first - frames[Len(frames) - 1].first, 0)
                   /\ UNCHANGED ignored
  /\ UNCHANGED <<lastByte, parent, global, loaded>>

(* __hwasan_handle_longjmp, called in the last frame, to that of setjmp. *)
Longjmp ==
  /\ \E k \in 1 .. Len(frames) - 1 :
       /\ k >= parent
       /\ frames' = SubSeq(frames, 1, k)
       /\ LET n == frames[k].first - Sp
          IN  IF n > MaxCleanup
              THEN ignored' = TRUE /\ UNCHANGED shadow
              ELSE shadow' = Tagged(shadow, Sp, n, 0) /\ UNCHANGED ignored
  /\ UNCHANGED <<lastByte, parent, global, loaded>>

(* vfork: the child runs on this stack until it ends. *)
Vfork ==
  /\ parent = 0 /\ frames # <<>>
  /\ parent' = Len(frames)
  /\ UNCHANGED <<shadow, lastByte, frames, ignored, global, loaded>>

(* The child ends wherever it is; the parent goes on in the caller of vfork  *)
(* with __hwasan_handle_vfork, which clears the stack below.               *)
HandleVfork ==
  /\ parent # 0
  /\ frames' = SubSeq(frames, 1, parent)
  /\ parent' = 0
  /\ shadow' = Tagged(shadow, 0, frames[parent].first, 0)
  /\ UNCHANGED <<lastByte, ignored, global, loaded>>

(* Mutant: the rest of the size is taken for that of a full granule. *)
InitializeSingleGlobal_Full(s) ==
  Tagged(s, Segment, RoundUp(global.size, kShadowAlignment) \div kShadowAlignment, global.tag)

InitializeSingleGlobal(s) ==
  LET full == global.size \div kShadowAlignment
      rest == global.size % kShadowAlignment
      filled == Tagged(s, Segment, full, global.tag)
  IN  IF rest = 0 THEN filled ELSE Tagged(filled, Segment + full, 1, rest)

(* __hwasan_library_loaded; the tag in a short granule is in the file. *)
LibraryLoaded ==
  /\ ~loaded
  /\ loaded' = TRUE
  /\ shadow' = InitializeSingleGlobal(shadow)
  /\ lastByte' = [lastByte EXCEPT ![Segment + (global.size - 1) \div kShadowAlignment] =
                    IF global.size % kShadowAlignment = 0 THEN @ ELSE global.tag]
  /\ UNCHANGED <<stackVars, global>>

(* __hwasan_library_unloaded *)
LibraryUnloaded ==
  /\ loaded
  /\ loaded' = FALSE
  /\ shadow' = Tagged(shadow, Segment, GlobalGranules, 0)
  /\ lastByte' = [g \in AllGranules |-> IF g >= Segment THEN 0 ELSE lastByte[g]]
  /\ UNCHANGED <<stackVars, global>>

------------------------------------------------------------------------------
(* Checking *)

GranuleAt(b) == b \div kShadowAlignment
Bytes == 0 .. kShadowAlignment * (StackGranules + GlobalGranules) - 1

(* PossiblyShortTagMatches, of n bytes from the address b on *)
PossiblyShortTagMatches(t, b, n) ==
  LET g == GranuleAt(b)
  IN  \/ shadow[g] = t
      \/ /\ shadow[g] < kShadowAlignment
         /\ (b % kShadowAlignment) + n <= shadow[g]
         /\ lastByte[g] = t

(* CheckAddress: one granule. *)
CheckAddress(t, addr, log) == PossiblyShortTagMatches(t, addr, 2 ^ log)

(* CheckAddressSized: the granules before the last byte's, then the tail. *)
CheckAddressSized(t, addr, size) ==
  LET end == addr + size
  IN  /\ \A g \in GranuleAt(addr) .. GranuleAt(end) - 1 : shadow[g] = t
      /\ end % kShadowAlignment = 0
           \/ PossiblyShortTagMatches(t, end - (end % kShadowAlignment), end % kShadowAlignment)

(* The bytes that a pointer with a tag reaches. *)
Reaches(t, b) == PossiblyShortTagMatches(t, b, 1)

Least(S) == CHOOSE x \in S : \A y \in S : x <= y

(* The accesses of the entry points: __hwasan_load1 to 16 and their stores,  *)
(* which are aligned, with the logarithm of the size in the code that the   *)
(* trap passes on; and loadN and storeN with the code 15 and a register.    *)
Accesses ==
  {a \in [tag : Tags, addr : Bytes, code : 0 .. 4, register : {0}] :
     2 ^ a.code <= kShadowAlignment /\ a.addr % (2 ^ a.code) = 0}
  \cup {a \in [tag : Tags, addr : Bytes, code : {15}, register : 1 .. MaxSize] :
          a.addr + a.register - 1 \in Bytes}

Checked(a) ==
  IF a.code = 15 THEN CheckAddressSized(a.tag, a.addr, a.register)
  ELSE CheckAddress(a.tag, a.addr, a.code)

------------------------------------------------------------------------------
(* Reporting *)

(* GetAccessInfo and HwasanTagMismatch *)
AccessSize(a) == IF a.code = 15 THEN a.register ELSE 2 ^ a.code

(* __hwasan_test_shadow: the first granule whose byte is not the tag. *)
TestShadow(a) ==
  LET bad == {g \in GranuleAt(a.addr) .. GranuleAt(a.addr + AccessSize(a) - 1) : shadow[g] # a.tag}
      offset == kShadowAlignment * Least(bad) - a.addr
  IN  IF bad = {} THEN -1 ELSE IF offset < 0 THEN 0 ELSE offset

(* Mutant: also where the access begins behind the bytes of the granule. *)
PastShort_Always(a, offset) ==
  LET g == GranuleAt(a.addr + offset)
      inGranule == (a.addr + offset) % kShadowAlignment
  IN  IF shadow[g] \in 1 .. kShadowAlignment - 1 /\ lastByte[g] = a.tag
      THEN offset + shadow[g] - inGranule ELSE offset

(* Behind the bytes of a short granule that has the tag. *)
PastShort(a, offset) ==
  LET g == GranuleAt(a.addr + offset)
      inGranule == (a.addr + offset) % kShadowAlignment
  IN  IF /\ shadow[g] \in 1 .. kShadowAlignment - 1
         /\ lastByte[g] = a.tag /\ shadow[g] > inGranule
      THEN offset + shadow[g] - inGranule ELSE offset

(* ReportTagMismatch: its own check, and where the access goes wrong.  It    *)
(* ends the process whether or not the access is one to recover from.       *)
ReportTagMismatch(a) ==
  LET offset == TestShadow(a)
      passed == 0 <= offset /\ offset < AccessSize(a)
  IN  [checked |-> passed, offset |-> IF passed THEN PastShort(a, offset) ELSE offset]

Next ==
  \/ Call \/ Return \/ Longjmp \/ Vfork \/ HandleVfork
  \/ LibraryLoaded \/ LibraryUnloaded

Spec == Init /\ [][Next]_vars

------------------------------------------------------------------------------
(* What the stack and the library give pointers with tag t to: the bytes of *)
(* the frames called with it and those of the global.                      *)
Owned(t) ==
  {b \in Bytes :
     \/ \E i \in 1 .. Len(frames) :
          /\ frames[i].tag = t
          /\ GranuleAt(b) \in frames[i].first .. frames[i].first + frames[i].n - 1
     \/ /\ loaded /\ global.tag = t
        /\ b - kShadowAlignment * Segment \in 0 .. global.size - 1}

(* A pointer reaches a byte exactly when a frame or a global of its tag has  *)
(* it: nothing of a frame that was left, by return, longjmp or the end of a  *)
(* vfork's child, or of an unloaded library stays tagged, and nothing in use *)
(* loses its tag.  Excepted is what follows the warning of                  *)
(* __hwasan_handle_longjmp that false reports may.                          *)
TagsExact == ignored \/ \A t \in Tags : {b \in Bytes : Reaches(t, b)} = Owned(t)

(* An access of bytes that all are to be reached passes its check, and what  *)
(* is reported of another is its first byte that is not, found from the      *)
(* granules' tags: the report's own check of them never fails.              *)
ReportsWhere ==
  \A a \in Accesses :
    LET bad == {b \in a.addr .. a.addr + AccessSize(a) - 1 : ~Reaches(a.tag, b)}
    IN  IF bad = {} THEN Checked(a)
        ELSE ~Checked(a) => ReportTagMismatch(a) = [checked |-> TRUE, offset |-> Least(bad) - a.addr]

==============================================================================
