------------------------------ MODULE MCProgram ------------------------------
(***************************************************************************)
(* TLC instances of what is between a program and the SuperPools: what the  *)
(* driver compiles and links it with (SanitizerDriver, SanitizerFlags and    *)
(* LinkFlags, the first two with one command line), the functions of        *)
(* malloc's family (EntryPoints), the chunks it holds (HwasanHeap) and the  *)
(* tags of its stacks and globals (TagChecks).  Of HwasanHeap there are two: *)
(* in the one the program frees only chunks it holds, in the other dangling  *)
(* pointers too; they share the variables, and the properties hold of both.  *)
(* A behaviour is one of one of all these.                                 *)
(***************************************************************************)
EXTENDS HwasanHeap, TLC

CONSTANTS
  t1, t2, r1, r2, c1, c2, StaleTag, StaleSizes, None,
  Width, WordSize, MallocPage, Classes, LargeHeader, LargeAlignment, MaxMalloc, Numbers,
  Alignments,
  ShadowPage, ClearThreshold, StackGranules, GlobalGranules, MaxCleanup, MaxFrames, MaxFrame,
  MaxAccess, StackTags,
  Values, FlagValues, Targets, MaxArgs, MaxOptions

VARIABLES
  part,
  mayReturnNull, overRss, call, oldBlock, answer,
  stackShadow, stackByte, frames, parent, global, loaded, ignored,
  args, parsed, linked, settled, cc1,
  line, target, pic, libs

callVars == <<mayReturnNull, overRss, call, oldBlock, answer>>
tagVars == <<stackShadow, stackByte, frames, parent, global, loaded, ignored>>
driverVars == <<args, parsed, linked, settled, cc1>>
linkVars == <<line, target, pic, libs>>
runVars == <<vars, callVars, tagVars>>
buildVars == <<driverVars, linkVars>>

Stale == INSTANCE HwasanHeap WITH
           Tag <- StaleTag, Sizes <- StaleSizes, StaleFrees <- TRUE
E == INSTANCE EntryPoints WITH
       Granule <- 4, Word <- WordSize, PageSize <- MallocPage, MaxSize <- MaxMalloc,
       OldSizes <- {3}, old <- oldBlock
T == INSTANCE TagChecks WITH
       kShadowAlignment <- 4, MaxSize <- MaxAccess, Tags <- StackTags,
       shadow <- stackShadow, lastByte <- stackByte
D == INSTANCE SanitizerDriver
F == INSTANCE SanitizerFlags WITH Values <- FlagValues
L == INSTANCE LinkFlags

Symmetry == Permutations({t1, t2}) \cup Permutations({c1, c2})

Holding == part = "holding"
Dangling == part = "dangling"
Calling == part = "calling"
Checking == part = "checking"

(* A part that is not taken begins in one state. *)
MCInit ==
  /\ part \in {"holding", "dangling", "calling", "checking", "driver", "flags", "link"}
  /\ Init
  /\ IF Calling THEN E!Init
     ELSE /\ mayReturnNull = FALSE /\ overRss = FALSE /\ oldBlock = 3 /\ answer = None
          /\ call = [name |-> "malloc", n |-> 1, size |-> 0, align |-> 1]
  /\ IF Checking THEN T!Init
     ELSE /\ stackShadow = <<>> /\ stackByte = <<>> /\ frames = <<>> /\ parent = 0
          /\ global = [size |-> 1, tag |-> 4] /\ loaded = FALSE /\ ignored = FALSE
  /\ CASE part = "driver" -> D!Init /\ settled = None /\ cc1 = None
       [] part = "flags" -> F!FlagInit
       [] OTHER -> args = <<>> /\ parsed = None /\ linked = None /\ settled = None /\ cc1 = None
  /\ IF part = "link" THEN L!Init
     ELSE line = <<>> /\ target = None /\ pic = None /\ libs = None

Running ==
  /\ UNCHANGED <<part, buildVars>>
  /\ \/ Holding /\ Next /\ UNCHANGED <<callVars, tagVars>>
     \/ Dangling /\ Stale!Next /\ UNCHANGED <<callVars, tagVars>>
     \/ Calling /\ E!Next /\ UNCHANGED <<vars, tagVars>>
     \/ Checking /\ T!Next /\ UNCHANGED <<vars, callVars>>

Building ==
  /\ UNCHANGED <<part, runVars>>
  /\ \/ part = "driver" /\ D!Next /\ UNCHANGED <<settled, cc1, linkVars>>
     \/ part = "flags" /\ F!FlagNext /\ UNCHANGED linkVars
     \/ part = "link" /\ L!Next /\ UNCHANGED driverVars

MCNext == Running \/ Building

MCSpec == MCInit /\ [][MCNext]_<<part, runVars, buildVars>>

(* See AnswersFit and OldKept in EntryPoints: a block has as many bytes as    *)
(* the arguments ask for, whatever overflows, and a realloc that fails       *)
(* leaves the old one.                                                     *)
CallsExact == Calling => E!AnswersFit /\ E!OldKept
(* See TagsExact and ReportsWhere in TagChecks: accesses of every kind get    *)
(* through to the bytes of live frames and globals and to no others, and a   *)
(* report names the first byte that is not reached.                         *)
ChecksExact == Checking => T!TagsExact /\ T!ReportsWhere
(* See LastArgumentWins in SanitizerDriver and RecoverExact, CoverageExact,  *)
(* PieExact and FlagsExact in SanitizerFlags: what a command line enables,   *)
(* recovers from, traces and passes on is what its arguments ask for in      *)
(* their order.                                                            *)
CommandLineExact ==
  /\ part = "driver" => D!LastArgumentWins
  /\ part = "flags" => F!RecoverExact /\ F!CoverageExact /\ F!PieExact /\ F!FlagsExact
(* See RuntimesFit in SanitizerDriver, PicExact and LibsExact in LinkFlags:  *)
(* an executable has the runtimes its sanitizers call, and one malloc; its   *)
(* position independence and its libraries are what its options say.        *)
LinkExact ==
  /\ part = "driver" => D!RuntimesFit
  /\ part = "link" => L!PicExact /\ L!LibsExact

=============================================================================
