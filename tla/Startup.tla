------------------------------- MODULE Startup -------------------------------
(***************************************************************************)
(* The initialisation of a process (__hwasan_init and what it calls, in     *)
(* hwasan.cpp, hwasan_linux.cpp, hwasan_thread.cpp, hwasan_allocator.cpp,   *)
(* my_tools.cpp and init_for_clustertag): flags and environment, the tagged *)
(* address ABI, the layout of the shadow, ClusterTag's own values, the      *)
(* persistent allocator and the geometry of the SuperPools; and the calls   *)
(* of malloc that come back into it meanwhile (DlSymAllocator).             *)
(***************************************************************************)
EXTENDS Integers, Sequences, FiniteSets

CONSTANTS
  AddressBits,     \* bits of an address, one value for each kernel
  ShadowScale,     \* kShadowScale
  PageSize,        \* bytes of a page in the address space
  BaseAlignment,   \* kShadowBaseAlignment, a logarithm
  ChunkSizes,      \* SizeClassMap::Size(i) of the SuperPools
  HeaderSize,      \* sizeof(CTRegionInfo)
  PoolSize,        \* kPoolSize
  RealPage,        \* page_size_, in the units of ChunkSizes
  StackSize,       \* the persistent allocator, in blocks of 16 bytes
  StackUse,        \* what init_for_clustertag takes of it
  EarlySizes,      \* bound: what is asked for during the initialisation
  MaxBlocks,       \* bound: blocks of the program
  Characters,      \* the digits, and 10 for any other character
  None

VARIABLES
  at,        \* where __hwasan_init is
  static,    \* __hwasan_init_static has come first, or is to be called
  variable,  \* ct_pool_density in the environment, or None
  options,   \* what the texts of the options ask for
  flags,     \* the flags, None before InitializeFlags
  layout,    \* of the address space, None before InitShadow
  tagged,    \* what InitializeOsSupport has found: None, "assumed", "enabled", "without"
  thread,    \* "none", "there", or "random" with its random state
  density,   \* ct_pool_density
  set,       \* ClusterTag's other values have been set
  stack,     \* cur_loc and end_addr of the persistent allocator, from base_addr
  classes,   \* of each SuperPool: what init_for_clustertag computes
  tagging,   \* hwasan_allocator_tagging_enabled
  blocks,    \* what the program has got: [from, beg, size]
  unset,     \* history: what has been read before it was set
  status     \* "runs", or why the process has ended

vars == <<at, static, variable, options, flags, layout, tagged, thread, density, set, stack,
          classes, tagging, blocks, unset, status>>

initVars == <<static, variable, options>>

NoStack == [cur |-> 0, end |-> 0]
Texts(n) == UNION {[1 .. k -> Characters] : k \in 0 .. n}

Init ==
  /\ at = "before"
  /\ static \in BOOLEAN
  /\ variable \in Texts(3) \cup {None}
  /\ options \in [disableTagging : BOOLEAN, failWithoutAbi : BOOLEAN]
  /\ flags = None /\ layout = None /\ tagged = None /\ thread = "none"
  /\ density = 0 /\ set = FALSE /\ stack = NoStack /\ classes = <<>> /\ tagging = FALSE
  /\ blocks = {} /\ unset = {} /\ status = "runs"

Running == at \notin {"before", "done"}   \* hwasan_init_is_running
Inited == at = "done"                     \* hwasan_inited

(* Mutant: the allocator comes before the memory that it takes.             *)
After_StackLate(s) ==
  CASE s = "flags" -> "density" [] s = "density" -> "instrumentation"
    [] s = "instrumentation" -> "values" [] s = "values" -> "loaded"
    [] s = "loaded" -> "random" [] s = "random" -> "allocator"
    [] s = "allocator" -> "stack" [] s = "stack" -> "interceptors"
    [] s = "interceptors" -> "done"

(* The order of __hwasan_init. *)
After(s) ==
  CASE s = "flags" -> "density" [] s = "density" -> "instrumentation"
    [] s = "instrumentation" -> "values" [] s = "values" -> "loaded"
    [] s = "loaded" -> "random" [] s = "random" -> "stack"
    [] s = "stack" -> "interceptors" [] s = "interceptors" -> "allocator"
    [] s = "allocator" -> "done"

Step(s) == at = s /\ at' = After(s)

(* A step reads what should be there: those of the names that are not.      *)
Reads(names) ==
  LET there == [flags |-> flags # None, layout |-> layout # None, thread |-> thread # "none",
                values |-> set, stack |-> stack # NoStack]
  IN  unset' = unset \cup {n \in names : ~there[n]}

------------------------------------------------------------------------------
(* Flags and the density *)

Begin ==
  /\ at = "before"
  /\ static => layout # None
  /\ at' = "flags"
  /\ UNCHANGED <<initVars, flags, layout, tagged, thread, density, set, stack, classes,
                 tagging, blocks, unset, status>>

(* InitializeFlags: defaults, __hwasan_default_options, HWASAN_OPTIONS.      *)
InitializeFlags ==
  /\ Step("flags")
  /\ flags' = options
  /\ UNCHANGED <<initVars, layout, tagged, thread, density, set, stack, classes, tagging,
                 blocks, unset, status>>

(* The value of a text of one or two digits, else None.                     *)
stringToInteger(text) ==
  IF Len(text) \notin 1 .. 2 \/ \E i \in DOMAIN text : text[i] \notin 0 .. 9 THEN None
  ELSE IF Len(text) = 1 THEN text[1] ELSE 10 * text[1] + text[2]

SetDensity ==
  /\ Step("density")
  /\ LET value == IF variable = None THEN 5 ELSE stringToInteger(variable)
     IN  IF value = None THEN status' = "density" /\ UNCHANGED density
         ELSE density' = value /\ UNCHANGED status
  /\ UNCHANGED <<initVars, flags, layout, tagged, thread, set, stack, classes, tagging,
                 blocks, unset>>

------------------------------------------------------------------------------
(* InitInstrumentation *)

(* InitializeOsSupport: a kernel that does not know the first request is     *)
(* taken to ignore tags.  Flags that are not set yet are FALSE.             *)
OsSupport ==
  \E knows, enables, lam \in BOOLEAN :
    LET found == IF ~knows THEN "assumed" ELSE IF enables \/ lam THEN "enabled" ELSE "without"
    IN  /\ tagged' = found
        /\ status' = IF found = "without" /\ flags # None /\ flags.failWithoutAbi
                     THEN "abi" ELSE status

(* GetMaxVirtualAddress and GetHighMemEnd *)
HighMemEnd(bits) ==
  LET max == 2 ^ bits - 1
      unit == PageSize * 2 ^ ShadowScale
  IN  max - (max % unit) + unit - 1

MemToShadow(base, p) == (p \div 2 ^ ShadowScale) + base

(* The places where the system may put the shadow, with room for the threads *)
(* below it.                                                               *)
Bases(highMemEnd) ==
  {b \in {k * 2 ^ BaseAlignment : k \in 1 .. highMemEnd \div 2 ^ BaseAlignment} :
     b + (highMemEnd + 1) \div 2 ^ ShadowScale <= highMemEnd + 1}

(* InitShadow, then the space of InitThreads. *)
Layout(highMemEnd, base) ==
  LET lowMemEnd == base - 1
      highShadowEnd == MemToShadow(base, highMemEnd)
      above == MemToShadow(base, highShadowEnd)
  IN  [base |-> base, lowMemEnd |-> lowMemEnd,
       lowShadowEnd |-> MemToShadow(base, lowMemEnd),
       highShadowStart |-> (IF lowMemEnd > above THEN lowMemEnd ELSE above) + 1,
       highShadowEnd |-> highShadowEnd,
       highMemStart |-> highShadowEnd, highMemEnd |-> highMemEnd,
       threads |-> [beg |-> base - 2 ^ BaseAlignment, end |-> base - PageSize]]

InitShadow ==
  \E bits \in AddressBits : \E base \in Bases(HighMemEnd(bits)) :
    layout' = Layout(HighMemEnd(bits), base)

(* CreateCurrentThread in InitThreads: Thread::Init without a random state.  *)
InitInstrumentation ==
  /\ OsSupport
  /\ IF status' = "runs" THEN InitShadow /\ thread' = "there" ELSE UNCHANGED <<layout, thread>>
  /\ Reads({"flags"})

(* __hwasan_init_static *)
InitStatic ==
  /\ at = "before" /\ static /\ layout = None
  /\ InitInstrumentation
  /\ UNCHANGED <<at, initVars, flags, density, set, stack, classes, tagging, blocks>>

InitInstrumentationOnce ==
  /\ Step("instrumentation")
  /\ IF layout # None THEN UNCHANGED <<layout, tagged, thread, unset, status>>
     ELSE InitInstrumentation
  /\ UNCHANGED <<initVars, flags, density, set, stack, classes, tagging, blocks>>

------------------------------------------------------------------------------
(* The rest of __hwasan_init *)

(* ct_shadow_memory_dynamic_address and the others, genRandomSeed.           *)
SetValues ==
  /\ Step("values")
  /\ Reads({"layout"})
  /\ set' = TRUE
  /\ UNCHANGED <<initVars, flags, layout, tagged, thread, density, stack, classes, tagging,
                 blocks, status>>

InitLoadedGlobals ==
  /\ Step("loaded")
  /\ Reads({"flags", "layout"})
  /\ UNCHANGED <<initVars, flags, layout, tagged, thread, density, set, stack, classes,
                 tagging, blocks, status>>

EnsureRandomStateInited ==
  /\ Step("random")
  /\ Reads({"flags", "thread"})
  /\ thread' = "random"
  /\ UNCHANGED <<initVars, flags, layout, tagged, density, set, stack, classes, tagging,
                 blocks, status>>

CTPersistentAllocatorInit ==
  /\ Step("stack")
  /\ Reads({"values"})
  /\ stack' = [cur |-> 0, end |-> StackSize]
  /\ UNCHANGED <<initVars, flags, layout, tagged, thread, density, set, classes, tagging,
                 blocks, status>>

(* InitializeInterceptors and the handlers, whose dlsym may allocate.        *)
InitializeInterceptors ==
  /\ Step("interceptors")
  /\ UNCHANGED <<initVars, flags, layout, tagged, thread, density, set, stack, classes,
                 tagging, blocks, unset, status>>

RoundUpDivide(n, d) == (n + d - 1) \div d

(* init_for_clustertag, of the SuperPool with chunks of a size.              *)
Geometry(chunk) ==
  LET available == (256 - RoundUpDivide(HeaderSize, chunk)) % 256
      twoPages == (2 * RealPage) \div chunk
      minChunk == IF twoPages < 256 THEN 256 ELSE twoPages
  IN  [regionSize |-> chunk * 256,
       available |-> available,
       allRegions |-> PoolSize \div (chunk * 256),
       minChunk |-> minChunk, maxChunk |-> minChunk + 256,
       triggerFree |-> IF chunk > RealPage THEN 1 ELSE RealPage \div chunk]

HwasanAllocatorInit ==
  /\ Step("allocator")
  /\ Reads({"flags", "values", "stack", "thread"})
  /\ tagging' = ~flags.disableTagging
  /\ IF stack.cur + StackUse >= stack.end
     THEN status' = "full" /\ UNCHANGED <<stack, classes>>
     ELSE /\ stack' = [stack EXCEPT !.cur = @ + StackUse]
          /\ classes' = [c \in ChunkSizes |-> Geometry(c)]
          /\ UNCHANGED status
  /\ UNCHANGED <<initVars, flags, layout, tagged, thread, density, set, blocks>>

------------------------------------------------------------------------------
(* The program and its libraries meanwhile *)

(* DlSymAllocator::PointerIsMine. Blocks of the heap are elsewhere.         *)
PointerIsMine(b) == b.from = "stack" /\ b.beg < stack.end

(* DlSymAllocator::Allocate, which ends the process when there is no room or *)
(* nothing yet.                                                            *)
EarlyMalloc(size) ==
  /\ Running /\ Cardinality(blocks) < MaxBlocks
  /\ IF stack.cur + size >= stack.end
     THEN status' = "full" /\ UNCHANGED <<stack, blocks>>
     ELSE /\ stack' = [stack EXCEPT !.cur = @ + size]
          /\ blocks' = blocks \cup {[from |-> "stack", beg |-> stack.cur, size |-> size]}
          /\ UNCHANGED status
  /\ UNCHANGED <<at, initVars, flags, layout, tagged, thread, density, set, classes, tagging,
                 unset>>

(* DlSymAllocator::Callocate, through internal_allocator().                  *)
EarlyCalloc ==
  /\ Running
  /\ status' = "internal allocator"
  /\ UNCHANGED <<at, initVars, flags, layout, tagged, thread, density, set, stack, classes,
                 tagging, blocks, unset>>

(* malloc and its kin on the heap.                                          *)
Malloc(size) ==
  /\ Inited /\ Cardinality(blocks) < MaxBlocks
  /\ \E beg \in 0 .. MaxBlocks - 1 :
       /\ \A b \in blocks : b.from = "heap" => b.beg # beg
       /\ blocks' = blocks \cup {[from |-> "heap", beg |-> beg, size |-> size]}
  /\ UNCHANGED <<at, initVars, flags, layout, tagged, thread, density, set, stack, classes,
                 tagging, unset, status>>

(* DlSymAllocator::Free keeps the memory, or HwasanDeallocate takes it.      *)
Free(b) ==
  /\ Running \/ Inited
  /\ blocks' = blocks \ {b}
  /\ UNCHANGED <<at, initVars, flags, layout, tagged, thread, density, set, stack, classes,
                 tagging, unset, status>>

(* DlSymAllocator::Realloc of a block asks internal_allocator() for it.      *)
Realloc(b) ==
  /\ Running \/ Inited
  /\ Running \/ PointerIsMine(b)
  /\ status' = "internal allocator"
  /\ UNCHANGED <<at, initVars, flags, layout, tagged, thread, density, set, stack, classes,
                 tagging, blocks, unset>>

------------------------------------------------------------------------------
Next ==
  /\ status = "runs"
  /\ \/ InitStatic \/ Begin \/ InitializeFlags \/ SetDensity \/ InitInstrumentationOnce
     \/ SetValues \/ InitLoadedGlobals \/ EnsureRandomStateInited \/ CTPersistentAllocatorInit
     \/ InitializeInterceptors \/ HwasanAllocatorInit
     \/ \E size \in EarlySizes : EarlyMalloc(size) \/ Malloc(size)
     \/ EarlyCalloc
     \/ \E b \in blocks : Free(b) \/ Realloc(b)

Spec == Init /\ [][Next]_vars

------------------------------------------------------------------------------
(* No step of the initialisation uses what a later one sets.  In a static     *)
(* executable only, InitInstrumentation comes before the flags and takes     *)
(* them for 0.                                                             *)
InitOrder == unset \subseteq (IF static THEN {"flags"} ELSE {})

MemIsApp(l, p) == p \in 0 .. l.lowMemEnd \/ p \in l.highMemStart .. l.highMemEnd
MemIsShadow(l, p) == p \in l.base .. l.lowShadowEnd \/ p \in l.highShadowStart .. l.highShadowEnd

(* Wherever the system puts the shadow: the application's memory is apart     *)
(* from it, every byte of it has its shadow in it, and all of the shadow is   *)
(* that of the application; and the threads are in memory below it.  Left     *)
(* out is the first byte of HighMem, which is the last one of HighShadow.    *)
LayoutExact ==
  layout # None =>
    LET app == {p \in 0 .. layout.highMemEnd : MemIsApp(layout, p)} \ {layout.highMemStart}
        shadow == {p \in 0 .. layout.highMemEnd : MemIsShadow(layout, p)}
    IN  /\ app \cap shadow = {}
        /\ {MemToShadow(layout.base, p) : p \in app} = shadow
        /\ 0 <= layout.threads.beg /\ layout.threads.beg < layout.threads.end
        /\ layout.threads.end < layout.base

(* In every class the header and the chunks fill a region, a pool holds its   *)
(* regions, and a refill's batch has room for what it adds at once; the       *)
(* density is a number of two digits at most.                              *)
GeometryHolds ==
  Inited /\ status = "runs" =>
    /\ density \in 0 .. 99
    /\ \A c \in ChunkSizes :
         LET g == classes[c]
         IN  /\ g.available \in 1 .. 255
             /\ (256 - g.available) * c >= HeaderSize
             /\ (255 - g.available) * c < HeaderSize
             /\ g.allRegions >= 1 /\ g.allRegions * g.regionSize <= PoolSize
             /\ g.minChunk >= g.available
             /\ g.minChunk - 1 + g.available <= 1024 /\ g.maxChunk <= 1024
             /\ g.triggerFree >= 1

(* What DlSymAllocator has given out during the initialisation stays its     *)
(* own, apart from the rest, and only it; and the heap's is never taken for  *)
(* it.                                                                     *)
EarlyBlocksKnown ==
  /\ \A b \in blocks : PointerIsMine(b) <=> b.from = "stack"
  /\ \A b, c \in {d \in blocks : d.from = "stack"} :
       b = c \/ b.beg + b.size <= c.beg \/ c.beg + c.size <= b.beg
  /\ \A b \in blocks : b.from = "stack" => b.beg + b.size <= stack.cur

==============================================================================
