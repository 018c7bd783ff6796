--------------------------- MODULE SanitizerDriver ---------------------------
(***************************************************************************)
(* What the clang driver makes of -fsanitize= and its kin (SanitizerArgs.cpp *)
(* and CommonArgs.cpp): the sanitizers a command line enables, and the      *)
(* runtimes an executable or a shared library is linked with, on Linux, for  *)
(* x86-64 and other targets.  ClusterTag is -fsanitize=clustertag, with the  *)
(* runtime of HWASan; -fsanitize=hwaddress is an error.                     *)
(*                                                                         *)
(* A mask is a set: of kinds, and of the names of groups, a group having    *)
(* the kinds that are its own.  Kinds that the driver treats alike stand    *)
(* for one another.                                                        *)
(***************************************************************************)
EXTENDS Integers, FiniteSetsExt, SequencesExt

CONSTANTS
  Values,   \* bound: the values of -fsanitize= and -fno-sanitize=
  Targets,  \* bound: the architectures of --target=
  MaxArgs,  \* bound: the arguments of a command line, each of one value
  None      \* no value

VARIABLES
  args,     \* the arguments
  parsed,   \* SanitizerArgs
  linked    \* the runtimes of the link command

vars == <<args, parsed, linked>>

------------------------------------------------------------------------------
(* Sanitizers.def *)

UndefinedKinds == {"Alignment", "ObjectSize", "Unreachable", "Function", "Vptr"}
CFIKinds == {"CFIVCall", "CFIMFCall"}
Kinds ==
  UndefinedKinds \cup CFIKinds \cup
  {"Address", "PointerCompare", "KernelAddress", "ClusterTag", "HWAddress", "KernelHWAddress", "MemTag",
   "Memory", "KernelMemory", "Thread", "Leak", "Scudo", "SafeStack", "Fuzzer", "FuzzerNoLink"}

Members ==
  [UndefinedGroup |-> UndefinedKinds, CFIGroup |-> CFIKinds, AllGroup |-> Kinds]
Groups == DOMAIN Members

(* The names that are not their kind's. *)
Named(value) ==
  CASE value = "hwaddress" -> "ClusterTag"
    [] value = "clustertag" -> "HWAddress"
    [] value = "undefined" -> "UndefinedGroup"
    [] value = "cfi" -> "CFIGroup"
    [] value = "all" -> "AllGroup"
    [] OTHER -> value

SetGroupBits(mask) == mask \cup {g \in Groups : Members[g] \cap mask # {}}
ExpandGroups(mask) == mask \cup UNION {Members[g] : g \in mask \cap Groups}

(* Masks at the head of SanitizerArgs.cpp. *)
NeedsUbsanRt == UndefinedKinds \cup CFIKinds
NotAllowedWithTrap == {"Vptr"}
NotAllowedWithMinimalRuntime == {"Function", "Vptr"}
TrappingSupported == (UndefinedKinds \ {"Vptr"}) \cup CFIKinds
TrappingDefault == CFIKinds
CompatibleWithMinimalRuntime == TrappingSupported \cup {"Scudo", "MemTag"}

------------------------------------------------------------------------------
(* The command line *)

Arg ==
  [opt : {"sanitize", "no-sanitize"}, value : Values]
    \cup [opt : {"trap", "no-trap"}, value : {"undefined", "cfi"}]
    \cup [opt : {"target"}, value : Targets]
    \cup [opt : {"minimal-runtime", "cfi-cross-dso", "lto"}, value : {None}]

Has(opt) == \E i \in DOMAIN args : args[i].opt = opt

(* parseArgValues.  hwaddress is refused, with whatever else its argument    *)
(* says, as is all.                                                        *)
Refused(a) == a.opt = "sanitize" /\ a.value \in {"hwaddress", "all"}
ParseArgValues(a) == IF Refused(a) THEN {} ELSE {Named(a.value)}

(* parseSanitizeTrapArgs: from the last argument to the first. *)
TrappingKinds ==
  LET Turn(a, t) ==
        CASE a.opt = "trap" ->
               [t EXCEPT !.kinds =
                  @ \cup (ExpandGroups(ParseArgValues(a) \ t.remove) \ t.remove)]
          [] a.opt = "no-trap" -> [t EXCEPT !.remove = @ \cup ExpandGroups(ParseArgValues(a))]
          [] OTHER -> t
      t == FoldRight(Turn, args, [kinds |-> {}, remove |-> {}])
  IN  t.kinds \cup (TrappingDefault \ t.remove)

(* The architecture: that of the last --target=. *)
Arch ==
  LET at == {i \in DOMAIN args : args[i].opt = "target"}
  IN  IF at = {} THEN "x86_64" ELSE args[Max(at)].value

If(condition, value) == IF condition THEN {value} ELSE {}

(* getSupportedSanitizers of every toolchain. *)
ToolChainSupported ==
  {"Alignment", "ObjectSize", "Unreachable"} \cup CFIKinds \cup If(Arch = "aarch64", "MemTag")

(* getSupportedSanitizers on Linux. *)
getSupportedSanitizers ==
  ToolChainSupported
    \cup {"Address", "PointerCompare", "Fuzzer", "FuzzerNoLink", "KernelAddress", "Memory",
          "Vptr", "SafeStack"}
    \cup If(Arch \in {"x86_64", "mips64", "aarch64", "x86", "arm", "ppc64", "riscv64",
                     "systemz", "hexagon"}, "Leak")
    \cup If(Arch \in {"x86_64", "mips64", "aarch64", "ppc64", "systemz"}, "Thread")
    \cup If(Arch = "x86_64", "KernelMemory")
    \cup If(Arch \in {"x86", "x86_64"}, "Function")
    \cup If(Arch \in {"x86_64", "mips64", "aarch64", "x86", "mips", "arm", "ppc64", "hexagon"},
           "Scudo")
    \cup (IF Arch \in {"x86_64", "aarch64"}
          THEN {"HWAddress", "KernelHWAddress", "ClusterTag"} ELSE {})

(* What an argument of its own is an error for, and a group loses silently.  *)
Forbidden ==
  (Kinds \ getSupportedSanitizers)
    \cup (NotAllowedWithTrap \cap TrappingKinds)
    \cup (IF Has("minimal-runtime") THEN NotAllowedWithMinimalRuntime ELSE {})
    \cup (IF Has("cfi-cross-dso") THEN {"CFIMFCall"} ELSE {})

(* Mutant: what a group expands to is not checked for what is disabled later. *)
Added_All(mask, remove) == ExpandGroups(mask \ remove) \ Forbidden

(* What -fsanitize= adds, given what later arguments remove. *)
Added(mask, remove) == (ExpandGroups(mask \ remove) \ remove) \ Forbidden

(* A turn of the constructor's loop over the arguments, from the last one to *)
(* the first, s being what it has gathered.  Without -O the object size     *)
(* sanitizer is disabled, and fuzzing needs its instrumentation.            *)
Turn(a, s) ==
  LET mask == ParseArgValues(a)
      remove == s.allRemove \cup {"ObjectSize"}
      add == Added(mask, remove)
  IN  CASE a.opt = "sanitize" ->
             [allRemove |-> remove,
              allAdded |-> s.allAdded \cup ExpandGroups(mask),
              kinds |-> s.kinds \cup add
                          \cup (IF "Fuzzer" \in add THEN {"FuzzerNoLink"} ELSE {}),
              errors |-> s.errors \cup (IF Refused(a) THEN {a.value} ELSE {})
                           \cup ((mask \ remove) \cap Forbidden)]
        [] a.opt = "no-sanitize" ->
             [s EXCEPT !.allRemove = @ \cup ExpandGroups(mask)]
        [] OTHER -> s

Gathered ==
  FoldRight(Turn, args, [allRemove |-> {}, allAdded |-> {}, kinds |-> {}, errors |-> {}])

IncompatibleGroups ==
  << <<"Address", {"Thread", "Memory"}>>,
     <<"Thread", {"Memory"}>>,
     <<"Leak", {"Thread", "Memory"}>>,
     <<"KernelAddress", {"Address", "Leak", "Thread", "Memory"}>>,
     <<"HWAddress", {"Address", "Thread", "Memory", "KernelAddress"}>>,
     <<"Scudo", {"Address", "HWAddress", "Leak", "Thread", "Memory", "KernelAddress"}>>,
     <<"SafeStack", {"Leak", "Address", "HWAddress", "Thread", "Memory", "KernelAddress"}>>,
     <<"KernelHWAddress", {"Address", "HWAddress", "Leak", "Thread", "Memory",
                           "KernelAddress", "SafeStack"}>>,
     <<"KernelMemory", {"Address", "HWAddress", "Leak", "Thread", "Memory",
                        "KernelAddress", "Scudo", "SafeStack"}>>,
     <<"MemTag", {"Address", "KernelAddress", "HWAddress", "KernelHWAddress"}>> >>

(* The loop over them: r.pairs are the incompatibilities it reports. *)
Incompatible(r, group) ==
  LET found == r.kinds \cap group[2]
  IN  IF group[1] \in r.kinds /\ found # {}
      THEN [kinds |-> r.kinds \ found, pairs |-> r.pairs \cup {<<{group[1]}, found>>}]
      ELSE r

(* lastArgumentForMask ends with an argument, and not in llvm_unreachable.   *)
(* It reads hwaddress like any other name.                                 *)
FindsLastArgument(mask) ==
  LET Back(a, f) ==
        LET named == ExpandGroups({Named(a.value)})
        IN  IF f.found THEN f
            ELSE CASE a.opt = "sanitize" -> [f EXCEPT !.found = named \cap f.mask # {}]
                   [] a.opt = "no-sanitize" -> [f EXCEPT !.mask = @ \ named]
                   [] OTHER -> f
  IN  FoldRight(Back, args, [mask |-> mask, found |-> FALSE]).found

------------------------------------------------------------------------------
Init ==
  /\ args \in UNION {[1..n -> Arg] : n \in 0..MaxArgs}
  /\ parsed = None /\ linked = None

(* The constructor of SanitizerArgs. *)
Parse ==
  /\ parsed = None
  /\ LET g == Gathered
         r == FoldLeft(Incompatible, [kinds |-> g.kinds, pairs |-> {}], IncompatibleGroups)
         lto == IF g.kinds \cap CFIKinds # {} /\ ~Has("lto") THEN {"lto"} ELSE {}
         unfit == IF Has("minimal-runtime")
                  THEN (r.kinds \ SetGroupBits(CompatibleWithMinimalRuntime))
                         \cup ((r.kinds \cap CFIKinds) \ TrappingKinds)
                  ELSE {}
     IN  parsed' = [kinds |-> r.kinds,
                    trap |-> TrappingKinds \cap r.kinds,
                    allAdded |-> g.allAdded,
                    coverage |-> "FuzzerNoLink" \in g.kinds,
                    errors |-> g.errors \cup lto \cup unfit,
                    pairs |-> r.pairs]
  /\ UNCHANGED <<args, linked>>

------------------------------------------------------------------------------
(* Linking *)

Enabled(kind) == kind \in parsed.kinds

(* What SanitizerArgs.h declares. *)
needsScudoRt == Enabled("Scudo")
needsLsanRt == Enabled("Leak") /\ ~Enabled("Address")
needsSafeStackRt == "SafeStack" \in parsed.allAdded

CfiCrossDso == Has("cfi-cross-dso")
RequiresMinimalRuntime == Has("minimal-runtime")

NonTrapping(mask) == (parsed.kinds \cap mask) \ parsed.trap # {}

needsCfiRt == ~NonTrapping(CFIKinds) /\ CfiCrossDso
needsCfiDiagRt == NonTrapping(CFIKinds) /\ CfiCrossDso

(* Mutant: scudo is taken to have ubsan in its minimal form too. *)
needsUbsanRt_Scudo ==
  /\ \A k \in {"Address", "Memory", "HWAddress", "Thread"} : ~Enabled(k)
  /\ ~needsLsanRt /\ ~needsCfiDiagRt
  /\ ~needsScudoRt
  /\ NonTrapping(NeedsUbsanRt) \/ parsed.coverage

(* All of these runtimes include ubsan. *)
needsUbsanRt ==
  /\ \A k \in {"Address", "Memory", "HWAddress", "Thread"} : ~Enabled(k)
  /\ ~needsLsanRt /\ ~needsCfiDiagRt
  /\ needsScudoRt => RequiresMinimalRuntime
  /\ NonTrapping(NeedsUbsanRt) \/ parsed.coverage

UbsanRt == IF RequiresMinimalRuntime THEN "ubsan_minimal" ELSE "ubsan_standalone"
ScudoRt == IF RequiresMinimalRuntime THEN "scudo_minimal" ELSE "scudo"

(* The runtimes with a DSO. *)
WithDSO ==
  If(Enabled("Address"), "asan") \cup If(needsUbsanRt, UbsanRt) \cup If(needsScudoRt, ScudoRt)
    \cup If(Enabled("Thread"), "tsan") \cup If(Enabled("HWAddress"), "hwasan")

(* collectSanitizerRuntimes, and the fuzzer of addSanitizerRuntimes: with    *)
(* shared the runtimes that have a DSO are linked as that, with output      *)
(* "library" nothing static is linked but the helpers.                     *)
SharedRuntimes(shared) == IF shared THEN WithDSO ELSE {}

Helpers(shared, output) ==
  If(Enabled("Address"), "asan_static")
    \cup If(shared /\ output = "executable" /\ Enabled("Address"), "asan-preinit")
    \cup If(shared /\ output = "executable" /\ Enabled("HWAddress"), "hwasan-preinit")

StaticRuntimes(shared, output) ==
  IF output = "library" THEN {}
  ELSE (IF shared THEN {} ELSE WithDSO)
         \cup If(needsLsanRt, "lsan") \cup If(Enabled("Memory"), "msan")
         \cup If(needsSafeStackRt, "safestack")
         \cup If(needsCfiRt /\ ~(shared /\ needsUbsanRt), "cfi")
         \cup If(needsCfiDiagRt /\ ~(shared /\ needsUbsanRt), "cfi_diag")
         \cup If(Enabled("Fuzzer"), "fuzzer")
         \cup If(Enabled("Fuzzer") /\ \A k \in {"Address", "Thread", "Memory"} : ~Enabled(k),
                 "fuzzer_interceptors")

Runtimes(shared, output) == SharedRuntimes(shared) \cup StaticRuntimes(shared, output)

(* addSanitizerRuntimes, unless there was an error. *)
Link(shared, output) ==
  /\ parsed # None /\ linked = None
  /\ parsed.errors = {} /\ parsed.pairs = {}
  /\ linked' = [shared |-> shared, output |-> output,
                runtimes |-> Runtimes(shared, output), helpers |-> Helpers(shared, output)]
  /\ UNCHANGED <<args, parsed>>

Next ==
  \/ Parse
  \/ \E shared \in BOOLEAN, output \in {"executable", "library"} : Link(shared, output)

Spec == Init /\ [][Next]_vars

------------------------------------------------------------------------------
(* Properties *)

Accepted == parsed # None /\ parsed.errors = {} /\ parsed.pairs = {}

(* The kinds the command line asks for, read from the first argument to the  *)
(* last, each of which overrides what was there before.                    *)
AskedFor ==
  LET Then(asked, a) ==
        CASE a.opt = "sanitize" -> asked \cup ExpandGroups({Named(a.value)})
          [] a.opt = "no-sanitize" -> asked \ ExpandGroups({Named(a.value)})
          [] OTHER -> asked
  IN  FoldLeft(Then, {}, args) \cap Kinds

(* The driver reads arguments from the last to the first, groups before      *)
(* their members and the other way round: an accepted command line enables  *)
(* what its arguments ask for in their order, but for what a group loses to *)
(* other arguments and to the target.  One that is refused for an           *)
(* incompatibility has arguments to name as its reason.                     *)
LastArgumentWins ==
  /\ Accepted =>
       (parsed.kinds \cap Kinds) \ {"FuzzerNoLink"} =
         AskedFor \ ({"FuzzerNoLink", "ObjectSize"} \cup Forbidden)
  /\ parsed # None =>
       \A pair \in parsed.pairs : FindsLastArgument(pair[1]) /\ FindsLastArgument(pair[2])

Serving(kind) ==
  CASE kind = "Address" -> {"asan"}
    [] kind = "HWAddress" -> {"hwasan"}
    [] kind = "Thread" -> {"tsan"}
    [] kind = "Memory" -> {"msan"}
    [] kind = "Leak" -> {"lsan", "asan"}
    [] kind = "Scudo" -> {"scudo", "scudo_minimal"}
    [] kind = "SafeStack" -> {"safestack"}
    [] kind = "Fuzzer" -> {"fuzzer"}
    [] kind \in NeedsUbsanRt ->
         {"asan", "msan", "hwasan", "tsan", "lsan", "cfi_diag", "scudo",
          "ubsan_standalone", "ubsan_minimal"}

(* The kinds that call a runtime: those of the kernel call the kernel's, and   *)
(* PointerCompare is an option of Address.                                 *)
Calling ==
  (parsed.kinds \cap Kinds)
    \ (parsed.trap \cup {"FuzzerNoLink", "ClusterTag", "PointerCompare", "MemTag",
                         "KernelAddress", "KernelHWAddress", "KernelMemory"})

(* An executable has a runtime for every sanitizer it is instrumented for,   *)
(* linked as an archive or as a DSO, and no two runtimes that both replace  *)
(* malloc: ClusterTag's is never linked with another one.                  *)
RuntimesFit ==
  linked # None /\ linked.output = "executable" =>
    /\ \A k \in Calling : Serving(k) \cap linked.runtimes # {}
    /\ Cardinality(linked.runtimes
                     \cap {"asan", "hwasan", "tsan", "msan", "scudo", "scudo_minimal"}) <= 1

(* "runtimes that exist only as static are not affected by needsSharedRt"    *)
(* (CommonArgs.cpp, in collectSanitizerRuntimes).                          *)
StaticOnlyUnaffected ==
  linked # None /\ linked.shared =>
    StaticRuntimes(FALSE, linked.output) \ WithDSO \subseteq linked.runtimes

==============================================================================
