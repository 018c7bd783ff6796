--------------------------- MODULE SanitizerFlags ---------------------------
(***************************************************************************)
(* The rest of the constructor of SanitizerArgs, and addArgs: what may be   *)
(* recovered from, the kinds of coverage, the flags of single sanitizers,   *)
(* and what the compiler proper is told of them.  Of the flags that are     *)
(* read alike, one stands for all.                                         *)
(***************************************************************************)
EXTENDS SanitizerDriver

VARIABLES
  settled,   \* the flags of SanitizerArgs
  cc1        \* the arguments of the compiler proper

flagVars == <<vars, settled, cc1>>

(* Masks at the head of SanitizerArgs.cpp. *)
RequiresPIE == {"HWAddress", "Scudo"}
SupportsCoverage ==
  {"Address", "HWAddress", "KernelAddress", "KernelHWAddress", "MemTag", "Memory",
   "KernelMemory", "Leak", "Fuzzer", "FuzzerNoLink", "SafeStack", "Thread"} \cup UndefinedKinds
RecoverableByDefault == UndefinedKinds
Unrecoverable == {"Unreachable"}
AlwaysRecoverable == {"KernelAddress", "KernelHWAddress"}

(* enum CoverageFeature; features that are treated alike stand for another.  *)
InsertionPointTypes == {"func", "bb", "edge"}
InstrumentationTypes == {"trace-pc", "inline-8bit-counters"}
FuzzerFeatures == {"inline-8bit-counters", "indirect-calls", "pc-table", "stack-depth"}

FlagArg ==
  Arg \cup [opt : {"recover", "no-recover"}, value : {"undefined", "Unreachable", "KernelAddress"}]
      \cup [opt : {"coverage", "no-coverage"}, value : {"edge", "func", "trace-pc", "stack-depth"}]
      \cup [opt : {"coverage"}, value : {"legacy"}]
      \cup [opt : {"track-origins"}, value : {"none", "two", "three"}]
      \cup [opt : {"aliasing", "no-aliasing", "generalize-pointers", "no-use-after-scope"},
            value : {None}]
      \cup [opt : {"use-after-return"}, value : {"always", "invalid"}]
      \cup [opt : {"hwasan-abi"}, value : {"platform", "invalid"}]

(* Arg::hasFlag: the last of two arguments wins. *)
HasFlag(yes, no, default) ==
  LET at == {i \in DOMAIN args : args[i].opt \in {yes, no}}
  IN  IF at = {} THEN default ELSE args[Max(at)].opt = yes

(* The last value of an argument, or a default. *)
LastValue(opt, default) ==
  LET at == {i \in DOMAIN args : args[i].opt = opt}
  IN  IF at = {} THEN default ELSE args[Max(at)].value

FlagInit ==
  /\ args \in UNION {[1..n -> FlagArg] : n \in 0..MaxArgs}
  /\ parsed = None /\ linked = None /\ settled = None /\ cc1 = None

------------------------------------------------------------------------------
(* The loop over -fsanitize-recover= and its opposite.                       *)
Recovered(s, a) ==
  LET mask == ParseArgValues(a)
  IN  CASE a.opt = "recover" ->
             [kinds |-> s.kinds \cup ExpandGroups(mask),
              errors |-> s.errors \cup (mask \cap Unrecoverable)]
        [] a.opt = "no-recover" ->
             [kinds |-> s.kinds \ ExpandGroups(mask),
              errors |-> s.errors \cup (mask \cap AlwaysRecoverable)]
        [] OTHER -> s

Recover ==
  FoldLeft(Recovered, [kinds |-> RecoverableByDefault \cup AlwaysRecoverable, errors |-> {}], args)

(* Mutant: what traps can be recovered from. *)
RecoverableKinds_Trap == (Recover.kinds \cap parsed.kinds) \ Unrecoverable

RecoverableKinds == ((Recover.kinds \cap parsed.kinds) \ Unrecoverable) \ parsed.trap

(* Whether a sanitizer that does not support coverage is asked for.          *)
Unsupporting ==
  (parsed.allAdded \ Gathered.allRemove) \ SetGroupBits(SupportsCoverage) # {}

(* The loop over -fsanitize-coverage= and its opposite. *)
Covered(features, a) ==
  CASE a.opt = "coverage" /\ (a.value = "legacy" \/ Unsupporting) -> {}
    [] a.opt = "coverage" /\ a.value # "legacy" /\ ~Unsupporting -> features \cup {a.value}
    [] a.opt = "no-coverage" -> features \ {a.value}
    [] OTHER -> features

CoverageAsked == FoldLeft(Covered, IF parsed.coverage THEN FuzzerFeatures ELSE {}, args)

(* What tracing is inserted at when nothing is said. *)
Implied(features) ==
  IF features \cap InsertionPointTypes # {} THEN {}
  ELSE (IF features \cap InstrumentationTypes # {} THEN {"edge"} ELSE {})
         \cup (IF "stack-depth" \in features THEN {"func"} ELSE {})

Adds(kind) == kind \in parsed.allAdded
AddsCFI == parsed.allAdded \cap CFIKinds # {}

TrackOrigins ==
  LET value == LastValue("track-origins", "none")
  IN  CASE ~Adds("Memory") -> 0 [] value = "none" -> 0 [] value = "two" -> 2 [] OTHER -> 3

(* "Choose at most one coverage type", before a type is implied.             *)
CoverageErrors(features) ==
  IF Cardinality(features \cap InsertionPointTypes) > 1 THEN {"types"} ELSE {}

(* Pairs of pointers: pointer-compare stands for pointer-subtract as well.   *)
InvalidPointerPairs == (parsed.allAdded \cap {"PointerCompare"}) \ Gathered.allRemove

(* The flags of AddressSanitizer.  use-after-return stands for those with a  *)
(* value (field-padding, destructor), use-after-scope for those without.     *)
AddressFlags ==
  IF Adds("Address")
  THEN [useAfterScope |-> ~Has("no-use-after-scope"),
        useAfterReturn |-> LastValue("use-after-return", None),
        invalidPointerCmp |-> InvalidPointerPairs # {},
        errors |-> IF LastValue("use-after-return", None) = "invalid"
                   THEN {"use-after-return"} ELSE {}]
  ELSE [useAfterScope |-> FALSE, useAfterReturn |-> None, invalidPointerCmp |-> FALSE,
        errors |-> IF InvalidPointerPairs # {} THEN {"pointer pairs"} ELSE {}]

HwasanAbi == IF Adds("HWAddress") THEN LastValue("hwasan-abi", "interceptor") ELSE None

Settle ==
  /\ parsed # None /\ settled = None
  /\ LET features == CoverageAsked
         generalize == AddsCFI /\ Has("generalize-pointers")
     IN  settled' =
           [recoverable |-> RecoverableKinds,
            coverage |-> features \cup Implied(features),
            trackOrigins |-> TrackOrigins,
            paramRetval |-> Adds("Memory") \/ Adds("KernelMemory"),
            generalizePointers |-> generalize,
            canonicalJumpTables |-> AddsCFI,
            address |-> AddressFlags,
            hwasanAbi |-> HwasanAbi,
            useAliases |-> /\ Adds("HWAddress") /\ Arch = "x86_64"
                           /\ HasFlag("aliasing", "no-aliasing", FALSE),
            needPIE |-> (Adds("Memory") /\ Arch # "x86_64") \/ (AddsCFI /\ CfiCrossDso),
            errors |-> Recover.errors \cup CoverageErrors(features) \cup AddressFlags.errors
              \cup (IF TrackOrigins > 2 THEN {"origins"} ELSE {})
              \cup (IF HwasanAbi = "invalid" THEN {"hwasan-abi"} ELSE {})
              \cup (IF CfiCrossDso /\ generalize THEN {"pointers"} ELSE {})]
  /\ UNCHANGED <<vars, cc1>>

requiresPIE == settled.needPIE \/ parsed.kinds \cap RequiresPIE # {}

Given(condition, argument) == IF condition THEN {argument} ELSE {}

(* The arguments that are flags; these of coverage go without a sanitizer.   *)
FlagsGiven ==
  LET on(name) == name \in parsed.kinds
  IN  Given(settled.trackOrigins # 0, "memory-track-origins")
        \cup Given(settled.paramRetval, "memory-param-retval")
        \cup Given(CfiCrossDso, "cfi-cross-dso")
        \cup Given(settled.generalizePointers, "cfi-icall-generalize-pointers")
        \cup Given(settled.canonicalJumpTables, "cfi-canonical-jump-tables")
        \cup Given(RequiresMinimalRuntime, "minimal-runtime")
        \cup Given(settled.address.useAfterScope, "address-use-after-scope")
        \cup Given(settled.address.invalidPointerCmp, "detect-invalid-pointer-cmp")
        \cup Given(settled.address.useAfterReturn # None, "address-use-after-return")
        \cup Given(settled.hwasanAbi # None, "hwasan-abi")
        \cup Given(settled.useAliases, "hwasan-use-page-aliases")
        \cup Given(on("HWAddress") /\ ~settled.useAliases, "tagged-globals")
        \cup Given(on("Memory") \/ on("Address"), "no-assume-sane-operator-new")
        \cup Given(on("FuzzerNoLink"), "no-builtin")

(* What addArgs finds to be missing, there being no -fvisibility= and no     *)
(* target features.                                                        *)
Missing ==
  (IF parsed.kinds \cap CFIKinds # {} THEN {"visibility"} ELSE {})
    \cup (IF "MemTag" \in parsed.kinds THEN {"mte"} ELSE {})

(* addArgs *)
AddArgs ==
  /\ settled # None /\ cc1 = None
  /\ parsed.errors = {} /\ parsed.pairs = {} /\ settled.errors = {}
  /\ cc1' = [coverage |-> settled.coverage, sanitize |-> parsed.kinds \cap Kinds,
             recover |-> IF parsed.kinds = {} THEN {} ELSE settled.recoverable \cap Kinds,
             trap |-> parsed.trap \cap Kinds,
             pie |-> requiresPIE,
             flags |-> IF parsed.kinds = {} THEN {} ELSE FlagsGiven,
             errors |-> Missing]
  /\ UNCHANGED <<vars, settled>>

FlagNext == (Parse /\ UNCHANGED <<settled, cc1>>) \/ Settle \/ AddArgs

FlagSpec == FlagInit /\ [][FlagNext]_flagVars

------------------------------------------------------------------------------
(* Properties *)

(* The last argument of two kinds that names a kind, by itself or in a group. *)
LastSays(yes, no, kind, default) ==
  LET at == {i \in DOMAIN args :
               args[i].opt \in {yes, no} /\ kind \in ExpandGroups({Named(args[i].value)})}
  IN  IF at = {} THEN default ELSE args[Max(at)].opt = yes

(* The compiler recovers from exactly the checks that are enabled, do not     *)
(* trap, return to the program and are asked for by the last argument that   *)
(* names them, or by default; a check it traps for is enabled, and not one   *)
(* that it recovers from.                                                  *)
RecoverExact ==
  cc1 # None =>
    /\ cc1.recover =
         {k \in cc1.sanitize : k \notin cc1.trap \cup Unrecoverable
            /\ LastSays("recover", "no-recover", k, k \in UndefinedKinds \cup AlwaysRecoverable)}
    /\ cc1.trap \subseteq cc1.sanitize

(* A feature of coverage is there when the last argument about it says so,    *)
(* and one that traces has a place where it is inserted; an argument adds    *)
(* none while a sanitizer without support for it is enabled.  Left out are   *)
(* sanitizers that a command line both disables and enables: these are not   *)
(* looked at.                                                              *)
CoverageExact ==
  cc1 # None =>
    LET named(f) == {i \in DOMAIN args : args[i].opt \in {"coverage", "no-coverage"}
                                            /\ args[i].value \in {f, "legacy"}}
    IN  /\ cc1.coverage \cap InstrumentationTypes # {} =>
             cc1.coverage \cap InsertionPointTypes # {}
        /\ \A f \in {"trace-pc", "stack-depth"} :
             f \in cc1.coverage =>
               \/ named(f) = {} /\ f \in FuzzerFeatures /\ "FuzzerNoLink" \in cc1.sanitize
               \/ named(f) # {} /\ args[Max(named(f))] = [opt |-> "coverage", value |-> f]
        /\ Has("coverage") /\ cc1.coverage # {} =>
             cc1.sanitize \subseteq SupportsCoverage \cup Gathered.allRemove

(* What must be linked as PIE says so: hwasan and scudo always, msan on      *)
(* targets other than x86-64, and cfi across shared objects.                *)
PieExact ==
  cc1 # None =>
    (cc1.sanitize \cap {"HWAddress", "Scudo"} # {}
       \/ ("Memory" \in cc1.sanitize /\ Arch # "x86_64")
       \/ ("cfi-cross-dso" \in cc1.flags /\ cc1.sanitize \cap CFIKinds # {})
     => cc1.pie)

(* A flag of a sanitizer reaches the compiler only where an argument asks for *)
(* that sanitizer, with the last value given and a legal one; pointers are   *)
(* compared only with address, and then, if they are enabled, always.  Left  *)
(* out are kinds that a command line both disables and enables.             *)
FlagsExact ==
  cc1 # None =>
    LET asked(kind) == \E i \in DOMAIN args : args[i].opt = "sanitize"
                                             /\ kind \in ExpandGroups(ParseArgValues(args[i]))
        compares == "detect-invalid-pointer-cmp" \in cc1.flags
    IN  /\ cc1.flags \cap {"address-use-after-scope", "address-use-after-return",
                           "detect-invalid-pointer-cmp"} # {} => asked("Address")
        /\ "hwasan-abi" \in cc1.flags => asked("HWAddress")
        /\ LastValue("hwasan-abi", None) = "invalid" => ~asked("HWAddress")
        /\ "hwasan-use-page-aliases" \in cc1.flags => Arch = "x86_64"
        /\ compares => "PointerCompare" \in cc1.sanitize
        /\ "PointerCompare" \in cc1.sanitize \ Gathered.allRemove => compares

=============================================================================
