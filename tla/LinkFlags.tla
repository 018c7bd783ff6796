------------------------------ MODULE LinkFlags ------------------------------
(***************************************************************************)
(* What is common to the tool chains that compile and link for a sanitizer  *)
(* (CommonArgs.cpp): whether code is position independent (ParsePICArgs),    *)
(* and which libraries of the compiler and for unwinding are linked         *)
(* (AddRunTimeLibs).  The tool chains themselves answer as they please.      *)
(***************************************************************************)
EXTENDS Integers, FiniteSetsExt, SequencesExt

CONSTANTS
  MaxOptions,   \* bound: the options of a command line
  None

VARIABLES
  line,     \* the options
  target,   \* the platform, and what its tool chain says
  pic,      \* what ParsePICArgs returns, and its errors
  libs      \* the arguments of the linker, and the errors

vars == <<line, target, pic, libs>>

Platforms ==
  {<<"linux", "x86_64">>, <<"linux", "arm">>, <<"linux", "mips64">>, <<"linux", "amdgcn">>,
   <<"android", "aarch64">>, <<"android", "x86_64">>, <<"openbsd", "x86_64">>,
   <<"openbsd", "ppc">>, <<"windows", "x86_64">>, <<"windows", "x86">>, <<"cygwin", "x86_64">>,
   <<"darwin", "x86_64">>, <<"ps4", "x86_64">>, <<"aix", "ppc">>}

PicOptions == {"PIC", "pic", "PIE", "pie", "no-pic"}
Options ==
  PicOptions \cup
  {"mkernel", "mcmodel-kernel", "mdynamic-no-pic", "ropi", "no-ropi", "rwpi", "static",
   "static-pie", "static-libgcc", "shared-libgcc", "mno-abicalls"}

Has(option) == option \in Range(line)
(* The last of some options, or None. *)
LastOf(options) ==
  LET at == {i \in DOMAIN line : line[i] \in options}
  IN  IF at = {} THEN None ELSE line[Max(at)]

Init ==
  /\ line \in UNION {[1..n -> Options] : n \in 0..MaxOptions}
  /\ target \in [platform : Platforms, pieDefault : BOOLEAN, picDefault : BOOLEAN,
                 forced : BOOLEAN]
  /\ pic = None /\ libs = None

os == target.platform[1]
arch == target.platform[2]

------------------------------------------------------------------------------
(* ParsePICArgs.  A mode is [pie, pic, two], two being IsPICLevelTwo.        *)

MachOStatic == os = "darwin" /\ Has("static")

(* What the tool chain and the platform start from. *)
Default ==
  LET pie == target.pieDefault /\ ~MachOStatic
      pic0 == (target.pieDefault \/ target.picDefault) /\ ~MachOStatic
  IN  [pie |-> pie,
       pic |-> pic0 \/ os = "android" \/ arch = "amdgcn",
       two |-> CASE os = "android" /\ arch = "x86_64" -> TRUE
                 [] os = "openbsd" -> arch = "ppc"
                 [] OTHER -> pic0]

LastPICArg == LastOf(PicOptions)

(* Mutant: a PIE option says nothing of PIC. *)
Chosen_PieOnly(mode) ==
  CASE target.forced \/ LastPICArg = None -> mode
    [] LastPICArg = "no-pic" -> [mode EXCEPT !.pie = FALSE, !.pic = os = "ps4" /\ ~Has("mcmodel-kernel")]
    [] OTHER -> [pie |-> LastPICArg \in {"PIE", "pie"},
                 pic |-> mode.pic \/ LastPICArg \in {"PIC", "pic"},
                 two |-> LastPICArg \in {"PIE", "PIC"}]

(* What the last option makes of it, where the tool chain lets it.           *)
Chosen(mode) ==
  CASE target.forced \/ LastPICArg = None -> mode
    [] ~target.forced /\ LastPICArg = "no-pic" ->
         [mode EXCEPT !.pie = FALSE, !.pic = os = "ps4" /\ ~Has("mcmodel-kernel")]
    [] OTHER -> [pie |-> LastPICArg \in {"PIE", "pie"}, pic |-> TRUE,
                 two |-> LastPICArg \in {"PIE", "PIC"}]

(* The level of Darwin and the PlayStations, and the kernel's trump-card.    *)
Platformed(mode) ==
  LET two == mode.two \/ (mode.pic /\ os \in {"darwin", "ps4"} /\ target.picDefault)
  IN  IF Has("mkernel") THEN [pie |-> FALSE, pic |-> FALSE, two |-> two]
      ELSE [mode EXCEPT !.two = two]

Ropi == LastOf({"ropi", "no-ropi"}) = "ropi"
Rwpi == Has("rwpi")

Model(mode) ==
  CASE mode.pic -> "PIC" [] ~mode.pic /\ Ropi /\ Rwpi -> "ROPI_RWPI"
    [] ~mode.pic /\ Ropi /\ ~Rwpi -> "ROPI" [] ~mode.pic /\ ~Ropi /\ Rwpi -> "RWPI"
    [] OTHER -> "Static"

Result(model, level, pie, errors) ==
  [model |-> model, level |-> level, pie |-> pie, errors |-> errors]

WindowsRefuses == os = "windows" /\ LastPICArg \in PicOptions \ {"no-pic"}

(* mips64 is the N64 ABI, whose default is PIC after all, at level 1.        *)
ModeOf ==
  LET mode == Platformed(Chosen(Default))
  IN  IF arch = "mips64" THEN [mode EXCEPT !.pic = TRUE, !.two = FALSE] ELSE mode

EmbeddedErrors ==
  LET mode == Platformed(Chosen(Default))
  IN  (IF (Ropi \/ Rwpi) /\ arch # "arm" THEN {"unsupported"} ELSE {})
        \cup (IF (Ropi \/ Rwpi) /\ (mode.pic \/ mode.pie) THEN {"ropi"} ELSE {})

ParsePICArgs ==
  /\ pic = None
  /\ pic' =
       IF WindowsRefuses
       THEN IF arch = "x86_64" THEN Result("PIC", 2, FALSE, {"unsupported"})
            ELSE Result("Static", 0, FALSE, {"unsupported"})
       ELSE IF Has("mdynamic-no-pic")
       THEN Result("DynamicNoPIC", IF target.picDefault /\ target.forced THEN 2 ELSE 0, FALSE,
                   IF os = "darwin" THEN {} ELSE {"unsupported"})
       ELSE IF arch = "mips64" /\ Has("mno-abicalls")
       THEN Result("Static", 0, FALSE, EmbeddedErrors)
       ELSE Result(Model(ModeOf),
                   CASE ~ModeOf.pic -> 0 [] ModeOf.pic /\ ModeOf.two -> 2 [] OTHER -> 1,
                   ModeOf.pic /\ ModeOf.pie, EmbeddedErrors)
  /\ UNCHANGED <<line, target, libs>>

------------------------------------------------------------------------------
(* AddRunTimeLibs, for a driver of C or C++ *)

LibGccType ==
  CASE os = "android" \/ \E o \in {"static-libgcc", "static", "static-pie"} : Has(o) -> "static"
    [] os # "android" /\ Has("shared-libgcc")
         /\ \A o \in {"static-libgcc", "static", "static-pie"} : ~Has(o) -> "shared"
    [] OTHER -> "unspecified"

Unwinder(unwind) ==
  CASE unwind = "libgcc" -> IF LibGccType = "static" THEN <<"gcc_eh">> ELSE <<"gcc_s">>
    [] unwind = "compiler-rt" /\ os = "aix" ->
         IF LibGccType = "static" THEN <<>> ELSE <<"unwind">>
    [] OTHER ->
         CASE LibGccType = "static" -> <<"libunwind.a">>
           [] LibGccType = "shared" -> IF os = "cygwin" THEN <<"libunwind.dll.a">>
                                       ELSE <<"libunwind.so">>
           [] OTHER -> <<"unwind">>

AddUnwindLibrary(unwind, cxx) ==
  LET asNeeded == /\ LibGccType = "unspecified"
                  /\ unwind = "compiler-rt" \/ ~cxx
                  /\ os \notin {"android", "cygwin", "aix"}
      library == Unwinder(unwind)
  IN  CASE unwind = "none" \/ (os = "android" /\ unwind = "libgcc") -> <<>>
        [] OTHER -> IF asNeeded THEN <<"--as-needed">> \o library \o <<"--no-as-needed">>
                    ELSE library

(* Mutant: libgcc comes first in every mode. *)
AddLibgcc_First(unwind, cxx) == <<"gcc">> \o AddUnwindLibrary(unwind, cxx)

(* libgcc before the unwinder, or behind it. *)
AddLibgcc(unwind, cxx) ==
  IF LibGccType = "static" \/ (LibGccType = "unspecified" /\ ~cxx)
  THEN <<"gcc">> \o AddUnwindLibrary(unwind, cxx)
  ELSE AddUnwindLibrary(unwind, cxx) \o <<"gcc">>

Libdl == IF os = "android" /\ ~Has("static") /\ ~Has("static-pie") THEN <<"dl">> ELSE <<>>

AddRunTimeLibs(rtlib, unwind, cxx) ==
  /\ libs = None
  /\ libs' =
       [rtlib |-> rtlib, unwind |-> unwind, cxx |-> cxx,
        args |-> (CASE rtlib = "compiler-rt" -> <<"builtins">> \o AddUnwindLibrary(unwind, cxx)
                    [] rtlib = "libgcc" /\ os = "windows" -> <<>>
                    [] OTHER -> AddLibgcc(unwind, cxx)) \o Libdl]
  /\ UNCHANGED <<line, target, pic>>

(* Bound: a tool chain that answers no to all stands for every one, where    *)
(* its answers are not asked for.                                          *)
Unsaid == ~target.pieDefault /\ ~target.picDefault /\ ~target.forced

Next ==
  \/ libs = None /\ ParsePICArgs
  \/ \E rtlib \in {"compiler-rt", "libgcc"}, unwind \in {"none", "libgcc", "compiler-rt"},
        cxx \in BOOLEAN : pic = None /\ Unsaid /\ AddRunTimeLibs(rtlib, unwind, cxx)

Spec == Init /\ [][Next]_vars

------------------------------------------------------------------------------
(* "The last argument relating to either PIC or PIE wins", and "any PIE       *)
(* option implicitly enables PIC at the same level" (ParsePICArgs), where    *)
(* neither the tool chain nor an option of another kind decides; code is     *)
(* PIE only if it is PIC, has a level only then, and is never both PIC and   *)
(* of the embedded kinds.                                                  *)
PicExact ==
  pic # None =>
    /\ pic.pie => pic.model = "PIC"
    /\ pic.model # "DynamicNoPIC" => (pic.level > 0 <=> pic.model = "PIC")
    /\ pic.model = "PIC" /\ pic.errors = {} => ~Ropi /\ ~Rwpi
    /\ target.platform = <<"linux", "x86_64">> /\ ~target.forced
         /\ ~Has("mkernel") /\ ~Has("mdynamic-no-pic") =>
         LET last == LastOf(PicOptions)
         IN  <<pic.level, pic.pie>> =
               CASE last = "PIC" -> <<2, FALSE>> [] last = "pic" -> <<1, FALSE>>
                 [] last = "PIE" -> <<2, TRUE>> [] last = "pie" -> <<1, TRUE>>
                 [] last = "no-pic" -> <<0, FALSE>>
                 [] OTHER -> <<IF target.pieDefault \/ target.picDefault THEN 2 ELSE 0,
                               target.pieDefault>>

(* The table above AddUnwindLibrary, of what gcc and g++ pass to the linker,  *)
(* holds on Linux; everywhere --as-needed ends with what it was meant for,   *)
(* and there is one library for unwinding at most.                         *)
LibsExact ==
  libs # None =>
    LET place(a) == {i \in DOMAIN libs.args : libs.args[i] = a}
        unwinders == {"gcc_s", "gcc_eh", "unwind", "libunwind.a", "libunwind.so",
                      "libunwind.dll.a"}
    IN  /\ {i + 2 : i \in place("--as-needed")} = place("--no-as-needed")
        /\ Cardinality(UNION {place(u) : u \in unwinders}) <= 1
        /\ os = "linux" /\ libs.rtlib = "libgcc" /\ libs.unwind = "libgcc" =>
             libs.args =
               CASE \E o \in {"static-libgcc", "static", "static-pie"} : Has(o) ->
                      <<"gcc", "gcc_eh">>
                 [] Has("shared-libgcc")
                      /\ \A o \in {"static-libgcc", "static", "static-pie"} : ~Has(o) ->
                      <<"gcc_s", "gcc">>
                 [] OTHER -> IF libs.cxx THEN <<"gcc_s", "gcc">>
                             ELSE <<"gcc", "--as-needed", "gcc_s", "--no-as-needed">>

==============================================================================
