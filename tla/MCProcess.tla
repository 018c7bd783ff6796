------------------------------ MODULE MCProcess ------------------------------
(***************************************************************************)
(* TLC instances of what is around the allocator in a process: how it        *)
(* starts (Startup), its threads and forks (Threads) and the external       *)
(* symbolizer (Symbolizing).  They share no state: a behaviour is one of    *)
(* one of them.                                                            *)
(***************************************************************************)
EXTENDS Threads

CONSTANTS
  Symbolizers, kMaxTimesRestarted, Pieces, MaxCommands,
  AddressBits, ShadowScale, Page, BaseAlignment, ChunkSizes, HeaderSize, PoolSize, RealPage,
  StackSize, StackUse, EarlySizes, MaxBlocks, Characters

VARIABLES
  part,
  mu, symbolizerPc, command, commands, timesRestarted, failedToStart, fds, buffer, process,
  at, static, variable, options, flags, layout, tagged, thread, density, set, stack, classes,
  tagging, blocks, unset, status

symbolizerVars ==
  <<mu, symbolizerPc, command, commands, timesRestarted, failedToStart, fds, buffer, process>>
startVars ==
  <<at, static, variable, options, flags, layout, tagged, thread, density, set, stack, classes,
    tagging, blocks, unset, status>>

S == INSTANCE Symbolizing WITH pc <- symbolizerPc
U == INSTANCE Startup WITH PageSize <- Page

(* A part that is not taken begins in one state. *)
MCInit ==
  /\ part \in {"startup", "threads", "symbolizer"}
  /\ Init /\ S!Init
  /\ IF part = "startup" THEN U!Init
     ELSE /\ at = "before" /\ static = FALSE /\ variable = None
          /\ options = [disableTagging |-> FALSE, failWithoutAbi |-> FALSE]
          /\ flags = None /\ layout = None /\ tagged = None /\ thread = "none"
          /\ density = 0 /\ set = FALSE /\ stack = U!NoStack /\ classes = <<>>
          /\ tagging = FALSE /\ blocks = {} /\ unset = {} /\ status = "runs"

Starting == part = "startup" /\ U!Next /\ UNCHANGED <<part, vars, symbolizerVars>>
RunningThreads == part = "threads" /\ Next /\ UNCHANGED <<part, startVars, symbolizerVars>>
SymbolizingNow == part = "symbolizer" /\ S!Next /\ UNCHANGED <<part, startVars, vars>>

MCNext == Starting \/ RunningThreads \/ SymbolizingNow

(* No action of a part that is not taken is enabled under its fairness.     *)
MCSpec ==
  /\ MCInit /\ [][MCNext]_<<part, vars, symbolizerVars, startVars>>
  /\ Fairness /\ S!Fairness

(* See AnswersOwn in Symbolizing: a thread parses what answers its command.  *)
AnswersOwn == S!AnswersOwn
(* See CommandsEnd in Symbolizing: every symbolization ends.                *)
CommandsEnd == S!CommandsEnd
(* See InitOrder, LayoutExact, GeometryHolds and EarlyBlocksKnown in Startup: *)
(* no step of the initialisation uses what a later one sets, the shadow and  *)
(* the SuperPools fit where the system has room, and what is allocated      *)
(* meanwhile keeps its place.                                              *)
StartupExact ==
  part = "startup" =>
    U!InitOrder /\ U!LayoutExact /\ U!GeometryHolds /\ U!EarlyBlocksKnown

==============================================================================
