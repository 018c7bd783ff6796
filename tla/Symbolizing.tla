----------------------------- MODULE Symbolizing -----------------------------
(***************************************************************************)
(* Symbolizer::SymbolizePC and the external symbolizer it asks             *)
(* (sanitizer_symbolizer_libcdep.cpp): a process behind two pipes, which is *)
(* started when it is first needed and anew when a command fails, a limited *)
(* number of times.  It can die at any moment.                             *)
(*                                                                         *)
(* An answer is a number of pieces, of which a read gets those that have    *)
(* been written; the last one is the empty line.                           *)
(***************************************************************************)
EXTENDS Integers, Sequences

CONSTANTS
  Symbolizers,         \* the threads that symbolize
  kMaxTimesRestarted,
  Pieces,              \* of an answer
  MaxCommands,         \* bound: the commands that are sent
  None                 \* the holder of a free mutex

VARIABLES
  mu,              \* Symbolizer::mu_
  pc,              \* per thread
  command,         \* the command a thread has sent last
  commands,        \* history: how many there were
  timesRestarted,  \* times_restarted_
  failedToStart,   \* failed_to_start_
  fds,             \* input_fd_ and output_fd_: "invalid", "open" or "closed"
  buffer,          \* buffer_
  process          \* the external process and its pipes

vars == <<mu, pc, command, commands, timesRestarted, failedToStart, fds, buffer, process>>

(* done is how many pieces of the first command's answer are written. *)
NoProcess == [alive |-> FALSE, in |-> <<>>, out |-> <<>>, done |-> 0]

Init ==
  /\ mu = None
  /\ pc = [t \in Symbolizers |-> "idle"]
  /\ command = [t \in Symbolizers |-> 0]
  /\ commands = 0
  /\ timesRestarted = 0 /\ failedToStart = FALSE
  /\ fds = "invalid"
  /\ buffer = <<>>
  /\ process = NoProcess

At(t, l, m) == pc[t] = l /\ pc' = [pc EXCEPT ![t] = m]

------------------------------------------------------------------------------
(* Mutant: the mutex is not taken. *)
Locked_Not(t) == UNCHANGED mu

Locked(t) == mu = None /\ mu' = t

(* SymbolizePC takes mu_; the module of the address is found, and           *)
(* FormatAndSendCommand makes a command of it.                             *)
SymbolizePC(t) ==
  /\ commands < MaxCommands
  /\ At(t, "idle", "send")
  /\ Locked(t)
  /\ commands' = commands + 1
  /\ command' = [command EXCEPT ![t] = commands + 1]
  /\ UNCHANGED <<timesRestarted, failedToStart, fds, buffer, process>>

(* The thread has no answer, and nothing but the module to fill in. *)
NoAnswer(t, from) == At(t, from, "idle") /\ mu' = None

(* SendCommand *)
Refused(t) ==
  /\ failedToStart
  /\ NoAnswer(t, "send")
  /\ UNCHANGED <<command, commands, timesRestarted, failedToStart, fds, buffer, process>>

BeginSend(t) ==
  /\ ~failedToStart
  /\ At(t, "send", "loop")
  /\ UNCHANGED <<mu, command, commands, timesRestarted, failedToStart, fds, buffer, process>>

(* Its loop; SendCommandImpl looks at the descriptors first. *)
Loop(t) ==
  /\ timesRestarted < kMaxTimesRestarted
  /\ At(t, "loop", IF fds = "invalid" THEN "restart" ELSE "write")
  /\ UNCHANGED <<mu, command, commands, timesRestarted, failedToStart, fds, buffer, process>>

GiveUp(t) ==
  /\ timesRestarted >= kMaxTimesRestarted
  /\ NoAnswer(t, "loop")
  /\ failedToStart' = TRUE
  /\ UNCHANGED <<command, commands, timesRestarted, fds, buffer, process>>

(* WriteToSymbolizer.  A closed pipe is an error, as is one nobody reads:    *)
(* the code means the error of the write, not the signal.                  *)
CanWrite == fds = "open" /\ process.alive

Write(t) ==
  /\ \/ /\ CanWrite
        /\ At(t, "write", "read")
        /\ process' = [process EXCEPT !.in = Append(@, command[t])]
        /\ buffer' = <<>>
     \/ /\ ~CanWrite
        /\ At(t, "write", "restart")
        /\ UNCHANGED <<process, buffer>>
  /\ UNCHANGED <<mu, command, commands, timesRestarted, failedToStart, fds>>

ReachedEndOfOutput(b) == b # <<>> /\ b[Len(b)].piece = Pieces

(* A turn of ReadFromSymbolizer's loop that gets something. *)
Read(t) ==
  LET b == buffer \o process.out
  IN  /\ process.out # <<>>
      /\ buffer' = b
      /\ process' = [process EXCEPT !.out = <<>>]
      /\ At(t, "read", IF ReachedEndOfOutput(b) THEN "parse" ELSE "read")
      /\ UNCHANGED <<mu, command, commands, timesRestarted, failedToStart, fds>>

(* One that gets 0 bytes or an error.  The ret it sets is that of the loop's *)
(* body: the function returns its own, which is true.                      *)
ReadNothing(t) ==
  /\ ~process.alive /\ process.out = <<>>
  /\ At(t, "read", "parse")
  /\ UNCHANGED <<mu, command, commands, timesRestarted, failedToStart, fds, buffer, process>>

(* Mutant: restarts are not counted. *)
Counted_Not == timesRestarted

Counted == timesRestarted + 1

(* Restart, and times_restarted_++.  The old process finds its input closed  *)
(* and ends.  The start can fail, and leaves closed descriptors behind.     *)
Restart(t) ==
  /\ At(t, "restart", "loop")
  /\ timesRestarted' = Counted
  /\ \/ fds' = "open" /\ process' = [NoProcess EXCEPT !.alive = TRUE]
     \/ fds' = "closed" /\ process' = NoProcess
  /\ UNCHANGED <<mu, command, commands, failedToStart, buffer>>

(* ParseSymbolizePCOutput takes its frames out of buffer_, still under mu_.  *)
Parse(t) ==
  /\ NoAnswer(t, "parse")
  /\ UNCHANGED <<command, commands, timesRestarted, failedToStart, fds, buffer, process>>

------------------------------------------------------------------------------
(* The external process answers its commands one after the other. *)
Produce ==
  /\ process.alive /\ process.in # <<>>
  /\ LET c == Head(process.in)
         n == process.done + 1
     IN  process' =
           [process EXCEPT !.out = Append(@, [command |-> c, piece |-> n]),
                           !.in = IF n = Pieces THEN Tail(@) ELSE @,
                           !.done = n % Pieces]
  /\ UNCHANGED <<mu, pc, command, commands, timesRestarted, failedToStart, fds, buffer>>

(* It dies; what it has written can still be read. *)
Die ==
  /\ process.alive
  /\ process' = [process EXCEPT !.alive = FALSE, !.in = <<>>, !.done = 0]
  /\ UNCHANGED <<mu, pc, command, commands, timesRestarted, failedToStart, fds, buffer>>

------------------------------------------------------------------------------
Step(t) ==
  \/ Refused(t) \/ BeginSend(t) \/ Loop(t) \/ GiveUp(t)
  \/ Write(t) \/ Read(t) \/ ReadNothing(t)
  \/ Restart(t) \/ Parse(t)

Next ==
  \/ \E t \in Symbolizers : SymbolizePC(t) \/ Step(t)
  \/ Produce
  \/ Die

(* A thread that has sent a command goes on, and the external process       *)
(* answers or dies: there is no timeout for one that hangs.                 *)
Fairness ==
  /\ \A t \in Symbolizers : WF_vars(Step(t))
  /\ WF_vars(Produce \/ Die)

Spec == Init /\ [][Next]_vars
FairSpec == Spec /\ Fairness

------------------------------------------------------------------------------
(* Properties *)

(* What a thread parses answers the command it has sent, not one of another *)
(* thread or one that failed before: the pieces are in order, and a short   *)
(* answer is one whose process has died.                                   *)
AnswersOwn ==
  \A t \in Symbolizers :
    pc[t] = "parse" =>
      /\ \A i \in DOMAIN buffer : buffer[i] = [command |-> command[t], piece |-> i]
      /\ Len(buffer) # Pieces => ~process.alive

(* Every symbolization ends, however often the external process dies or     *)
(* does not start.                                                         *)
CommandsEnd == \A t \in Symbolizers : pc[t] # "idle" ~> pc[t] = "idle"

(* What is parsed is a whole answer, since "Empty line marks the end of     *)
(* llvm-symbolizer output" (sanitizer_symbolizer_libcdep.cpp:254): a command *)
(* without one has failed, and is sent again to a new process.             *)
AnswersWhole ==
  \A t \in Symbolizers : pc[t] = "parse" => ReachedEndOfOutput(buffer)

==============================================================================
