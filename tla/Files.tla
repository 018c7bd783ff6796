--------------------------------- MODULE Files ---------------------------------
(***************************************************************************)
(* Descriptors of the runtime: OpenFile, whose files never get the standard *)
(* descriptors 0, 1 and 2 though the program may have closed those           *)
(* (ReserveStandardFds, sanitizer_posix.cpp), named mappings                *)
(* (GetNamedMappingFd) and GetRandom (sanitizer_linux.cpp).  Threads of the  *)
(* runtime and of the program open and close at the same time.             *)
(***************************************************************************)
EXTENDS Integers, FiniteSets, FiniteSetsExt

CONSTANTS
  Threads,
  MaxFd,   \* the largest descriptor that the process may have
  MaxKept, \* bound: descriptors of named mappings
  None

VARIABLES
  owner,    \* of each descriptor: a thread of the runtime, "program", "leaked" or None
  opening,  \* what each thread does: [at, fd, used, for]
  files,    \* the file each thread has open, or None
  noSyscall,\* skip_getrandom_syscall
  mistaken, \* whether a thread has closed what was not its own
  status    \* "runs", or "died" of a failed CHECK

vars == <<owner, opening, files, noSyscall, mistaken, status>>

Fds == 0 .. MaxFd
Standard == 0 .. 2
Idle == [at |-> "idle", fd |-> None, used |-> {}, for |-> None]

(* A process that starts with any of its standard descriptors closed.       *)
Init ==
  /\ \E open \in SUBSET Standard :
       owner = [f \in Fds |-> IF f \in open THEN "program" ELSE None]
  /\ opening = [t \in Threads |-> Idle]
  /\ files = [t \in Threads |-> None]
  /\ noSyscall = FALSE
  /\ mistaken = FALSE /\ status = "runs"

Free == {f \in Fds : owner[f] = None}

(* The kernel gives the lowest descriptor that is free.                     *)
NewFd == Min(Free)

ProgramOpens ==
  /\ Free # {}
  /\ owner' = [owner EXCEPT ![NewFd] = "program"]
  /\ UNCHANGED <<opening, files, noSyscall, mistaken, status>>

ProgramCloses(f) ==
  /\ owner[f] = "program"
  /\ owner' = [owner EXCEPT ![f] = None]
  /\ UNCHANGED <<opening, files, noSyscall, mistaken, status>>

Leaked == {f \in Fds : owner[f] = "leaked"}

(* internal_open, for OpenFile or for GetNamedMappingFd, which dies without  *)
(* a descriptor.                                                           *)
Open(t, for) ==
  /\ opening[t] = Idle /\ files[t] = None
  /\ for = "mapping" => Cardinality(Leaked) < MaxKept
  /\ \/ /\ Free # {}
        /\ owner' = [owner EXCEPT ![NewFd] = t]
        /\ opening' = [opening EXCEPT ![t] = [at |-> "reserve", fd |-> NewFd, used |-> {}, for |-> for]]
        /\ UNCHANGED status
     \/ /\ status' = IF for = "mapping" THEN "died" ELSE status
        /\ UNCHANGED <<owner, opening>>
  /\ UNCHANGED <<files, noSyscall, mistaken>>

(* Mutant: descriptor 2 is taken for one of the runtime's.                  *)
NeedsDup_Two(fd) == fd < 2

NeedsDup(fd) == fd <= 2

(* ReserveStandardFds: a standard descriptor is duplicated until the copy is *)
(* none.  Its loop does not ask whether dup failed: a process that may open  *)
(* no more files is not modelled.                                          *)
Dup(t) ==
  /\ opening[t].at = "reserve" /\ NeedsDup(opening[t].fd) /\ Free # {}
  /\ owner' = [owner EXCEPT ![NewFd] = t]
  /\ opening' = [opening EXCEPT ![t].fd = NewFd, ![t].used = @ \cup {opening[t].fd}]
  /\ UNCHANGED <<files, noSyscall, mistaken, status>>

Closed(f) == [owner EXCEPT ![f] = None]

(* Then those that were standard are closed.                                *)
CloseUsed(t) ==
  /\ opening[t].at = "reserve" /\ ~NeedsDup(opening[t].fd) /\ opening[t].used # {}
  /\ LET f == Min(opening[t].used)
     IN  /\ owner' = Closed(f)
         /\ mistaken' = (mistaken \/ owner[f] # t)
         /\ opening' = [opening EXCEPT ![t].used = @ \ {f}]
  /\ UNCHANGED <<files, noSyscall, status>>

(* OpenFile returns, or MmapNamed has mapped the file, which is unlinked and  *)
(* stays open.                                                             *)
Opened(t) ==
  /\ opening[t].at = "reserve" /\ ~NeedsDup(opening[t].fd) /\ opening[t].used = {}
  /\ IF opening[t].for = "file"
     THEN files' = [files EXCEPT ![t] = opening[t].fd] /\ UNCHANGED owner
     ELSE owner' = [owner EXCEPT ![opening[t].fd] = "leaked"] /\ UNCHANGED files
  /\ opening' = [opening EXCEPT ![t] = Idle]
  /\ UNCHANGED <<noSyscall, mistaken, status>>

CloseFile(t) ==
  /\ files[t] # None
  /\ owner' = Closed(files[t])
  /\ mistaken' = (mistaken \/ owner[files[t]] # t)
  /\ files' = [files EXCEPT ![t] = None]
  /\ UNCHANGED <<opening, noSyscall, status>>

------------------------------------------------------------------------------
(* GetRandom *)

(* What the system call answers: all the bytes, that it would have to wait,  *)
(* or that there is no such call, which is remembered.                     *)
GetRandom(t) ==
  /\ opening[t] = Idle
  /\ \E answer \in IF noSyscall THEN {"skipped"} ELSE {"length", "EAGAIN", "ENOSYS"} :
       /\ noSyscall' = (noSyscall \/ answer = "ENOSYS")
       /\ IF answer = "length" THEN UNCHANGED opening
          ELSE opening' = [opening EXCEPT ![t].at = "urandom"]
  /\ UNCHANGED <<owner, files, mistaken, status>>

(* The file /dev/urandom instead, which has no descriptor above 2 reserved.  *)
OpenUrandom(t) ==
  /\ opening[t].at = "urandom"
  /\ \/ /\ Free # {}
        /\ owner' = [owner EXCEPT ![NewFd] = t]
        /\ opening' = [opening EXCEPT ![t].at = "read", ![t].fd = NewFd]
     \/ opening' = [opening EXCEPT ![t] = Idle] /\ UNCHANGED owner
  /\ UNCHANGED <<files, noSyscall, mistaken, status>>

(* A read that fails leaves the file open.                                 *)
ReadUrandom(t) ==
  /\ opening[t].at = "read"
  /\ LET f == opening[t].fd
     IN  \/ /\ owner' = Closed(f)
            /\ mistaken' = (mistaken \/ owner[f] # t)
         \/ /\ Cardinality(Leaked) < MaxKept
            /\ owner' = [owner EXCEPT ![f] = "leaked"]
            /\ UNCHANGED mistaken
  /\ opening' = [opening EXCEPT ![t] = Idle]
  /\ UNCHANGED <<files, noSyscall, status>>

------------------------------------------------------------------------------
Next ==
  /\ status = "runs"
  /\ \/ ProgramOpens
     \/ \E f \in Fds : ProgramCloses(f)
     \/ \E t \in Threads :
          \/ \E for \in {"file", "mapping"} : Open(t, for)
          \/ Dup(t) \/ CloseUsed(t) \/ Opened(t) \/ CloseFile(t)
          \/ GetRandom(t) \/ OpenUrandom(t) \/ ReadUrandom(t)

Spec == Init /\ [][Next]_vars

------------------------------------------------------------------------------
(* However threads race for the descriptors that the program has closed, a   *)
(* file of the runtime is never 0, 1 or 2, each thread closes its own files  *)
(* only, and a thread that is in no call has none but the one it keeps.     *)
StandardFdsLeft ==
  /\ ~mistaken
  /\ \A t \in Threads : files[t] # None => files[t] \notin Standard /\ owner[files[t]] = t
  /\ \A t \in Threads : opening[t] = Idle => {f \in Fds : owner[f] = t} \subseteq {files[t]}

==============================================================================
