----------------------------- MODULE ThreadLister -----------------------------
(***************************************************************************)
(* ThreadLister (sanitizer_linux.cpp), which lists the threads of a process *)
(* that has not been stopped, from the entries of /proc/<pid>/task.  Threads *)
(* start and exit at any moment, and the kernel may then end a read early,  *)
(* come to the wrong place in the next, or give an entry of a thread that is *)
(* gone; the lister has to know that its list may be incomplete.           *)
(* The kernel is modelled by what the comments of ListThreads say of it.    *)
(***************************************************************************)
EXTENDS Integers, Sequences, SequencesExt, FiniteSets, FiniteSetsExt

CONSTANTS
  MaxThreads,  \* bound: threads in the life of the process
  BufferSize,  \* entries in the buffer, at first
  Close,       \* a read with fewer entries than this left was close to the size
  MaxSize,     \* bound: entries in the buffer
  Rounds       \* bound: calls of ListThreads

VARIABLES
  alive,     \* the threads, numbered in the order in which they start
  born,      \* threads started so far
  lister,    \* where ListThreads is
  threads,   \* its list
  result,    \* its result
  capacity,  \* entries in buffer_
  read,      \* the entries that the read has given, with their inodes
  first,     \* first_read
  position,  \* of the directory, in entries
  saved,     \* the thread at which the next read goes on, or 0
  cursor,    \* the thread at which this read is, or 0
  witnesses, \* the threads that have lived since ListThreads began
  rounds     \* calls of ListThreads so far

vars == <<alive, born, lister, threads, result, capacity, read, first, position, saved,
          cursor, witnesses, rounds>>

listerVars == <<threads, result, capacity, first, rounds>>
kernelVars == <<read, position, saved, cursor>>

(* The thread that started the process leaves last.                        *)
Leader == 1

Init ==
  /\ alive = {Leader} /\ born = 1 /\ witnesses = {}
  /\ lister = "idle" /\ threads = <<>> /\ result = "Ok" /\ capacity = BufferSize
  /\ read = <<>> /\ first = TRUE /\ position = 0 /\ saved = 0 /\ cursor = 0
  /\ rounds = 0

StartThread ==
  /\ born < MaxThreads
  /\ born' = born + 1
  /\ alive' = alive \cup {born'}
  /\ UNCHANGED <<lister, listerVars, kernelVars, witnesses>>

ExitThread(t) ==
  /\ t \in alive \ {Leader}
  /\ alive' = alive \ {t}
  /\ witnesses' = witnesses \ {t}
  /\ UNCHANGED <<born, lister, listerVars, kernelVars>>

------------------------------------------------------------------------------
(* The kernel *)

(* The thread that started after t, if t is still alive.                   *)
NextThread(t) ==
  LET later == {u \in alive : u > t}
  IN  IF t \notin alive \/ later = {} THEN 0 ELSE Min(later)

(* Where a read goes on: at the thread it had to leave out, or as many      *)
(* threads on as it had given entries.                                     *)
Place ==
  IF saved \in alive THEN saved
  ELSE IF position < Cardinality(alive) THEN SetToSortSeq(alive, LAMBDA t, u : t < u)[position + 1]
  ELSE 0

(* getdents begins. *)
Getdents ==
  /\ lister = "read"
  /\ lister' = "kernel"
  /\ cursor' = Place
  /\ saved' = 0
  /\ read' = <<>>
  /\ UNCHANGED <<alive, born, listerVars, position, witnesses>>

(* An entry, whose inode is 1 for a thread that is gone.                    *)
GiveEntry ==
  /\ lister = "kernel" /\ cursor # 0 /\ Len(read) < capacity
  /\ read' = Append(read, [tid |-> cursor, ino |-> IF cursor \in alive THEN 2 ELSE 1])
  /\ position' = position + 1
  /\ lister' = "next"
  /\ UNCHANGED <<alive, born, listerVars, saved, cursor, witnesses>>

(* The next thread, which is none after one that is gone.                   *)
ToNext ==
  /\ lister = "next"
  /\ cursor' = NextThread(cursor)
  /\ lister' = "kernel"
  /\ UNCHANGED <<alive, born, listerVars, read, position, saved, witnesses>>

(* The end of the threads, or of the buffer.                                *)
EndRead ==
  /\ lister = "kernel" /\ (cursor = 0 \/ Len(read) = capacity)
  /\ saved' = cursor
  /\ lister' = "entries"
  /\ UNCHANGED <<alive, born, listerVars, read, position, cursor, witnesses>>

------------------------------------------------------------------------------
(* ListThreads *)

(* lseek and clear.  The directory may not have been opened.                *)
ListThreads ==
  /\ lister = "idle" /\ rounds < Rounds
  /\ rounds' = rounds + 1
  /\ threads' = <<>>
  /\ position' = 0 /\ saved' = 0
  /\ first' = TRUE
  /\ witnesses' = alive
  /\ \/ lister' = "read" /\ result' = "Ok"
     \/ lister' = "done" /\ result' = "Error"
  /\ UNCHANGED <<alive, born, capacity, read, cursor>>

(* getdents fails. *)
ReadError ==
  /\ lister = "read"
  /\ lister' = "done"
  /\ result' = "Error"
  /\ UNCHANGED <<alive, born, threads, capacity, first, rounds, kernelVars, witnesses>>

(* The entries of threads that were gone when they were listed.            *)
Goners == {e \in ToSet(read) : e.ino = 1}

(* IsAlive of the last thread listed, which reads its status. *)
IsAlive(t) == t \in alive

(* Mutant: the last of the threads listed is not asked for.                 *)
Doubtful_Full == ~first \/ Len(read) > capacity - Close

(* A read after the first, one close to the size of the buffer, and one that *)
(* ended with a thread that is gone may each have missed some.              *)
Doubtful ==
  \/ ~first
  \/ Len(read) > capacity - Close
  \/ threads' # <<>> /\ ~IsAlive(Last(threads'))

(* The entries of a read, and the buffer for the next.                      *)
TakeEntries ==
  /\ lister = "entries" /\ read # <<>>
  /\ threads' = threads \o [i \in DOMAIN read |-> read[i].tid]
  /\ result' = IF Doubtful \/ Goners # {} THEN "Incomplete" ELSE result
  /\ capacity' = IF first /\ Len(read) > capacity - Close /\ 2 * capacity <= MaxSize
                 THEN 2 * capacity ELSE capacity
  /\ first' = FALSE
  /\ lister' = "read"
  /\ UNCHANGED <<alive, born, rounds, kernelVars, witnesses>>

(* A read that gives nothing. *)
EndOfThreads ==
  /\ lister = "entries" /\ read = <<>>
  /\ lister' = "done"
  /\ UNCHANGED <<alive, born, listerVars, kernelVars, witnesses>>

Return ==
  /\ lister = "done"
  /\ lister' = "idle"
  /\ threads' = <<>> /\ result' = "Ok" /\ witnesses' = {} /\ first' = TRUE
  /\ position' = 0 /\ saved' = 0 /\ read' = <<>> /\ cursor' = 0
  /\ UNCHANGED <<alive, born, capacity, rounds>>

Next ==
  \/ StartThread \/ (\E t \in alive : ExitThread(t))
  \/ Getdents \/ GiveEntry \/ ToNext \/ EndRead
  \/ ListThreads \/ ReadError \/ TakeEntries \/ EndOfThreads \/ Return

Spec == Init /\ [][Next]_vars

------------------------------------------------------------------------------
(* A list that ListThreads calls Ok has every thread that lived all along,  *)
(* however the others started and exited between its reads; and no list has *)
(* what never was a thread.                                                *)
NoneMissed ==
  /\ (lister = "done" /\ result = "Ok") => witnesses \subseteq ToSet(threads)
  /\ ToSet(threads) \subseteq 1 .. born

==============================================================================
