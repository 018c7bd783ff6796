---------------------------- MODULE ProcessProofs ----------------------------
(***************************************************************************)
(* Proofs about the modules that MCProcess puts together.                   *)
(*                                                                         *)
(* AliveToTheLast, of Threads, for every number of threads, of rounds and   *)
(* of locks: the count that HwasanTSDDtor keeps in the thread's value runs   *)
(* down with the rounds.  That is Counting, which makes Inv inductive.      *)
(*                                                                         *)
(* AnswersOwn, of Symbolizing, for every number of threads, pieces and      *)
(* restarts.  What is in the pipes and in buffer_ belongs to the thread that *)
(* holds mu_: between commands the pipes are empty, and while an answer is   *)
(* read buffer_ and the output pipe together are a beginning of it.         *)
(*                                                                         *)
(* StartupExact, of Startup, for every address space, shadow base, stack    *)
(* and size class map that StartConstants allows: InOrder says of each step  *)
(* of __hwasan_init what those before it have set.                          *)
(***************************************************************************)
EXTENDS MCProcess, Sequences, FiniteSets, TLAPS

------------------------------------------------------------------------------
(* Threads *)

Initial == {"init", "initTSD"}
Active == {"running", "before", "after"}
Label == Initial \cup Active \cup {"none", "destructors", "late"}

TypeOK ==
  /\ pc \in [Threads -> Label]
  /\ tsdInited \in BOOLEAN
  /\ current \in [Threads -> BOOLEAN]
  /\ tsd \in [Threads -> 0..Rounds]
  /\ round \in [Threads -> 0..Rounds]
  /\ ran \in [Threads -> BOOLEAN]

(* Until __hwasan_init is done there is only the first thread. *)
Beginning ==
  /\ tsdInited <=> pc[Main] \notin Initial
  /\ \A t \in Threads \ {Main} : pc[t] \notin Initial /\ (pc[t] # "none" => tsdInited)
  /\ pc[Main] = "initTSD" => current[Main]

(* A thread in its destructors has as many rounds of its own to go as the    *)
(* C library, and its Thread until there are none.                         *)
Counting(t) ==
  /\ pc[t] \in Active => current[t] /\ tsd[t] = Rounds
  /\ pc[t] = "destructors" =>
       /\ round[t] \in 1..Rounds
       /\ tsd[t] = (Rounds - round[t]) + (IF ran[t] THEN 0 ELSE 1)
       /\ current[t] <=> tsd[t] # 0
  /\ pc[t] \in {"late", "none"} => ~current[t]

Inv == TypeOK /\ Beginning /\ \A t \in Threads : Counting(t)

------------------------------------------------------------------------------
LEMMA InitInv == Init => Inv
<1> SUFFICES ASSUME Init PROVE Inv
  OBVIOUS
<1> USE ThreadsAssumption DEF Init
<1>1. TypeOK
  <2>1. 0 \in 0..Rounds
    OBVIOUS
  <2>2. pc \in [Threads -> Label]
    BY DEF Label, Initial, Active
  <2>3. tsdInited \in BOOLEAN /\ current \in [Threads -> BOOLEAN] /\ ran \in [Threads -> BOOLEAN]
    OBVIOUS
  <2>4. tsd \in [Threads -> 0..Rounds] /\ round \in [Threads -> 0..Rounds]
    BY <2>1
  <2> QED
    BY <2>2, <2>3, <2>4 DEF TypeOK
<1>2. Beginning
  BY DEF Beginning, Initial
<1>3. ASSUME NEW t \in Threads PROVE Counting(t)
  BY <1>3 DEF Counting, Active
<1> QED
  BY <1>1, <1>2, <1>3 DEF Inv

(* A step of thread t: what it must do to keep Inv. *)
LEMMA OneThread ==
  ASSUME Inv, NEW t \in Threads,
         TypeOK', tsdInited' = tsdInited,
         \A u \in Threads \ {t} :
           /\ pc'[u] = pc[u] /\ current'[u] = current[u] /\ tsd'[u] = tsd[u]
           /\ round'[u] = round[u] /\ ran'[u] = ran[u],
         pc[t] \notin Initial, pc'[t] \notin Initial, tsdInited,
         Counting(t)'
  PROVE  Inv'
<1>1. Beginning'
  <2>1. pc'[Main] \in Initial <=> pc[Main] \in Initial
    BY ThreadsAssumption
  <2>2. ~(pc'[Main] = "initTSD")
    BY ThreadsAssumption DEF Inv, Beginning, Initial
  <2>3. \A u \in Threads \ {Main} : pc'[u] \notin Initial
    BY DEF Inv, Beginning
  <2> QED
    BY <2>1, <2>2, <2>3 DEF Inv, Beginning
<1>2. ASSUME NEW u \in Threads PROVE Counting(u)'
  <2>1. CASE u = t
    BY <2>1
  <2>2. CASE u # t
    BY <2>2 DEF Inv, Counting
  <2> QED
    BY <2>1, <2>2
<1> QED
  BY <1>1, <1>2 DEF Inv

LEMMA Initialised ==
  ASSUME Inv, NEW t \in Threads, pc[t] \in Active \cup {"destructors", "late"}
  PROVE  tsdInited /\ pc[t] \notin Initial
BY ThreadsAssumption DEF Inv, Beginning, Active, Initial

------------------------------------------------------------------------------
LEMMA StepInv == Inv /\ [Next]_vars => Inv'
<1> SUFFICES ASSUME Inv, [Next]_vars PROVE Inv'
  OBVIOUS
<1> USE ThreadsAssumption
<1>1. CASE InitThreads
  BY <1>1 DEF InitThreads, At, ThreadInit, Inv, TypeOK, Beginning, Counting, Label, Initial, Active
<1>2. CASE InitTSD
  BY <1>2 DEF InitTSD, At, Inv, TypeOK, Beginning, Counting, Label, Initial, Active
<1>3. ASSUME NEW t \in Threads, Step(t) PROVE Inv'
  <2>1. CASE ThreadEnter(t)
    BY <2>1 DEF ThreadEnter, At, ThreadInit, Inv, TypeOK, Beginning, Counting, Label, Initial, Active
  <2>2. CASE GenerateTag(t)
    BY <2>2 DEF GenerateTag, Inv, TypeOK, Beginning, Counting
  <2>3. CASE Enter(t) \/ Leave(t)
    BY <2>3 DEF Enter, Leave, tsdVars, Inv, TypeOK, Beginning, Counting
  <2>4. CASE ThreadEnds(t)
    <3>1. TypeOK' /\ Counting(t)'
      BY <2>4 DEF ThreadEnds, At, Inv, TypeOK, Counting, Label, Active
    <3> QED
      BY <2>4, <3>1, OneThread, Initialised DEF ThreadEnds, At, Inv, TypeOK, Active, Initial
  <2>5. CASE TSDDtor(t)
    <3>1. pc[t] = "destructors" /\ tsd[t] \in 1..Rounds
      BY <2>5 DEF TSDDtor, Inv, TypeOK
    <3>2. Iterate(tsd[t]) = tsd[t] - 1
      BY <3>1 DEF Iterate
    <3>3. TypeOK'
      BY <2>5, <3>1, <3>2 DEF TSDDtor, Inv, TypeOK
    <3>4. Counting(t)'
      BY <2>5, <3>1, <3>2 DEF TSDDtor, Inv, TypeOK, Counting, Active
    <3> QED
      BY <2>5, <3>1, <3>3, <3>4, OneThread, Initialised DEF TSDDtor, Inv, TypeOK
  <2>6. CASE NextRound(t)
    <3>1. TypeOK' /\ Counting(t)'
      BY <2>6 DEF NextRound, Inv, TypeOK, Counting, Active
    <3> QED
      BY <2>6, <3>1, OneThread, Initialised DEF NextRound, Inv, TypeOK
  <2>7. CASE LastRound(t)
    <3>1. TypeOK' /\ Counting(t)'
      BY <2>7 DEF LastRound, At, tsdVars, Inv, TypeOK, Counting, Label, Active
    <3> QED
      BY <2>7, <3>1, OneThread, Initialised DEF LastRound, At, tsdVars, Inv, TypeOK, Initial
  <2>8. CASE ThreadGone(t)
    <3>1. TypeOK' /\ Counting(t)'
      BY <2>8 DEF ThreadGone, At, Inv, TypeOK, Counting, Label, Active
    <3> QED
      BY <2>8, <3>1, OneThread, Initialised DEF ThreadGone, At, Inv, TypeOK, Initial
  <2>9. CASE ForkBegins(t) \/ Fork(t) \/ ForkFails(t) \/ ForkEnds(t)
    <3>1. pc[t] \in Active /\ pc' \in [Threads -> Label] /\ pc'[t] \in Active
      BY <2>9 DEF ForkBegins, Fork, ForkFails, ForkEnds, At, Inv, TypeOK, Label, Active
    <3>2. UNCHANGED tsdVars /\ \A u \in Threads \ {t} : pc'[u] = pc[u]
      BY <2>9 DEF ForkBegins, Fork, ForkFails, ForkEnds, At, Inv, TypeOK
    <3>3. TypeOK' /\ Counting(t)'
      BY <3>1, <3>2 DEF tsdVars, Inv, TypeOK, Counting, Active
    <3> QED
      BY <3>1, <3>2, <3>3, OneThread, Initialised DEF tsdVars, Active, Initial
  <2>10. CASE TakeLock(t) \/ ReleaseLock(t)
    BY <2>10 DEF TakeLock, ReleaseLock, tsdVars, Inv, TypeOK, Beginning, Counting
  <2> QED
    BY <1>3, <2>1, <2>2, <2>3, <2>4, <2>5, <2>6, <2>7, <2>8, <2>9, <2>10 DEF Step
<1>4. CASE ChildReleases \/ ChildGoesOn \/ ChildExits
  BY <1>4 DEF ChildReleases, ChildGoesOn, ChildExits, vars, tsdVars, Inv, TypeOK, Beginning, Counting
<1>5. CASE UNCHANGED vars
  BY <1>5 DEF vars, tsdVars, Inv, TypeOK, Beginning, Counting
<1> QED
  BY <1>1, <1>2, <1>3, <1>4, <1>5 DEF Next

LEMMA InvAlive == Inv => AliveToTheLast
<1> SUFFICES ASSUME Inv, NEW t \in Threads
             PROVE  /\ pc[t] \in Active => current[t]
                    /\ pc[t] = "destructors" /\ round[t] < Rounds => current[t]
                    /\ pc[t] \in {"late", "none"} => ~current[t]
  BY DEF AliveToTheLast, Active
<1>1. ASSUME pc[t] = "destructors", round[t] < Rounds PROVE current[t]
  <2>1. tsd[t] # 0
    BY <1>1, ThreadsAssumption DEF Inv, TypeOK, Counting
  <2> QED
    BY <1>1, <2>1 DEF Inv, Counting
<1> QED
  BY <1>1 DEF Inv, Counting

(* Instrumented code has its thread until the last round of destructors, and *)
(* no thread outlives it, however many threads, rounds and forks there are. *)
THEOREM AliveToTheLastAlways == MCSpec => []AliveToTheLast
<1>1. MCInit => Inv
  BY InitInv DEF MCInit
<1>2. Inv /\ [MCNext]_<<part, vars, symbolizerVars, startVars>> => Inv'
  <2>1. [MCNext]_<<part, vars, symbolizerVars, startVars>> => [Next]_vars
    BY DEF MCNext, Starting, RunningThreads, SymbolizingNow
  <2> QED
    BY <2>1, StepInv
<1> QED
  BY <1>1, <1>2, InvAlive, PTL DEF MCSpec

------------------------------------------------------------------------------
(* The external symbolizer *)

(* What the constants are. *)
SymbolizingConstants == Pieces \in Nat \ {0} /\ None \notin Symbolizers

Piece == [command : Nat, piece : Nat]

SymbolizingTypes ==
  /\ mu \in Symbolizers \cup {None}
  /\ symbolizerPc \in [Symbolizers ->
               {"idle", "send", "loop", "write", "read", "restart", "parse"}]
  /\ command \in [Symbolizers -> Nat]
  /\ commands \in Nat
  /\ buffer \in Seq(Piece)
  /\ process \in [alive : BOOLEAN, in : Seq(Nat), out : Seq(Piece), done : Nat]

(* Only the holder of mu_ is symbolizing. *)
Exclusive == \A t \in Symbolizers : symbolizerPc[t] # "idle" <=> mu = t

(* The sequence s is the beginning of the answer to c. *)
Begins(s, c) ==
  Len(s) <= Pieces /\ \A i \in 1..Len(s) : s[i] = [command |-> c, piece |-> i]

Quiet == process.in = <<>> /\ process.out = <<>> /\ process.done = 0

(* An answer is being read. *)
Reading(t) ==
  LET n == Len(buffer) + Len(process.out)
  IN  /\ Begins(buffer \o process.out, command[t])
      /\ process.out = <<>> => Len(buffer) < Pieces
      /\ process.alive =>
           \/ n < Pieces /\ process.in = <<command[t]>> /\ process.done = n
           \/ n = Pieces /\ process.in = <<>> /\ process.done = 0
      /\ ~process.alive => process.in = <<>> /\ process.done = 0

Own ==
  \A t \in Symbolizers :
    /\ symbolizerPc[t] = "read" => Reading(t)
    /\ symbolizerPc[t] = "parse" =>
         Begins(buffer, command[t]) /\ (Len(buffer) # Pieces => ~process.alive)

SymbolizingInv ==
  /\ SymbolizingTypes /\ Exclusive /\ Own
  /\ (\A t \in Symbolizers : symbolizerPc[t] # "read") => Quiet

LEMMA InitSymbolizing == ASSUME SymbolizingConstants PROVE S!Init => SymbolizingInv
<1> SUFFICES ASSUME S!Init PROVE SymbolizingInv
  OBVIOUS
<1> USE DEF S!Init, S!NoProcess
<1>1. SymbolizingTypes
  <2>1. <<>> \in Seq(Piece) /\ <<>> \in Seq(Nat)
    OBVIOUS
  <2> QED
    BY <2>1 DEF SymbolizingTypes
<1>2. Exclusive
  BY DEF Exclusive, SymbolizingConstants
<1>3. Own /\ Quiet
  BY DEF Own, Quiet
<1> QED
  BY <1>1, <1>2, <1>3 DEF SymbolizingInv

(* A step of the holder that leaves the pipes and buffer_ alone, and neither *)
(* begins nor ends to read.                                                *)
LEMMA Elsewhere ==
  ASSUME SymbolizingConstants, SymbolizingInv, NEW t \in Symbolizers, SymbolizingTypes', Exclusive',
         \A u \in Symbolizers \ {t} : symbolizerPc'[u] = symbolizerPc[u],
         symbolizerPc[t] # "read", symbolizerPc'[t] \notin {"read", "parse"},
         mu = t \/ mu' = t,
         Quiet'
  PROVE  SymbolizingInv'
<1>1. ASSUME NEW u \in Symbolizers PROVE symbolizerPc'[u] \notin {"read", "parse"}
  BY <1>1 DEF SymbolizingInv, Exclusive
<1> QED
  BY <1>1 DEF SymbolizingInv, Own

LEMMA Wraps ==
  ASSUME NEW m \in Nat \ {0}, NEW k \in 1..m
  PROVE  k % m = IF k = m THEN 0 ELSE k
<1>1. k < m => k % m = k
  OBVIOUS
<1>2. m % m = 0
  OBVIOUS
<1> QED
  BY <1>1, <1>2

LEMMA OutEnds ==
  ASSUME SymbolizingConstants, NEW b \in Seq(Piece), NEW s \in Seq(Piece), NEW c \in Nat,
         Len(b) + Len(s) < Pieces, Begins(b \o s, c)
  PROVE  Begins(b \o Append(s, [command |-> c, piece |-> Len(b) + Len(s) + 1]), c)
<1> DEFINE p == [command |-> c, piece |-> Len(b) + Len(s) + 1]
<1>1. p \in Piece
  BY DEF Piece
<1>2. b \o Append(s, p) = Append(b \o s, p)
  BY <1>1
<1>3. /\ b \o s \in Seq(Piece) /\ Len(b \o s) = Len(b) + Len(s)
  OBVIOUS
<1>4. Len(Append(b \o s, p)) = Len(b) + Len(s) + 1
  BY <1>1, <1>3
<1>5. \A i \in 1..(Len(b) + Len(s)) : Append(b \o s, p)[i] = (b \o s)[i]
  BY <1>1, <1>3
<1>6. Append(b \o s, p)[Len(b) + Len(s) + 1] = p
  BY <1>1, <1>3
<1> HIDE DEF p
<1>7. \A i \in 1..(Len(b) + Len(s) + 1) :
        Append(b \o s, p)[i] = [command |-> c, piece |-> i]
  BY <1>3, <1>5, <1>6 DEF Begins, p
<1>8. Len(b) + Len(s) + 1 <= Pieces
  BY <1>3 DEF SymbolizingConstants
<1>9. Begins(Append(b \o s, p), c)
  BY <1>3, <1>4, <1>7, <1>8 DEF Begins
<1> QED
  BY <1>2, <1>9 DEF p

LEMMA StepSymbolizing ==
  ASSUME SymbolizingConstants
  PROVE  SymbolizingInv /\ [S!Next]_S!vars => SymbolizingInv'
<1> SUFFICES ASSUME SymbolizingInv, [S!Next]_S!vars PROVE SymbolizingInv'
  OBVIOUS
<1> USE DEF S!At
<1>1. ASSUME NEW t \in Symbolizers, S!SymbolizePC(t) PROVE SymbolizingInv'
  <2>1. SymbolizingTypes'
    BY <1>1 DEF S!SymbolizePC, S!Locked, SymbolizingInv, SymbolizingTypes
  <2>2. Exclusive'
    BY <1>1 DEF S!SymbolizePC, S!Locked, SymbolizingInv, SymbolizingTypes, Exclusive,
       SymbolizingConstants
  <2>3. Quiet'
    BY <1>1 DEF S!SymbolizePC, S!Locked, SymbolizingInv, Exclusive, Quiet, SymbolizingConstants
  <2> QED
    BY <1>1, <2>1, <2>2, <2>3, Elsewhere DEF S!SymbolizePC, S!Locked, SymbolizingInv,
       SymbolizingTypes
<1>2. ASSUME NEW t \in Symbolizers, S!Step(t) PROVE SymbolizingInv'
  <2>0. mu = t /\ \A u \in Symbolizers \ {t} : symbolizerPc[u] = "idle"
    <3>1. symbolizerPc[t] # "idle"
      BY <1>2 DEF S!Step, S!Refused, S!BeginSend, S!Loop, S!GiveUp, S!Write, S!Read, S!ReadNothing,
           S!Restart, S!Parse, S!NoAnswer
    <3> QED
      BY <3>1 DEF SymbolizingInv, Exclusive
  <2>1. CASE S!Refused(t) \/ S!GiveUp(t)
    <3>0. S!NoAnswer(t, symbolizerPc[t]) /\ symbolizerPc[t] \in {"send", "loop"}
      BY <2>1 DEF S!Refused, S!GiveUp, S!NoAnswer
    <3>1. SymbolizingTypes' /\ Exclusive' /\ Quiet'
      <4>1. UNCHANGED <<command, commands, buffer, process>>
        BY <2>1 DEF S!Refused, S!GiveUp
      <4>2. SymbolizingTypes'
        BY <3>0, <4>1 DEF S!NoAnswer, SymbolizingInv, SymbolizingTypes
      <4>3. Exclusive'
        BY <2>0, <3>0 DEF S!NoAnswer, SymbolizingInv, SymbolizingTypes, Exclusive,
           SymbolizingConstants
      <4>4. Quiet'
        BY <2>0, <3>0, <4>1 DEF SymbolizingInv, Quiet
      <4> QED
        BY <4>2, <4>3, <4>4
    <3> QED
      BY <2>0, <3>0, <3>1, Elsewhere DEF S!NoAnswer, SymbolizingInv, SymbolizingTypes
  <2>2. CASE S!BeginSend(t) \/ S!Loop(t)
    <3>1. SymbolizingTypes' /\ Exclusive' /\ Quiet'
      BY <2>0, <2>2 DEF S!BeginSend, S!Loop, SymbolizingInv, SymbolizingTypes, Exclusive,
         Quiet, SymbolizingConstants
    <3>2. symbolizerPc[t] \in {"send", "loop"}
      BY <2>2 DEF S!BeginSend, S!Loop
    <3>3. /\ symbolizerPc'[t] \in {"loop", "restart", "write"}
          /\ \A u \in Symbolizers \ {t} : symbolizerPc'[u] = symbolizerPc[u]
      BY <2>2 DEF S!BeginSend, S!Loop, SymbolizingInv, SymbolizingTypes
    <3> QED
      BY <2>0, <3>1, <3>2, <3>3, Elsewhere
  <2>3. CASE S!Restart(t)
    <3>1. Quiet'
      BY <2>3 DEF S!Restart, S!NoProcess, Quiet
    <3>2. process' \in [alive : BOOLEAN, in : Seq(Nat), out : Seq(Piece), done : Nat]
      <4>1. <<>> \in Seq(Piece) /\ <<>> \in Seq(Nat)
        OBVIOUS
      <4>2. CASE process' = S!NoProcess
        BY <4>1, <4>2 DEF S!NoProcess
      <4>3. CASE process' = [S!NoProcess EXCEPT !.alive = TRUE]
        <5>1. process' = [alive |-> TRUE, in |-> <<>>, out |-> <<>>, done |-> 0]
          BY <4>3 DEF S!NoProcess
        <5> QED
          BY <4>1, <5>1
      <4> QED
        BY <2>3, <4>2, <4>3 DEF S!Restart
    <3>3. SymbolizingTypes'
      BY <2>3, <3>2 DEF S!Restart, SymbolizingInv, SymbolizingTypes
    <3>4. Exclusive'
      BY <2>0, <2>3 DEF S!Restart, SymbolizingInv, SymbolizingTypes, Exclusive
    <3> QED
      BY <2>0, <2>3, <3>1, <3>3, <3>4, Elsewhere DEF S!Restart, SymbolizingInv, SymbolizingTypes
  <2>4. CASE S!Write(t)
    <3>1. symbolizerPc[t] = "write" /\ Quiet
      BY <2>0, <2>4 DEF S!Write, SymbolizingInv
    <3>2. CASE S!CanWrite
      <4>1. /\ symbolizerPc' = [symbolizerPc EXCEPT ![t] = "read"] /\ buffer' = <<>>
            /\ process' = [process EXCEPT !.in = Append(@, command[t])]
            /\ UNCHANGED <<mu, command, commands>>
        BY <2>4, <3>2 DEF S!Write
      <4>2. SymbolizingTypes' /\ Exclusive'
        <5>1. <<>> \in Seq(Piece) /\ Append(process.in, command[t]) \in Seq(Nat)
          BY DEF SymbolizingInv, SymbolizingTypes
        <5>2. SymbolizingTypes'
          BY <4>1, <5>1 DEF SymbolizingInv, SymbolizingTypes
        <5>3. Exclusive'
          BY <2>0, <4>1 DEF SymbolizingInv, SymbolizingTypes, Exclusive
        <5> QED
          BY <5>2, <5>3
      <4>3. /\ process'.in = <<command[t]>> /\ process'.out = <<>>
            /\ process'.done = 0 /\ process'.alive
        BY <3>1, <3>2, <4>1 DEF S!CanWrite, Quiet, SymbolizingInv, SymbolizingTypes
      <4>4. buffer' \o process'.out = <<>> /\ Len(buffer') = 0 /\ Len(process'.out) = 0
        BY <4>1, <4>3
      <4>5. Reading(t)'
        BY <4>1, <4>3, <4>4 DEF Reading, Begins, SymbolizingConstants
      <4>6. symbolizerPc'[t] = "read" /\ \A u \in Symbolizers \ {t} : symbolizerPc'[u] = "idle"
        BY <2>0, <4>1 DEF SymbolizingInv, SymbolizingTypes
      <4> QED
        BY <4>2, <4>5, <4>6 DEF SymbolizingInv, Own
    <3>3. CASE ~S!CanWrite
      <4>1. SymbolizingTypes' /\ Exclusive' /\ Quiet'
        BY <2>0, <2>4, <3>1, <3>3 DEF S!Write, SymbolizingInv, SymbolizingTypes, Exclusive,
           Quiet, SymbolizingConstants
      <4> QED
        BY <2>0, <2>4, <3>3, <4>1, Elsewhere DEF S!Write, SymbolizingInv, SymbolizingTypes
    <3> QED
      BY <3>2, <3>3
  <2>5. CASE S!Read(t)
    <3> DEFINE b == buffer \o process.out
    <3>1. Reading(t) /\ symbolizerPc[t] = "read" /\ process.out # <<>>
      BY <2>5 DEF S!Read, SymbolizingInv, Own
    <3>2. b \in Seq(Piece) /\ Len(b) = Len(buffer) + Len(process.out) /\ Len(b) # 0
      BY <3>1 DEF SymbolizingInv, SymbolizingTypes
    <3>3. Begins(b, command[t]) /\ Len(b) <= Pieces
      BY <3>1 DEF Reading, Begins
    <3>4. S!ReachedEndOfOutput(b) <=> Len(b) = Pieces
      <4>1. b[Len(b)].piece = Len(b) /\ b # <<>>
        <5> HIDE DEF b
        <5>1. Len(b) \in 1..Len(b) /\ b # <<>>
          BY <3>2
        <5>2. b[Len(b)] = [command |-> command[t], piece |-> Len(b)]
          BY <3>3, <5>1 DEF Begins
        <5> QED
          BY <5>1, <5>2
      <4> QED
        BY <4>1 DEF S!ReachedEndOfOutput
    <3> HIDE DEF b
    <3>5. /\ symbolizerPc' = [symbolizerPc EXCEPT ![t] =
                IF Len(b) = Pieces THEN "parse" ELSE "read"]
          /\ buffer' = b /\ process' = [process EXCEPT !.out = <<>>]
          /\ UNCHANGED <<mu, command, commands>>
      BY <2>5, <3>4 DEF S!Read, b
    <3>6. SymbolizingTypes' /\ Exclusive'
      <4>1. process' \in [alive : BOOLEAN, in : Seq(Nat), out : Seq(Piece), done : Nat]
        <5>1. <<>> \in Seq(Piece)
          OBVIOUS
        <5> QED
          BY <3>5, <5>1 DEF SymbolizingInv, SymbolizingTypes
      <4>2. SymbolizingTypes'
        BY <3>2, <3>5, <4>1 DEF SymbolizingInv, SymbolizingTypes
      <4>3. Exclusive'
        BY <2>0, <3>1, <3>5 DEF SymbolizingInv, SymbolizingTypes, Exclusive
      <4> QED
        BY <4>2, <4>3
    <3>7. /\ process'.out = <<>> /\ process'.in = process.in
          /\ process'.done = process.done /\ process'.alive = process.alive
      BY <3>5 DEF SymbolizingInv, SymbolizingTypes
    <3>8. \A u \in Symbolizers \ {t} : symbolizerPc'[u] = "idle"
      BY <2>0, <3>5 DEF SymbolizingInv, SymbolizingTypes
    <3>9. CASE Len(b) = Pieces
      <4>1. symbolizerPc'[t] = "parse"
        BY <3>5, <3>9 DEF SymbolizingInv, SymbolizingTypes
      <4>2. Quiet'
        BY <3>1, <3>2, <3>7, <3>9 DEF Reading, Quiet, SymbolizingConstants, SymbolizingInv,
           SymbolizingTypes
      <4>3. Begins(buffer, command[t])' /\ Len(buffer') = Pieces
        BY <3>3, <3>5, <3>9 DEF Begins
      <4> QED
        BY <3>6, <3>8, <4>1, <4>2, <4>3 DEF SymbolizingInv, Own
    <3>10. CASE Len(b) # Pieces
      <4>1. symbolizerPc'[t] = "read"
        BY <3>5, <3>10 DEF SymbolizingInv, SymbolizingTypes
      <4>2. buffer' \o process'.out = b /\ Len(process'.out) = 0 /\ Len(buffer') = Len(b)
        BY <3>2, <3>5, <3>7
      <4>3. Len(b) < Pieces
        BY <3>2, <3>3, <3>10 DEF SymbolizingConstants
      <4>4. Begins(buffer \o process.out, command[t])'
        BY <3>3, <3>5, <4>2 DEF Begins
      <4>5. Reading(t)'
        BY <3>1, <3>2, <3>5, <3>7, <4>2, <4>3, <4>4 DEF Reading, SymbolizingInv,
           SymbolizingTypes, SymbolizingConstants
      <4> QED
        BY <3>6, <3>8, <4>1, <4>5 DEF SymbolizingInv, Own
    <3> QED
      BY <3>9, <3>10
  <2>6. CASE S!ReadNothing(t)
    <3>1. Reading(t) /\ symbolizerPc[t] = "read" /\ process.out = <<>> /\ ~process.alive
      BY <2>6 DEF S!ReadNothing, SymbolizingInv, Own
    <3>2. Quiet' /\ ~process'.alive
      BY <2>6, <3>1 DEF S!ReadNothing, Reading, Quiet
    <3>3. Begins(buffer, command[t])'
      <4>1. buffer \o process.out = buffer
        BY <3>1 DEF SymbolizingInv, SymbolizingTypes
      <4> QED
        BY <2>6, <3>1, <4>1 DEF S!ReadNothing, Reading, Begins
    <3>4. SymbolizingTypes' /\ Exclusive'
      BY <2>0, <2>6 DEF S!ReadNothing, SymbolizingInv, SymbolizingTypes, Exclusive
    <3>5. symbolizerPc'[t] = "parse" /\ \A u \in Symbolizers \ {t} : symbolizerPc'[u] = "idle"
      BY <2>0, <2>6 DEF S!ReadNothing, SymbolizingInv, SymbolizingTypes
    <3> QED
      BY <3>2, <3>3, <3>4, <3>5 DEF SymbolizingInv, Own
  <2>7. CASE S!Parse(t)
    <3>1. SymbolizingTypes' /\ Exclusive' /\ Quiet'
      BY <2>0, <2>7 DEF S!Parse, S!NoAnswer, SymbolizingInv, SymbolizingTypes, Exclusive,
         Quiet, SymbolizingConstants
    <3> QED
      BY <2>0, <2>7, <3>1, Elsewhere DEF S!Parse, S!NoAnswer, SymbolizingInv, SymbolizingTypes
  <2> QED
    BY <1>2, <2>1, <2>2, <2>3, <2>4, <2>5, <2>6, <2>7 DEF S!Step
<1>3. CASE S!Produce
  <2> DEFINE c == Head(process.in)
             n == process.done + 1
             p == [command |-> c, piece |-> n]
  <2>1. /\ process.alive /\ process.in # <<>>
        /\ process' = [process EXCEPT !.out = Append(@, p),
                                      !.in = IF n = Pieces THEN Tail(@) ELSE @,
                                      !.done = n % Pieces]
        /\ UNCHANGED <<mu, symbolizerPc, command, commands, buffer>>
    BY <1>3 DEF S!Produce
  <2>2. PICK t \in Symbolizers : symbolizerPc[t] = "read"
    BY <2>1 DEF SymbolizingInv, Quiet
  <2>3. Reading(t) /\ \A u \in Symbolizers \ {t} : symbolizerPc[u] = "idle"
    BY <2>2 DEF SymbolizingInv, Own, Exclusive
  <2>4. /\ process.in = <<command[t]>> /\ c = command[t] /\ c \in Nat
        /\ process.done = Len(buffer) + Len(process.out) /\ process.done < Pieces
    <3>1. command[t] \in Nat
      BY DEF SymbolizingInv, SymbolizingTypes
    <3> QED
      BY <2>1, <2>3, <3>1 DEF Reading
  <2>5. p \in Piece /\ n \in Nat
    BY <2>4 DEF Piece, SymbolizingInv, SymbolizingTypes
  <2>6. /\ process'.out = Append(process.out, p) /\ process'.alive
        /\ process'.in = (IF n = Pieces THEN <<>> ELSE <<c>>)
        /\ process'.done = (IF n = Pieces THEN 0 ELSE n)
    <3>1. n % Pieces = (IF n = Pieces THEN 0 ELSE n)
      <4>1. n \in 1..Pieces /\ Pieces \in Nat \ {0}
        BY <2>4, <2>5 DEF SymbolizingConstants, SymbolizingInv, SymbolizingTypes
      <4> HIDE DEF n
      <4> QED
        BY <4>1, Wraps
    <3>2. Tail(process.in) = <<>>
      BY <2>4
    <3> QED
      BY <2>1, <2>4, <3>1, <3>2 DEF SymbolizingInv, SymbolizingTypes
  <2>7. SymbolizingTypes'
    <3>1. process' \in [alive : BOOLEAN, in : Seq(Nat), out : Seq(Piece), done : Nat]
      <4> HIDE DEF p, n, c
      <4>1. Append(process.out, p) \in Seq(Piece) /\ <<>> \in Seq(Nat) /\ <<c>> \in Seq(Nat)
        BY <2>4, <2>5 DEF SymbolizingInv, SymbolizingTypes
      <4>2. process' = [alive |-> process'.alive, in |-> process'.in,
                        out |-> process'.out, done |-> process'.done]
        BY <2>1 DEF SymbolizingInv, SymbolizingTypes
      <4>3. process'.done \in Nat /\ process'.in \in Seq(Nat)
        BY <2>5, <2>6, <4>1
      <4>4. process'.out \in Seq(Piece) /\ process'.alive = TRUE
        <5>1. process'.alive \in BOOLEAN
          BY <2>1 DEF SymbolizingInv, SymbolizingTypes
        <5> QED
          BY <2>6, <4>1, <5>1
      <4> QED
        BY <4>2, <4>3, <4>4
    <3> QED
      BY <2>1, <3>1 DEF SymbolizingInv, SymbolizingTypes
  <2>8. Begins(buffer \o process.out, command[t])'
    <3>1. n = Len(buffer) + Len(process.out) + 1
      BY <2>4
    <3>2. Begins(buffer \o process.out, c) /\ Len(buffer) + Len(process.out) < Pieces
      BY <2>3, <2>4 DEF Reading
    <3>3. buffer \in Seq(Piece) /\ process.out \in Seq(Piece)
      BY DEF SymbolizingInv, SymbolizingTypes
    <3>4. Begins(buffer \o Append(process.out, p), c)
      BY <2>4, <3>1, <3>2, <3>3, OutEnds
    <3> QED
      BY <2>1, <2>4, <2>6, <3>4 DEF Begins
  <2>9. Len(process'.out) = Len(process.out) + 1 /\ process'.out # <<>>
    <3> HIDE DEF p
    <3>1. process.out \in Seq(Piece)
      BY DEF SymbolizingInv, SymbolizingTypes
    <3>2. Len(Append(process.out, p)) = Len(process.out) + 1 /\ Append(process.out, p) # <<>>
      BY <2>5, <3>1
    <3> QED
      BY <2>6, <3>2
  <2> HIDE DEF c, n, p
  <2>10. Reading(t)'
    <3>1. n = Len(buffer) + Len(process.out) + 1
      BY <2>4 DEF n
    <3>2. Len(buffer') + Len(process'.out) = n
      BY <2>1, <2>9, <3>1 DEF SymbolizingInv, SymbolizingTypes
    <3> QED
      <4>1. n <= Pieces /\ (n # Pieces => n < Pieces)
        <5>1. process.done \in Nat /\ Pieces \in Nat /\ process.done < Pieces
          BY <2>4 DEF SymbolizingConstants, SymbolizingInv, SymbolizingTypes
        <5> QED
          BY <5>1 DEF n
      <4>2. command'[t] = c /\ process'.in = (IF n = Pieces THEN <<>> ELSE <<command'[t]>>)
        BY <2>1, <2>4, <2>6
      <4> QED
        BY <2>6, <2>8, <2>9, <3>2, <4>1, <4>2 DEF Reading
  <2> QED
    BY <2>1, <2>2, <2>3, <2>7, <2>10 DEF SymbolizingInv, Own, Exclusive
<1>4. CASE S!Die
  <2>1. /\ process' = [process EXCEPT !.alive = FALSE, !.in = <<>>, !.done = 0]
        /\ UNCHANGED <<mu, symbolizerPc, command, commands, buffer>>
    BY <1>4 DEF S!Die
  <2>2. /\ process'.out = process.out /\ ~process'.alive
        /\ process'.in = <<>> /\ process'.done = 0
    BY <2>1 DEF SymbolizingInv, SymbolizingTypes
  <2>3. SymbolizingTypes' /\ Exclusive'
    <3>1. <<>> \in Seq(Nat)
      OBVIOUS
    <3>2. SymbolizingTypes'
      BY <2>1, <3>1 DEF SymbolizingInv, SymbolizingTypes
    <3>3. Exclusive'
      BY <2>1 DEF SymbolizingInv, Exclusive
    <3> QED
      BY <3>2, <3>3
  <2>4. ASSUME NEW t \in Symbolizers PROVE Reading(t) => Reading(t)'
    BY <2>1, <2>2, <2>4 DEF Reading, Begins
  <2>5. Own'
    BY <2>1, <2>2, <2>4 DEF SymbolizingInv, Own, Begins
  <2>6. Quiet => Quiet'
    BY <2>2 DEF Quiet
  <2> QED
    BY <2>1, <2>3, <2>5, <2>6 DEF SymbolizingInv
<1>5. CASE UNCHANGED S!vars
  BY <1>5 DEF S!vars, SymbolizingInv, SymbolizingTypes, Exclusive, Own, Quiet, Reading, Begins
<1> QED
  BY <1>1, <1>2, <1>3, <1>4, <1>5 DEF S!Next

LEMMA InvOwn == ASSUME SymbolizingConstants PROVE SymbolizingInv => S!AnswersOwn
<1> SUFFICES ASSUME SymbolizingInv, NEW t \in Symbolizers, symbolizerPc[t] = "parse"
             PROVE  /\ \A i \in DOMAIN buffer :
                         buffer[i] = [command |-> command[t], piece |-> i]
                    /\ Len(buffer) # Pieces => ~process.alive
  BY DEF S!AnswersOwn
<1>1. DOMAIN buffer = 1..Len(buffer)
  BY DEF SymbolizingInv, SymbolizingTypes
<1> QED
  BY <1>1 DEF SymbolizingInv, Own, Begins

(* A thread parses the answer to its own command, and a whole one unless the *)
(* process has died, for any number of threads, restarts and pieces.        *)
THEOREM AnswersOwnAlways ==
  ASSUME SymbolizingConstants PROVE MCSpec => []AnswersOwn
<1>1. MCInit => SymbolizingInv
  BY InitSymbolizing DEF MCInit
<1>2. SymbolizingInv /\ [MCNext]_<<part, vars, symbolizerVars, startVars>> => SymbolizingInv'
  <2>1. [MCNext]_<<part, vars, symbolizerVars, startVars>> => [S!Next]_S!vars
    BY DEF MCNext, Starting, RunningThreads, SymbolizingNow, symbolizerVars, S!vars
  <2> QED
    BY <2>1, StepSymbolizing
<1>3. SymbolizingInv => AnswersOwn
  BY InvOwn DEF AnswersOwn
<1> QED
  BY <1>1, <1>2, <1>3, PTL DEF MCSpec

------------------------------------------------------------------------------
(* The initialisation                                                      *)
(*                                                                         *)
(* What the code's constants have to each other, on which the layout of the *)
(* shadow and the geometry of the SuperPools rest: a page holds whole        *)
(* granules of shadow, kShadowBaseAlignment more than a page; a region of    *)
(* every class has room for its header, a pool for a region, and what two    *)
(* pages hold of the smallest chunks leaves room in a batch.                *)

Granule == 2 ^ ShadowScale
BaseUnit == 2 ^ BaseAlignment

NoFlags == [disableTagging |-> FALSE, failWithoutAbi |-> FALSE]

LayoutConstants ==
  /\ Granule \in Nat \ {0} /\ Page \in Nat /\ BaseUnit \in Nat
  /\ \E m \in Nat \ {0} : Page = Granule * m
  /\ \E m \in Nat : BaseUnit = Granule * m
  /\ Page < BaseUnit
  /\ \A bits \in AddressBits : 2 ^ bits \in Nat \ {0}

GeometryConstants ==
  /\ HeaderSize \in Nat \ {0} /\ PoolSize \in Nat /\ RealPage \in Nat \ {0}
  /\ ChunkSizes \subseteq Nat \ {0}
  /\ \A c \in ChunkSizes :
       HeaderSize <= 255 * c /\ 256 * c <= PoolSize /\ 2 * RealPage <= 768 * c

StartConstants ==
  /\ LayoutConstants /\ GeometryConstants
  /\ StackSize \in Nat \ {0} /\ StackUse \in Nat /\ EarlySizes \subseteq Nat
  /\ None \notin [disableTagging : BOOLEAN, failWithoutAbi : BOOLEAN]
  /\ \A h, b : None # U!Layout(h, b)

------------------------------------------------------------------------------
(* Layout *)

LEMMA Granules ==
  ASSUME NEW s \in Nat \ {0}, NEW p \in Nat
  PROVE  /\ p \div s \in Nat
         /\ \A n \in Nat : p < s * n <=> p \div s < n
<1>1. s \in Int /\ p \in Int /\ s > 0
  OBVIOUS
<1>2. p \div s \in Int /\ p % s \in 0..(s - 1) /\ p \div s >= 0
  BY <1>1, Z3
<1>3. p = s * (p \div s) + (p % s)
  BY <1>1, Z3
<1>4. PICK q \in Nat, r \in 0..(s - 1) : q = p \div s /\ r = p % s /\ p = s * q + r
  BY <1>2, <1>3
<1>5. ASSUME NEW n \in Nat PROVE p < s * n <=> q < n
  <2>1. CASE q < n
    <3>1. PICK e \in Nat : n = q + 1 + e
      <4>1. n - q - 1 \in Nat /\ n = q + 1 + (n - q - 1)
        BY <2>1
      <4> QED
        BY <4>1
    <3>2. s * n = s * q + s + s * e /\ s * e \in Nat /\ s * q \in Nat
      BY <3>1
    <3> QED
      BY <1>4, <2>1, <3>2
  <2>2. CASE n <= q
    <3>1. PICK e \in Nat : q = n + e
      <4>1. q - n \in Nat /\ q = n + (q - n)
        BY <2>2
      <4> QED
        BY <4>1
    <3>2. s * q = s * n + s * e /\ s * e \in Nat /\ s * n \in Nat
      BY <3>1
    <3> QED
      BY <1>4, <2>2, <3>2
  <2> QED
    BY <2>1, <2>2
<1> QED
  BY <1>2, <1>4, <1>5

LEMMA WholeGranules ==
  ASSUME NEW s \in Nat \ {0}, NEW n \in Nat
  PROVE  s * n \in Nat /\ (s * n) \div s = n
<1>1. s * n \in Nat /\ s * (n + 1) = s * n + s
  OBVIOUS
<1>2. s * n < s * (n + 1) /\ ~(s * n < s * n)
  BY <1>1
<1>3. (s * n) \div s \in Nat /\ (s * n) \div s < n + 1 /\ ~((s * n) \div s < n)
  BY <1>1, <1>2, Granules
<1> QED
  BY <1>3

(* A byte before a boundary of granules is in the granule before it.        *)
LEMMA LastOfGranule ==
  ASSUME NEW s \in Nat \ {0}, NEW n \in Nat \ {0}
  PROVE  s * n - 1 \in Nat /\ (s * n - 1) \div s = n - 1
<1>1. PICK k \in Nat : n = k + 1
  <2>1. n - 1 \in Nat /\ n = (n - 1) + 1
    OBVIOUS
  <2> QED
    BY <2>1
<1>2. s * n = s * k + s /\ s * k \in Nat
  BY <1>1
<1>3. s * n - 1 \in Nat /\ s * n - 1 < s * n /\ ~(s * n - 1 < s * k)
  BY <1>2
<1>4. (s * n - 1) \div s \in Nat /\ (s * n - 1) \div s < n /\ ~((s * n - 1) \div s < k)
  BY <1>3, Granules
<1> QED
  BY <1>1, <1>3, <1>4

(* The top of the memory is the end of a page of shadow. *)
LEMMA TopOfMemory ==
  ASSUME LayoutConstants, NEW bits \in AddressBits
  PROVE  \E V \in Nat, W \in Nat \ {0} :
           W = Granule * V /\ U!HighMemEnd(bits) = Granule * W - 1
<1>1. PICK m \in Nat \ {0} : Page = Granule * m
  BY DEF LayoutConstants
<1>2. PICK s \in Nat \ {0} : s = Granule
  BY DEF LayoutConstants
<1>3. PICK max \in Nat : max = 2 ^ bits - 1
  <2>1. 2 ^ bits - 1 \in Nat
    BY DEF LayoutConstants
  <2> QED
    BY <2>1
<1>4. PICK unit \in Nat \ {0} : unit = Page * Granule
  <2>1. Page * Granule = (s * m) * s /\ (s * m) * s \in Nat \ {0}
    BY <1>1, <1>2
  <2> QED
    BY <2>1
<1>5. PICK q \in Nat, r \in Nat : q = max \div unit /\ r = max % unit /\ max = unit * q + r
  <2>1. unit \in Int /\ max \in Int /\ unit > 0
    OBVIOUS
  <2>2. max \div unit \in Nat /\ max % unit \in Nat
    BY <2>1, Granules
  <2>3. max = unit * (max \div unit) + (max % unit)
    BY <2>1, Z3
  <2> QED
    BY <2>2, <2>3
<1>6. U!HighMemEnd(bits) = max - (max % unit) + unit - 1
  BY <1>3, <1>4 DEF U!HighMemEnd, Granule
<1>7. U!HighMemEnd(bits) = unit * (q + 1) - 1
  BY <1>5, <1>6
<1>8. unit * (q + 1) = s * (s * (m * (q + 1))) /\ s * (m * (q + 1)) \in Nat \ {0} /\ m * (q + 1) \in Nat
  <2>1. unit = (s * m) * s
    BY <1>1, <1>2, <1>4
  <2>2. PICK k \in Nat \ {0} : k = q + 1
    OBVIOUS
  <2>3. ((s * m) * s) * k = s * (s * (m * k)) /\ s * (m * k) \in Nat \ {0} /\ m * k \in Nat
    OBVIOUS
  <2> QED
    BY <2>1, <2>2, <2>3
<1> QED
  BY <1>2, <1>7, <1>8

(* The body of LayoutExact, of a layout. *)
Fits(l) ==
  LET app == {p \in 0 .. l.highMemEnd : U!MemIsApp(l, p)} \ {l.highMemStart}
      shadow == {p \in 0 .. l.highMemEnd : U!MemIsShadow(l, p)}
  IN  /\ app \cap shadow = {}
      /\ {U!MemToShadow(l.base, p) : p \in app} = shadow
      /\ 0 <= l.threads.beg /\ l.threads.beg < l.threads.end
      /\ l.threads.end < l.base

(* In granules: the shadow begins at one, B, and is W long; its end and all  *)
(* of the memory end with one, so that no granule is half shadow.           *)
LEMMA LayoutFits ==
  ASSUME LayoutConstants, NEW bits \in AddressBits, NEW b \in U!Bases(U!HighMemEnd(bits)),
         NEW l, l = U!Layout(U!HighMemEnd(bits), b)
  PROVE  Fits(l)
<1>1. PICK s \in Nat \ {0} : s = Granule
  BY DEF LayoutConstants
<1>2. PICK V \in Nat, W \in Nat \ {0} : W = s * V /\ U!HighMemEnd(bits) = s * W - 1
  BY <1>1, TopOfMemory
<1>3. PICK H \in Nat : H = U!HighMemEnd(bits) /\ H = s * W - 1
  BY <1>2, LastOfGranule
<1>4. PICK k \in Nat \ {0} : b = k * BaseUnit
  <2>1. PICK k \in 1 .. H \div BaseUnit : b = k * BaseUnit
    BY <1>3 DEF U!Bases, BaseUnit
  <2> QED
    BY <2>1
<1>5. PICK B \in Nat \ {0} : b = s * B
  <2>1. PICK m \in Nat : BaseUnit = s * m
    BY <1>1 DEF LayoutConstants
  <2>2. m # 0
    BY <1>1, <2>1 DEF LayoutConstants
  <2>3. k * (s * m) = s * (k * m) /\ k * m \in Nat \ {0}
    BY <2>1, <2>2
  <2> QED
    BY <1>4, <2>1, <2>3
<1>6. b + W <= H + 1
  <2>1. (H + 1) \div s = W
    <3>1. H + 1 = s * W
      BY <1>2, <1>3, WholeGranules
    <3> QED
      BY <3>1, WholeGranules
  <2> QED
    BY <1>1, <1>3, <2>1 DEF U!Bases, Granule
<1>7. /\ b \in Nat \ {0} /\ b - 1 \in Nat /\ (b - 1) \div s = B - 1
      /\ H \div s = W - 1
  <2>1. s * B - 1 \in Nat /\ (s * B - 1) \div s = B - 1
    BY LastOfGranule
  <2>2. (s * W - 1) \div s = W - 1
    BY LastOfGranule
  <2> QED
    BY <1>3, <1>5, <2>1, <2>2
<1>8. PICK T \in Nat \ {0} : T = B + V /\ b + W = s * T
  <2>1. s * (B + V) = s * B + s * V
    OBVIOUS
  <2> QED
    BY <1>2, <1>5, <2>1
<1>9. PICK end \in Nat : end = b + W - 1 /\ end = s * T - 1 /\ end \div s = T - 1
  <2>1. s * T - 1 \in Nat /\ (s * T - 1) \div s = T - 1
    BY LastOfGranule
  <2>2. b + W - 1 = s * T - 1
    BY <1>7, <1>8
  <2> QED
    BY <2>1, <2>2
<1>10. /\ l.base = b /\ l.lowMemEnd = b - 1 /\ l.lowShadowEnd = b + B - 1
       /\ l.highShadowStart = b + T /\ l.highShadowEnd = end /\ l.highMemStart = end
       /\ l.highMemEnd = H
       /\ l.threads = [beg |-> b - BaseUnit, end |-> b - Page]
  <2>1. U!MemToShadow(b, H) = end /\ U!MemToShadow(b, b - 1) = b + B - 1
    BY <1>1, <1>7, <1>9 DEF U!MemToShadow, Granule
  <2>2. U!MemToShadow(b, end) = b + T - 1
    BY <1>1, <1>7, <1>9 DEF U!MemToShadow, Granule
  <2>3. (IF b - 1 > b + T - 1 THEN b - 1 ELSE b + T - 1) + 1 = b + T
    BY <1>7
  <2> QED
    BY <1>3, <2>1, <2>2, <2>3 DEF U!Layout, BaseUnit
<1> DEFINE app == {p \in 0 .. l.highMemEnd : U!MemIsApp(l, p)} \ {l.highMemStart}
           shadow == {p \in 0 .. l.highMemEnd : U!MemIsShadow(l, p)}
<1>11. \A p : p \in app <=> p \in 0 .. (b - 1) \/ p \in (end + 1) .. H
  BY <1>6, <1>7, <1>9, <1>10 DEF U!MemIsApp
<1>12. \A p : p \in shadow <=> p \in b .. (b + B - 1) \/ p \in (b + T) .. end
  <2>1. b + B - 1 <= H /\ end <= H
    BY <1>6, <1>8, <1>9, <1>7
  <2> QED
    BY <1>7, <1>9, <1>10, <2>1 DEF U!MemIsShadow
<1>13. app \cap shadow = {}
  <2>1. b + B - 1 <= end
    <3>1. b - 1 < s * W
      BY <1>3, <1>6, <1>7
    <3>2. B - 1 < W
      BY <1>7, <3>1, Granules
    <3> QED
      BY <1>7, <1>9, <3>2
  <2> HIDE DEF app, shadow
  <2> QED
    BY <1>7, <1>9, <1>11, <1>12, <2>1
<1>14. \A p \in app : U!MemToShadow(b, p) \in shadow
  <2> HIDE DEF app, shadow
  <2> SUFFICES ASSUME NEW p \in app PROVE U!MemToShadow(b, p) \in shadow
    OBVIOUS
  <2>1. p \in Nat
    BY <1>7, <1>9, <1>11
  <2>2. PICK x \in Nat : x = p \div s /\ \A n \in Nat : p < s * n <=> x < n
    BY <2>1, Granules
  <2>3. U!MemToShadow(b, p) = x + b
    BY <1>1, <2>2 DEF U!MemToShadow, Granule
  <2>4. CASE p \in 0 .. (b - 1)
    <3>1. x < B
      BY <1>5, <1>7, <2>2, <2>4
    <3> QED
      BY <1>7, <1>12, <2>3, <3>1
  <2>5. CASE p \in (end + 1) .. H
    <3>1. p < s * W /\ ~(p < s * T)
      BY <1>3, <1>9, <2>5, <1>8, <1>7
    <3>2. x < W /\ ~(x < T)
      BY <2>2, <3>1
    <3> QED
      BY <1>7, <1>9, <1>12, <2>3, <3>2
  <2> QED
    BY <1>11, <2>4, <2>5
<1>15. \A y \in shadow : \E p \in app : y = U!MemToShadow(b, p)
  <2> HIDE DEF app, shadow
  <2> SUFFICES ASSUME NEW y \in shadow PROVE \E p \in app : y = U!MemToShadow(b, p)
    OBVIOUS
  <2>1. PICK x \in Nat : y = x + b /\ (x < B \/ (~(x < T) /\ x < W))
    <3>1. y - b \in Nat /\ y = (y - b) + b
      BY <1>7, <1>9, <1>12
    <3>2. y - b < B \/ (~(y - b < T) /\ y - b < W)
      BY <1>7, <1>9, <1>12
    <3> QED
      BY <3>1, <3>2
  <2>2. PICK p \in Nat : p = s * x /\ p \div s = x
    BY WholeGranules
  <2>3. \A n \in Nat : p < s * n <=> x < n
    BY <2>2, Granules
  <2>4. p < s * B \/ (~(p < s * T) /\ p < s * W)
    BY <2>1, <2>3
  <2>5. p \in app
    BY <1>3, <1>5, <1>7, <1>8, <1>9, <1>11, <2>4
  <2>6. U!MemToShadow(b, p) = x + b
    BY <1>1, <2>2 DEF U!MemToShadow, Granule
  <2> QED
    BY <2>1, <2>5, <2>6
<1>16. {U!MemToShadow(l.base, p) : p \in app} = shadow
  <2> HIDE DEF app, shadow
  <2> QED
    BY <1>10, <1>14, <1>15
<1>17. 0 <= l.threads.beg /\ l.threads.beg < l.threads.end /\ l.threads.end < l.base
  <2>1. PICK u \in Nat : u = BaseUnit /\ Page < u /\ Page \in Nat \ {0}
    <3>1. Page # 0
      BY <1>1 DEF LayoutConstants
    <3> QED
      BY <3>1 DEF LayoutConstants
  <2>2. b >= u
    <3>1. PICK j \in Nat : k = j + 1
      <4>1. k - 1 \in Nat /\ k = (k - 1) + 1
        OBVIOUS
      <4> QED
        BY <4>1
    <3>2. k * u = j * u + u /\ j * u \in Nat
      BY <3>1
    <3> QED
      BY <1>4, <2>1, <3>2
  <2> QED
    BY <1>7, <1>10, <2>1, <2>2
<1> QED
  BY <1>13, <1>16, <1>17 DEF Fits

------------------------------------------------------------------------------
(* Geometry *)

(* The header takes from one chunk of its region to all but one. *)
LEMMA HeaderRoom ==
  ASSUME NEW c \in Nat \ {0}, NEW h \in Nat \ {0}, h <= 255 * c
  PROVE  \E r \in 1 .. 255 :
           r = U!RoundUpDivide(h, c) /\ r * c >= h /\ (r - 1) * c < h
<1>1. PICK r \in Nat : r = (h + c - 1) \div c /\ \A n \in Nat : h + c - 1 < c * n <=> r < n
  <2>1. h + c - 1 \in Nat
    OBVIOUS
  <2> QED
    BY <2>1, Granules
<1>2. r < 256
  <2>1. h + c - 1 < c * 256
    OBVIOUS
  <2> QED
    BY <1>1, <2>1
<1>3. r >= 1
  <2>1. ~(h + c - 1 < c * 1)
    OBVIOUS
  <2> QED
    BY <1>1, <2>1
<1>4. c * r >= h
  <2>1. h + c - 1 < c * (r + 1)
    BY <1>1
  <2>2. c * (r + 1) = c * r + c /\ c * r \in Nat
    OBVIOUS
  <2> QED
    BY <2>1, <2>2
<1>5. (r - 1) * c < h
  <2>1. ~(h + c - 1 < c * r)
    BY <1>1
  <2>2. c * r = (r - 1) * c + c /\ (r - 1) * c \in Int /\ c * r \in Nat
    OBVIOUS
  <2> QED
    BY <2>1, <2>2
<1> QED
  BY <1>1, <1>2, <1>3, <1>4, <1>5 DEF U!RoundUpDivide

(* The body of GeometryHolds, of a class. *)
GeometryOf(g, c) ==
  /\ g.available \in 1 .. 255
  /\ (256 - g.available) * c >= HeaderSize
  /\ (255 - g.available) * c < HeaderSize
  /\ g.allRegions >= 1 /\ g.allRegions * g.regionSize <= PoolSize
  /\ g.minChunk >= g.available
  /\ g.minChunk - 1 + g.available <= 1024 /\ g.maxChunk <= 1024
  /\ g.triggerFree >= 1

LEMMA GeometryFits ==
  ASSUME GeometryConstants, NEW c \in ChunkSizes
  PROVE  GeometryOf(U!Geometry(c), c)
<1>1. /\ c \in Nat \ {0} /\ HeaderSize \in Nat \ {0} /\ PoolSize \in Nat /\ RealPage \in Nat \ {0}
      /\ HeaderSize <= 255 * c /\ 256 * c <= PoolSize /\ 2 * RealPage <= 768 * c
  BY DEF GeometryConstants
<1>2. PICK r \in 1 .. 255 : r = U!RoundUpDivide(HeaderSize, c) /\ r * c >= HeaderSize
                            /\ (r - 1) * c < HeaderSize
  BY <1>1, HeaderRoom
<1>3. PICK a \in 1 .. 255 : a = 256 - r /\ a = (256 - r) % 256
  <2>1. 256 - r \in 1 .. 255 /\ (256 - r) % 256 = 256 - r
    OBVIOUS
  <2> QED
    BY <2>1
<1>4. PICK two \in Nat : two = (2 * RealPage) \div c /\ two <= 768
  <2>1. 2 * RealPage \in Nat /\ 2 * RealPage < c * 769
    BY <1>1
  <2>2. (2 * RealPage) \div c \in Nat /\ (2 * RealPage) \div c < 769
    BY <1>1, <2>1, Granules
  <2> QED
    BY <2>2
<1>5. PICK all \in Nat \ {0} : all = PoolSize \div (c * 256) /\ all * (c * 256) <= PoolSize
  <2>1. PICK u \in Nat \ {0} : u = c * 256
    BY <1>1
  <2>2. PICK n \in Nat : n = PoolSize \div u /\ \A k \in Nat : PoolSize < u * k <=> n < k
    BY <1>1, Granules
  <2>3. ~(PoolSize < u * 1)
    BY <1>1, <2>1
  <2>4. n >= 1
    BY <2>2, <2>3
  <2>5. ~(PoolSize < u * n)
    BY <2>2
  <2>6. n * u <= PoolSize
    BY <1>1, <2>5
  <2> QED
    BY <2>1, <2>2, <2>4, <2>6
<1>6. c > RealPage \/ RealPage \div c >= 1
  <2>1. CASE ~(RealPage < c * 1)
    <3>1. RealPage \div c \in Nat /\ ~(RealPage \div c < 1)
      BY <1>1, <2>1, Granules
    <3> QED
      BY <3>1
  <2>2. CASE RealPage < c * 1
    BY <1>1, <2>2
  <2> QED
    BY <2>1, <2>2
<1> DEFINE g == U!Geometry(c)
           min == IF two < 256 THEN 256 ELSE two
<1>7. /\ g.available = a /\ g.regionSize = c * 256 /\ g.allRegions = all
      /\ g.minChunk = min /\ g.maxChunk = min + 256
      /\ g.triggerFree = IF c > RealPage THEN 1 ELSE RealPage \div c
  BY <1>2, <1>3, <1>4, <1>5 DEF U!Geometry
<1>8. min \in 256 .. 768
  BY <1>4
<1>9. (256 - a) * c >= HeaderSize /\ (255 - a) * c < HeaderSize
  <2>1. 256 - a = r /\ 255 - a = r - 1
    BY <1>3
  <2> QED
    BY <1>2, <2>1
<1>10. g.triggerFree >= 1
  BY <1>1, <1>6, <1>7
<1> HIDE DEF g, min
<1>11. GeometryOf(g, c)
  BY <1>5, <1>7, <1>8, <1>9, <1>10 DEF GeometryOf
<1> QED
  BY <1>11 DEF g

------------------------------------------------------------------------------
(* The order of __hwasan_init *)

(* Where __hwasan_init is until the end of a step. *)
UntilFlags == {"before", "flags"}
UntilDensity == UntilFlags \cup {"density"}
UntilInstrumentation == UntilDensity \cup {"instrumentation"}
UntilValues == UntilInstrumentation \cup {"values"}
UntilRandom == UntilValues \cup {"loaded", "random"}
UntilStack == UntilRandom \cup {"stack"}
UntilAllocator == UntilStack \cup {"interceptors", "allocator"}

(* What each step leaves for the later ones, as long as the process runs.    *)
InOrder ==
  /\ at \notin UntilFlags => flags # None
  /\ at \notin UntilInstrumentation => layout # None
  /\ layout # None => thread # "none"
  /\ at \notin UntilValues => set
  /\ at = "done" => classes = [c \in ChunkSizes |-> U!Geometry(c)]

(* The persistent allocator is there from its step on; below cur is what it  *)
(* has given out, each block apart from the others.                        *)
OnStack ==
  /\ stack \in [cur : Nat, end : Nat]
  /\ at \in UntilStack => stack = U!NoStack
  /\ at \notin UntilStack => stack.end = StackSize
  /\ blocks \subseteq [from : {"stack", "heap"}, beg : Nat, size : Nat]
  /\ \A b \in blocks : b.from = "stack" => b.beg < stack.end /\ b.beg + b.size <= stack.cur
  /\ \A b, c \in blocks :
       b.from = "stack" /\ c.from = "stack" =>
         b = c \/ b.beg + b.size <= c.beg \/ c.beg + c.size <= b.beg

StartInv ==
  /\ at \in UntilAllocator \cup {"done"}
  /\ static \in BOOLEAN /\ variable \in U!Texts(3) \cup {None}
  /\ options \in [disableTagging : BOOLEAN, failWithoutAbi : BOOLEAN]
  /\ density \in 0 .. 99
  /\ layout # None => Fits(layout)
  /\ static /\ at # "before" => layout # None
  /\ unset \subseteq (IF static THEN {"flags"} ELSE {})
  /\ status = "runs" => InOrder
  /\ OnStack

LEMMA InitStart == U!Init => StartInv
<1> SUFFICES ASSUME U!Init PROVE StartInv
  OBVIOUS
<1>1. InOrder
  BY DEF U!Init, InOrder, UntilFlags, UntilDensity, UntilInstrumentation, UntilValues
<1>2. OnStack
  BY DEF U!Init, U!NoStack, OnStack, UntilStack, UntilRandom, UntilValues, UntilInstrumentation,
     UntilDensity, UntilFlags
<1> QED
  BY <1>1, <1>2 DEF U!Init, StartInv, UntilAllocator, UntilStack, UntilRandom, UntilValues,
     UntilInstrumentation, UntilDensity, UntilFlags

LEMMA NothingUnset ==
  ASSUME NEW names \in SUBSET {"flags", "layout", "thread", "values", "stack"}, U!Reads(names),
         "flags" \in names => flags # None,
         "layout" \in names => layout # None,
         "thread" \in names => thread # "none",
         "values" \in names => set,
         "stack" \in names => stack # U!NoStack
  PROVE  unset' = unset
<1> DEFINE there == [flags |-> flags # None, layout |-> layout # None,
                     thread |-> thread # "none", values |-> set, stack |-> stack # U!NoStack]
<1>1. \A n \in names : there[n]
  <2> SUFFICES ASSUME NEW n \in names PROVE there[n]
    OBVIOUS
  <2>1. CASE n = "flags"
    <3>1. flags # None
      BY <2>1
    <3>2. there["flags"] = (flags # None)
      BY Zenon
    <3> QED
      BY <2>1, <3>1, <3>2, Zenon
  <2>2. CASE n = "layout"
    <3>1. layout # None
      BY <2>2
    <3>2. there["layout"] = (layout # None)
      BY Zenon
    <3> QED
      BY <2>2, <3>1, <3>2, Zenon
  <2>3. CASE n = "thread"
    <3>1. thread # "none"
      BY <2>3
    <3>2. there["thread"] = (thread # "none")
      BY Zenon
    <3> QED
      BY <2>3, <3>1, <3>2, Zenon
  <2>4. CASE n = "values"
    <3>1. set
      BY <2>4
    <3>2. there["values"] = (set)
      BY Zenon
    <3> QED
      BY <2>4, <3>1, <3>2, Zenon
  <2>5. CASE n = "stack"
    <3>1. stack # U!NoStack
      BY <2>5
    <3>2. there["stack"] = (stack # U!NoStack)
      BY Zenon
    <3> QED
      BY <2>5, <3>1, <3>2, Zenon
  <2> QED
    BY <2>1, <2>2, <2>3, <2>4, <2>5
<1>2. unset' = unset \cup {n \in names : ~there[n]}
  BY DEF U!Reads
<1> HIDE DEF there
<1> QED
  BY <1>1, <1>2

(* A text of digits is a number of two at most. *)
LEMMA TwoDigits ==
  ASSUME NEW text \in U!Texts(3), U!stringToInteger(text) # None
  PROVE  U!stringToInteger(text) \in 0 .. 99
<1>1. PICK k \in 0 .. 3 : text \in [1 .. k -> Characters]
  BY DEF U!Texts
<1>2. Len(text) = k /\ DOMAIN text = 1 .. k
  <2>1. k \in Nat /\ DOMAIN text = 1 .. k
    BY <1>1
  <2>2. text \in Seq(Characters)
    BY <1>1, <2>1
  <2>3. Len(text) \in Nat /\ DOMAIN text = 1 .. Len(text)
    BY <2>2
  <2>4. \A n, m \in Nat : 1 .. n = 1 .. m => n = m
    <3> SUFFICES ASSUME NEW n \in Nat, NEW m \in Nat, n < m PROVE 1 .. n # 1 .. m
      OBVIOUS
    <3>1. m \in 1 .. m /\ m \notin 1 .. n
      OBVIOUS
    <3> QED
      BY <3>1
  <2> QED
    BY <2>1, <2>3, <2>4
<1>3. k \in 1 .. 2 /\ \A i \in 1 .. k : text[i] \in 0 .. 9
  BY <1>2 DEF U!stringToInteger
<1>4. U!stringToInteger(text) = IF k = 1 THEN text[1] ELSE 10 * text[1] + text[2]
  BY <1>2, <1>3 DEF U!stringToInteger
<1> QED
  BY <1>3, <1>4

(* One step of the initialisation, or of the program meanwhile. *)
LEMMA OnStackKept ==
  ASSUME OnStack, UNCHANGED <<stack, blocks>>, at' \in UntilStack => at \in UntilStack,
         at \in UntilStack => at' \in UntilStack
  PROVE  OnStack'
BY DEF OnStack, U!NoStack

LEMMA AfterIn ==
  ASSUME NEW s \in {"flags", "density", "instrumentation", "values", "loaded", "random", "stack",
                    "interceptors", "allocator"},
         U!Step(s)
  PROVE  /\ s = "flags" => at' = "density"
         /\ s = "density" => at' = "instrumentation"
         /\ s = "instrumentation" => at' = "values"
         /\ s = "values" => at' = "loaded"
         /\ s = "loaded" => at' = "random"
         /\ s = "random" => at' = "stack"
         /\ s = "stack" => at' = "interceptors"
         /\ s = "interceptors" => at' = "allocator"
         /\ s = "allocator" => at' = "done"
BY DEF U!Step, U!After

LEMMA InstrumentationStart ==
  ASSUME StartConstants, StartInv, status = "runs", layout = None, U!InitInstrumentation,
         (at = "before" /\ static) \/ (flags # None /\ ~static)
  PROVE  /\ layout' # None => Fits(layout')
         /\ unset' \subseteq (IF static THEN {"flags"} ELSE {})
         /\ layout' # None => thread' # "none"
         /\ status' = "runs" => layout' # None
         /\ static /\ flags = None => status' = "runs"
<1> DEFINE Goal == /\ layout' # None => Fits(layout') /\ thread' # "none"
                   /\ status' = "runs" => layout' # None
                   /\ static /\ flags = None => status' = "runs"
<1>1. ASSUME status' = "runs" PROVE Goal
  <2>0. PICK bits \in AddressBits :
          \E b \in U!Bases(U!HighMemEnd(bits)) : layout' = U!Layout(U!HighMemEnd(bits), b)
    BY <1>1 DEF U!InitInstrumentation, U!InitShadow
  <2>1. PICK b \in U!Bases(U!HighMemEnd(bits)) : layout' = U!Layout(U!HighMemEnd(bits), b)
    BY <2>0
  <2>2. Fits(layout')
    <3>1. PICK l : l = layout'
      OBVIOUS
    <3>2. Fits(l)
      BY <2>1, <3>1, LayoutFits DEF StartConstants
    <3> QED
      BY <3>1, <3>2
  <2>3. layout' # None
    BY <2>1 DEF StartConstants
  <2> QED
    <3>1. thread' = "there"
      BY <1>1 DEF U!InitInstrumentation
    <3> QED
      BY <1>1, <2>2, <2>3, <3>1
<1>2. ASSUME status' # "runs" PROVE Goal
  <2>1. UNCHANGED <<layout, thread>>
    BY <1>2 DEF U!InitInstrumentation
  <2>2. flags # None
    BY <1>2 DEF U!InitInstrumentation, U!OsSupport
  <2> QED
    BY <1>2, <2>1, <2>2
<1>3. unset' \subseteq (IF static THEN {"flags"} ELSE {})
  <2>1. CASE static
    <3>1. unset' \subseteq unset \cup {"flags"}
      BY DEF U!InitInstrumentation, U!Reads
    <3> QED
      BY <2>1, <3>1 DEF StartInv
  <2>2. CASE ~static
    <3>1. U!Reads({"flags"}) /\ flags # None
      BY <2>2 DEF U!InitInstrumentation
    <3>2. unset' = unset
      BY <3>1, NothingUnset
    <3> QED
      BY <2>2, <3>2 DEF StartInv
  <2> QED
    BY <2>1, <2>2
<1>4. Goal
  BY <1>1, <1>2
<1> QED
  BY <1>3, <1>4

LEMMA StepStart ==
  ASSUME StartConstants PROVE StartInv /\ [U!Next]_startVars => StartInv'
<1> SUFFICES ASSUME StartInv, [U!Next]_startVars PROVE StartInv'
  OBVIOUS
<1> USE DEF UntilFlags, UntilDensity, UntilInstrumentation, UntilValues, UntilRandom, UntilStack,
            UntilAllocator
<1>1. CASE U!Next
  <2>0. status = "runs" /\ InOrder /\ OnStack
    BY <1>1 DEF U!Next, StartInv
  <2>1. CASE U!Begin
    <3>1. OnStack'
      BY <2>0, <2>1, OnStackKept DEF U!Begin
    <3> QED
      BY <2>0, <2>1, <3>1 DEF U!Begin, U!initVars, StartInv, InOrder
  <2>2. CASE U!InitializeFlags
    <3>1. at = "flags" /\ at' = "density" /\ flags' # None
      BY <2>2, AfterIn DEF U!InitializeFlags, U!Step, StartConstants, StartInv
    <3>2. OnStack'
      BY <2>0, <2>2, <3>1, OnStackKept DEF U!InitializeFlags
    <3> QED
      BY <2>0, <2>2, <3>1, <3>2 DEF U!InitializeFlags, U!initVars, StartInv, InOrder
  <2>3. CASE U!SetDensity
    <3>1. at = "density" /\ at' = "instrumentation"
      BY <2>3, AfterIn DEF U!SetDensity, U!Step
    <3>2. OnStack'
      BY <2>0, <2>3, <3>1, OnStackKept DEF U!SetDensity
    <3>3. density' \in 0 .. 99
      <4>1. CASE variable = None
        BY <2>3, <4>1 DEF U!SetDensity, StartInv
      <4>2. CASE variable # None
        BY <2>3, <4>2, TwoDigits DEF U!SetDensity, StartInv
      <4> QED
        BY <4>1, <4>2
    <3> QED
      BY <2>0, <2>3, <3>1, <3>2, <3>3 DEF U!SetDensity, U!initVars, StartInv, InOrder
  <2>4. CASE U!InitStatic
    <3>1. at = "before" /\ static /\ layout = None /\ U!InitInstrumentation /\ at' = at
      BY <2>4 DEF U!InitStatic
    <3>2. OnStack'
      BY <2>0, <2>4, <3>1, OnStackKept DEF U!InitStatic
    <3>3. /\ layout' # None => Fits(layout') /\ thread' # "none"
          /\ unset' \subseteq (IF static THEN {"flags"} ELSE {})
      BY <2>0, <3>1, InstrumentationStart
    <3>4. UNCHANGED <<at, static, variable, options, flags, density, set, classes>>
      BY <2>4 DEF U!InitStatic, U!initVars
    <3>5. InOrder'
      BY <3>1, <3>3, <3>4 DEF InOrder
    <3> QED
      BY <3>1, <3>2, <3>3, <3>4, <3>5 DEF StartInv
  <2>5. CASE U!InitInstrumentationOnce
    <3>1. at = "instrumentation" /\ at' = "values" /\ flags # None
      BY <2>0, <2>5, AfterIn DEF U!InitInstrumentationOnce, U!Step, InOrder
    <3>2. OnStack'
      BY <2>0, <2>5, <3>1, OnStackKept DEF U!InitInstrumentationOnce
    <3>3. CASE layout # None
      <4>1. UNCHANGED <<static, variable, options, flags, density, set, classes, layout, thread,
                        unset, status>>
        BY <2>5, <3>3 DEF U!InitInstrumentationOnce, U!initVars
      <4>2. InOrder'
        BY <2>0, <3>1, <3>3, <4>1 DEF InOrder
      <4> QED
        BY <3>1, <3>2, <3>3, <4>1, <4>2 DEF StartInv
    <3>4. CASE layout = None
      <4>1. ~static /\ U!InitInstrumentation
        BY <2>5, <3>1, <3>4 DEF U!InitInstrumentationOnce, StartInv
      <4> QED
        BY <2>0, <2>5, <3>1, <3>2, <3>4, <4>1, InstrumentationStart
        DEF U!InitInstrumentationOnce, U!initVars, StartInv, InOrder
    <3> QED
      BY <3>3, <3>4
  <2>6. CASE U!SetValues
    <3>1. at = "values" /\ at' = "loaded" /\ layout # None
      BY <2>0, <2>6, AfterIn DEF U!SetValues, U!Step, InOrder
    <3>2. OnStack'
      BY <2>0, <2>6, <3>1, OnStackKept DEF U!SetValues
    <3>3. unset' = unset
      BY <2>6, <3>1, NothingUnset DEF U!SetValues
    <3> QED
      BY <2>0, <2>6, <3>1, <3>2, <3>3 DEF U!SetValues, U!initVars, StartInv, InOrder
  <2>7. CASE U!InitLoadedGlobals
    <3>1. at = "loaded" /\ at' = "random" /\ layout # None /\ flags # None
      BY <2>0, <2>7, AfterIn DEF U!InitLoadedGlobals, U!Step, InOrder
    <3>2. OnStack'
      BY <2>0, <2>7, <3>1, OnStackKept DEF U!InitLoadedGlobals
    <3>3. unset' = unset
      BY <2>7, <3>1, NothingUnset DEF U!InitLoadedGlobals
    <3> QED
      BY <2>0, <2>7, <3>1, <3>2, <3>3 DEF U!InitLoadedGlobals, U!initVars, StartInv, InOrder
  <2>8. CASE U!EnsureRandomStateInited
    <3>1. at = "random" /\ at' = "stack" /\ flags # None /\ thread # "none"
      BY <2>0, <2>8, AfterIn DEF U!EnsureRandomStateInited, U!Step, InOrder
    <3>2. OnStack'
      BY <2>0, <2>8, <3>1, OnStackKept DEF U!EnsureRandomStateInited
    <3>3. unset' = unset
      BY <2>8, <3>1, NothingUnset DEF U!EnsureRandomStateInited
    <3> QED
      BY <2>0, <2>8, <3>1, <3>2, <3>3 DEF U!EnsureRandomStateInited, U!initVars, StartInv, InOrder
  <2>9. CASE U!CTPersistentAllocatorInit
    <3>1. at = "stack" /\ at' = "interceptors" /\ set /\ stack = U!NoStack
      BY <2>0, <2>9, AfterIn DEF U!CTPersistentAllocatorInit, U!Step, InOrder, OnStack
    <3>2. OnStack'
      <4>1. \A b \in blocks : b.from # "stack"
        BY <2>0, <3>1 DEF OnStack, U!NoStack
      <4>2. stack' = [cur |-> 0, end |-> StackSize] /\ blocks' = blocks
        BY <2>9 DEF U!CTPersistentAllocatorInit
      <4> QED
        BY <2>0, <3>1, <4>1, <4>2 DEF OnStack, StartConstants
    <3>3. unset' = unset
      BY <2>9, <3>1, NothingUnset DEF U!CTPersistentAllocatorInit
    <3> QED
      BY <2>0, <2>9, <3>1, <3>2, <3>3
      DEF U!CTPersistentAllocatorInit, U!initVars, StartInv, InOrder
  <2>10. CASE U!InitializeInterceptors
    <3>1. at = "interceptors" /\ at' = "allocator"
      BY <2>10, AfterIn DEF U!InitializeInterceptors, U!Step
    <3>2. OnStack'
      BY <2>0, <2>10, <3>1, OnStackKept DEF U!InitializeInterceptors
    <3> QED
      BY <2>0, <2>10, <3>1, <3>2 DEF U!InitializeInterceptors, U!initVars, StartInv, InOrder
  <2>11. CASE U!HwasanAllocatorInit
    <3>1. /\ at = "allocator" /\ at' = "done" /\ flags # None /\ layout # None /\ thread # "none"
          /\ set
      BY <2>0, <2>11, AfterIn DEF U!HwasanAllocatorInit, U!Step, InOrder
    <3>2. stack \in [cur : Nat, end : Nat] /\ stack.end = StackSize /\ stack # U!NoStack
      <4>1. stack \in [cur : Nat, end : Nat] /\ stack.end = StackSize
        BY <2>0, <3>1 DEF OnStack
      <4>2. StackSize # 0 /\ U!NoStack.end = 0
        BY DEF StartConstants, U!NoStack
      <4> QED
        BY <4>1, <4>2
    <3>3. unset' = unset
      BY <2>11, <3>1, <3>2, NothingUnset DEF U!HwasanAllocatorInit
    <3>4. /\ stack' \in [cur : Nat, end : Nat] /\ stack'.end = stack.end
          /\ stack'.cur >= stack.cur /\ blocks' = blocks
      <4>1. CASE stack.cur + StackUse >= stack.end
        BY <2>11, <3>2, <4>1 DEF U!HwasanAllocatorInit
      <4>2. CASE ~(stack.cur + StackUse >= stack.end)
        BY <2>11, <3>2, <4>2 DEF U!HwasanAllocatorInit, StartConstants
      <4> QED
        BY <4>1, <4>2
    <3>5. OnStack'
      BY <2>0, <3>1, <3>2, <3>4 DEF OnStack
    <3>6. InOrder' \/ status' # "runs"
      <4>1. status' = "runs" => classes' = [c \in ChunkSizes |-> U!Geometry(c)]
        BY <2>11 DEF U!HwasanAllocatorInit
      <4> QED
        BY <2>11, <3>1, <4>1 DEF U!HwasanAllocatorInit, InOrder
    <3> QED
      BY <2>0, <2>11, <3>1, <3>3, <3>5, <3>6 DEF U!HwasanAllocatorInit, U!initVars, StartInv
  <2>12. CASE \E n \in EarlySizes : U!EarlyMalloc(n)
    <3>1. PICK n \in EarlySizes : U!EarlyMalloc(n)
      BY <2>12
    <3>2. n \in Nat /\ stack \in [cur : Nat, end : Nat]
      BY <2>0 DEF StartConstants, OnStack
    <3>3. OnStack'
      <4>1. CASE stack.cur + n >= stack.end
        BY <2>0, <3>1, <4>1, OnStackKept DEF U!EarlyMalloc
      <4>2. CASE ~(stack.cur + n >= stack.end)
        <5>1. PICK new : new = [from |-> "stack", beg |-> stack.cur, size |-> n]
          OBVIOUS
        <5>2. stack' = [stack EXCEPT !.cur = @ + n] /\ blocks' = blocks \cup {new} /\ at' = at
          BY <3>1, <4>2, <5>1 DEF U!EarlyMalloc
        <5>3. /\ stack' \in [cur : Nat, end : Nat] /\ stack'.end = stack.end
              /\ stack'.cur = stack.cur + n
          BY <3>2, <5>2
        <5>4. at \notin UntilStack
          BY <2>0, <3>2, <4>2 DEF OnStack, U!NoStack
        <5>5. /\ new \in [from : {"stack", "heap"}, beg : Nat, size : Nat]
              /\ new.beg = stack.cur /\ new.size = n
          BY <3>2, <5>1
        <5>6. \A b \in blocks : b.from = "stack" => b.beg + b.size <= new.beg
          BY <2>0, <5>5 DEF OnStack
        <5>7. \A b \in blocks' : b.from = "stack" => b.beg < stack'.end /\ b.beg + b.size <= stack'.cur
          BY <2>0, <3>2, <4>2, <5>2, <5>3, <5>5 DEF OnStack
        <5>8. \A b, c \in blocks' :
                b.from = "stack" /\ c.from = "stack" =>
                  b = c \/ b.beg + b.size <= c.beg \/ c.beg + c.size <= b.beg
          BY <2>0, <5>2, <5>6 DEF OnStack
        <5> QED
          BY <2>0, <5>2, <5>3, <5>4, <5>5, <5>7, <5>8 DEF OnStack
      <4> QED
        BY <4>1, <4>2
    <3> QED
      BY <2>0, <3>1, <3>3 DEF U!EarlyMalloc, U!initVars, StartInv, InOrder
  <2>13. CASE \E n \in EarlySizes : U!Malloc(n)
    <3>1. PICK n \in EarlySizes : U!Malloc(n)
      BY <2>13
    <3>2. n \in Nat
      BY DEF StartConstants
    <3>3. PICK beg \in 0 .. MaxBlocks - 1 :
            blocks' = blocks \cup {[from |-> "heap", beg |-> beg, size |-> n]}
      BY <3>1 DEF U!Malloc
    <3>4. OnStack'
      <4>1. PICK new : new = [from |-> "heap", beg |-> beg, size |-> n]
        OBVIOUS
      <4>2. new \in [from : {"stack", "heap"}, beg : Nat, size : Nat] /\ new.from = "heap"
        BY <3>2, <4>1
      <4>3. blocks' = blocks \cup {new} /\ UNCHANGED <<stack, at>>
        BY <3>1, <3>3, <4>1 DEF U!Malloc
      <4> QED
        BY <2>0, <4>2, <4>3 DEF OnStack
    <3> QED
      BY <2>0, <3>1, <3>4 DEF U!Malloc, U!initVars, StartInv, InOrder
  <2>14. CASE \E b \in blocks : U!Free(b)
    <3>1. PICK b \in blocks : U!Free(b)
      BY <2>14
    <3>2. OnStack'
      BY <2>0, <3>1 DEF U!Free, OnStack
    <3> QED
      BY <2>0, <3>1, <3>2 DEF U!Free, U!initVars, StartInv, InOrder
  <2>15. CASE U!EarlyCalloc \/ \E b \in blocks : U!Realloc(b)
    <3>1. UNCHANGED <<at, static, variable, options, flags, layout, tagged, thread, density, set,
                      stack, classes, tagging, blocks, unset>> /\ status' # "runs"
      BY <2>15 DEF U!EarlyCalloc, U!Realloc, U!initVars
    <3>2. OnStack'
      BY <2>0, <3>1, OnStackKept
    <3> QED
      BY <3>1, <3>2 DEF StartInv
  <2> QED
    BY <1>1, <2>1, <2>2, <2>3, <2>4, <2>5, <2>6, <2>7, <2>8, <2>9, <2>10, <2>11, <2>12, <2>13,
       <2>14, <2>15 DEF U!Next
<1>2. CASE UNCHANGED startVars
  BY <1>2 DEF startVars, StartInv, InOrder, OnStack
<1> QED
  BY <1>1, <1>2

LEMMA InvStartup ==
  ASSUME StartConstants
  PROVE  StartInv => U!InitOrder /\ U!LayoutExact /\ U!GeometryHolds /\ U!EarlyBlocksKnown
<1> SUFFICES ASSUME StartInv
             PROVE  U!InitOrder /\ U!LayoutExact /\ U!GeometryHolds /\ U!EarlyBlocksKnown
  OBVIOUS
<1>1. U!InitOrder
  BY DEF StartInv, U!InitOrder
<1>2. U!LayoutExact
  BY DEF StartInv, U!LayoutExact, Fits
<1>3. U!GeometryHolds
  <2>1. SUFFICES ASSUME U!Inited, status = "runs", NEW c \in ChunkSizes
                 PROVE  GeometryOf(classes[c], c)
    BY DEF StartInv, U!GeometryHolds, GeometryOf
  <2>2. classes[c] = U!Geometry(c)
    BY <2>1 DEF StartInv, InOrder, U!Inited
  <2> QED
    BY <2>2, GeometryFits DEF StartConstants
<1>4. U!EarlyBlocksKnown
  BY DEF StartInv, OnStack, U!EarlyBlocksKnown, U!PointerIsMine
<1> QED
  BY <1>1, <1>2, <1>3, <1>4

(* Wherever the system puts the shadow and whatever asks for memory         *)
(* meanwhile, no step of __hwasan_init uses what a later one sets, the       *)
(* shadow mirrors the application's memory and nothing else, every class's   *)
(* geometry holds, and what DlSymAllocator gives out keeps its place.       *)
THEOREM StartupExactAlways ==
  ASSUME StartConstants PROVE MCSpec => []StartupExact
<1> DEFINE IInv == part = "startup" => StartInv
<1>1. MCInit => IInv
  BY InitStart DEF MCInit
<1>2. IInv /\ [MCNext]_<<part, vars, symbolizerVars, startVars>> => IInv'
  <2> SUFFICES ASSUME IInv, [MCNext]_<<part, vars, symbolizerVars, startVars>>, part' = "startup"
               PROVE  StartInv'
    OBVIOUS
  <2>1. part = "startup" /\ [U!Next]_startVars
    BY DEF MCNext, Starting, RunningThreads, SymbolizingNow
  <2> QED
    BY <2>1, StepStart
<1>3. IInv => StartupExact
  BY InvStartup DEF StartupExact
<1> QED
  BY <1>1, <1>2, <1>3, PTL DEF MCSpec

==============================================================================
