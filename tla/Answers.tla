-------------------------------- MODULE Answers --------------------------------
(***************************************************************************)
(* What the runtime reads from the external symbolizer's answers            *)
(* (sanitizer_symbolizer_libcdep.cpp): the frames of a CODE command, the    *)
(* global of a DATA command, the locals of a FRAME command.  Who asks and   *)
(* who answers is Symbolizing; here an answer is a text, whole or cut short  *)
(* by the end of the process that writes it.                               *)
(*                                                                         *)
(* A text is a sequence of words, of signs that mean something to the       *)
(* parsers, and of digits.                                                 *)
(***************************************************************************)
EXTENDS Integers, Sequences, SequencesExt, FiniteSets

CONSTANTS
  Lines,       \* lines and columns, of two digits at most
  Base,        \* where the module is loaded
  MaxRecords,  \* bound: frames, or locals, of an answer
  None

VARIABLES
  kind,      \* the command: "CODE", "DATA" or "FRAME"
  found,     \* what the symbolizer has found
  str,       \* what is left to parse of its answer
  cut,       \* history: how much of the answer there was
  step,      \* "ask", "parse" or "done"
  answered,  \* history: was there an answer
  top_frame,
  res        \* the stack, the global, or the locals

vars == <<kind, found, str, cut, step, answered, top_frame, res>>

Unknown == <<"?", "?">>
Numerals == <<"0", "1", "2", "3", "4", "5", "6", "7", "8", "9">>
IsDigit(c) == c \in {Numerals[i] : i \in DOMAIN Numerals}
Starts(t, prefix) == IsPrefix(prefix, t)

------------------------------------------------------------------------------
(* The symbolizer's side: what it finds, and the text it makes of it        *)

Digit(n) == Numerals[n + 1]
Shown(n) ==
  LET m == IF n < 0 THEN -n ELSE n
  IN  (IF n < 0 THEN <<"-">> ELSE <<>>)
        \o (IF m < 10 THEN <<>> ELSE <<Digit(m \div 10)>>) \o <<Digit(m % 10)>>
ShownOr(n) == IF n = None THEN Unknown ELSE Shown(n)

(* A line, and the column that old symbolizers do not print.  A file whose  *)
(* name ends like a line has both.                                         *)
Files == {<<"a">>, <<"C", ":", "a">>, <<"a", ":", "7">>}
Places ==
  {[file |-> Unknown, line |-> 0, column |-> 0]}
    \cup {p \in [file : Files, line : Lines, column : Lines \cup {None}] :
            p.column = None => ~IsDigit(Last(p.file))}
ShownPlace(p) ==
  p.file \o <<":">> \o Shown(p.line)
    \o (IF p.column = None THEN <<>> ELSE <<":">> \o Shown(p.column))

Records(S) == UNION {[1 .. n -> S] : n \in 0 .. MaxRecords}

Functions == {<<"f">>, Unknown}
Frames == [function : Functions, place : Places]
ShownFrame(f) == f.function \o <<"\n">> \o ShownPlace(f.place) \o <<"\n">>

(* The third line of a global is printed since D123538. *)
Globals ==
  [name : Functions, start : {0, 12}, size : {7}, file : {<<"a">>, None}, line : Lines]
ShownGlobal(g) ==
  g.name \o <<"\n">> \o Shown(g.start) \o <<" ">> \o Shown(g.size) \o <<"\n">>
    \o (IF g.file = None THEN <<>> ELSE g.file \o <<":">> \o Shown(g.line) \o <<"\n">>)

Locals ==
  {[function |-> <<"f">>, name |-> <<"x">>, file |-> <<"a">>, line |-> 3,
    offset |-> o, size |-> s, tag |-> t] :
     o \in {-16, None}, s \in {8, None}, t \in {1, None}}
ShownLocal(l) ==
  l.function \o <<"\n">> \o l.name \o <<"\n">> \o l.file \o <<":">> \o Shown(l.line) \o <<"\n">>
    \o ShownOr(l.offset) \o <<" ">> \o ShownOr(l.size) \o <<" ">> \o ShownOr(l.tag) \o <<"\n">>

Found(k) ==
  CASE k = "CODE" -> Records(Frames) \ {<<>>}
    [] k = "DATA" -> Globals
    [] k = "FRAME" -> Records(Locals)

(* Every answer ends with an empty line. *)
Answer ==
  CASE kind = "CODE" -> FlattenSeq([i \in DOMAIN found |-> ShownFrame(found[i])]) \o <<"\n">>
    [] kind = "DATA" -> ShownGlobal(found) \o <<"\n">>
    [] kind = "FRAME" ->
         (IF found = <<>> THEN Unknown \o <<"\n">>
          ELSE FlattenSeq([i \in DOMAIN found |-> ShownLocal(found[i])])) \o <<"\n">>

------------------------------------------------------------------------------
(* The parsers *)

(* The text before the first delimiter, and what is after it. *)
ExtractToken(text, delims) ==
  LET ends == {i \in DOMAIN text : text[i] \in delims}
      prefix == IF ends = {} THEN Len(text)
                ELSE (CHOOSE i \in ends : \A j \in ends : i <= j) - 1
  IN  [token |-> SubSeq(text, 1, prefix), rest |-> SubSeq(text, prefix + 2, Len(text))]

(* internal_atoll: the digits a token begins with, after its sign. *)
Number(token) ==
  LET negative == Starts(token, <<"-">>)
      body == IF negative THEN Tail(token) ELSE token
      after == {i \in DOMAIN body : ~IsDigit(body[i])} \cup {Len(body) + 1}
      count == (CHOOSE i \in after : \A j \in after : i <= j) - 1
      value == FoldLeft(LAMBDA v, c : 10 * v + (CHOOSE i \in 1 .. 10 : Numerals[i] = c) - 1,
                        0, SubSeq(body, 1, count))
  IN  IF negative THEN -value ELSE value

ExtractInt(text, delims) ==
  LET t == ExtractToken(text, delims) IN [value |-> Number(t.token), rest |-> t.rest]

(* The colon with nothing but digits behind it. *)
LastColon(text) ==
  {i \in 1 .. Len(text) - 1 : text[i] = ":" /\ \A j \in i + 1 .. Len(text) : IsDigit(text[j])}

(* Mutant: from the left, as if no file had a colon in its name. *)
FileAndLine_Left(text) ==
  LET file == ExtractToken(text, {":"})
      line == ExtractInt(file.rest, {":"})
  IN  [file |-> file.token, line |-> line.value, column |-> Number(line.rest)]

(* Twice at most: what was the line becomes the column. *)
FileAndLine(text) ==
  LET first == CHOOSE i \in LastColon(text) : TRUE
      rest == SubSeq(text, 1, first - 1)
      second == CHOOSE i \in LastColon(rest) : TRUE
  IN  IF LastColon(text) = {} THEN [file |-> text, line |-> 0, column |-> 0]
      ELSE LET n == Number(SubSeq(text, first + 1, Len(text)))
           IN  IF LastColon(rest) = {} THEN [file |-> rest, line |-> n, column |-> 0]
               ELSE [file |-> SubSeq(rest, 1, second - 1),
                     line |-> Number(SubSeq(rest, second + 1, Len(rest))), column |-> n]

ParseFileLineInfo(text) ==
  LET t == ExtractToken(text, {"\n"})
  IN  [info |-> IF t.token = <<>> THEN [file |-> None, line |-> 0, column |-> 0]
                ELSE FileAndLine(t.token),
       rest |-> t.rest]

(* AddressInfo, with the address and the module it is for. *)
NewInfo == [module |-> None, function |-> None, file |-> None, line |-> 0, column |-> 0]
FillModuleInfo(info) == [info EXCEPT !.module = "module"]
DataInfo == [name |-> None, start |-> 0, size |-> 0, file |-> None, line |-> 0]

Known(text) == IF text = Unknown THEN None ELSE text

------------------------------------------------------------------------------
Init ==
  /\ kind \in {"CODE", "DATA", "FRAME"}
  /\ found \in Found(kind)
  /\ str = <<>> /\ cut = 0
  /\ step = "ask" /\ answered = FALSE /\ top_frame = TRUE
  /\ res = CASE kind = "CODE" -> <<FillModuleInfo(NewInfo)>>
             [] kind = "DATA" -> DataInfo
             [] kind = "FRAME" -> <<>>

(* FormatAndSendCommand: the command gets an answer, of which the process    *)
(* may have written only a part.                                           *)
SendCommand ==
  /\ step = "ask"
  /\ cut' \in 0 .. Len(Answer)
  /\ str' = SubSeq(Answer, 1, cut')
  /\ step' = "parse" /\ answered' = TRUE
  /\ UNCHANGED <<kind, found, top_frame, res>>

(* It is too long for its buffer, or the symbolizer cannot be asked: what   *)
(* is known of the module is all there is.                                 *)
NoAnswer ==
  /\ step = "ask"
  /\ step' = "done"
  /\ UNCHANGED <<kind, found, str, cut, answered, top_frame, res>>

(* A turn of ParseSymbolizePCOutput's loop.  The first frame is that of the  *)
(* address; the ones it is inlined into get its module.                     *)
ParseFrame ==
  LET function == ExtractToken(str, {"\n"})
      place == ParseFileLineInfo(function.rest)
      info == [FillModuleInfo(NewInfo) EXCEPT
                 !.function = Known(function.token), !.file = Known(place.info.file),
                 !.line = place.info.line, !.column = place.info.column]
  IN  /\ step = "parse" /\ kind = "CODE"
      /\ function.token # <<>>
      /\ res' = IF top_frame THEN <<info>> ELSE Append(res, info)
      /\ str' = place.rest
      /\ top_frame' = FALSE
      /\ UNCHANGED <<kind, found, cut, step, answered>>

NoMoreFrames ==
  /\ step = "parse" /\ kind = "CODE"
  /\ ExtractToken(str, {"\n"}).token = <<>>
  /\ step' = "done"
  /\ UNCHANGED <<kind, found, str, cut, answered, top_frame, res>>

(* ParseSymbolizeDataOutput, and the base that SymbolizeData adds. *)
ParseGlobal ==
  LET name == ExtractToken(str, {"\n"})
      start == ExtractInt(name.rest, {" "})
      size == ExtractInt(start.rest, {"\n"})
      file == ExtractToken(size.rest, {":"})
      line == ExtractInt(file.rest, {"\n"})
  IN  /\ step = "parse" /\ kind = "DATA"
      /\ res' = [name |-> name.token, start |-> start.value + Base, size |-> size.value,
                 file |-> file.token, line |-> line.value]
      /\ step' = "done"
      /\ UNCHANGED <<kind, found, str, cut, answered, top_frame>>

(* Is a number there?  An unknown one is "??". *)
Has(text) == ~Starts(text, Unknown)

(* A turn of ParseSymbolizeFrameOutput's loop, which goes on to the end of   *)
(* the text: the empty line makes a local too, of no size.                  *)
ParseLocal ==
  LET function == ExtractToken(str, {"\n"})
      name == ExtractToken(function.rest, {"\n"})
      place == ParseFileLineInfo(name.rest)
      offset == ExtractInt(place.rest, {" "})
      size == ExtractInt(offset.rest, {" "})
      tag == ExtractInt(size.rest, {"\n"})
  IN  /\ step = "parse" /\ kind = "FRAME"
      /\ str # <<>> /\ (res = <<>> => Has(str))
      /\ res' = Append(res,
           [function |-> function.token, name |-> name.token,
            file |-> place.info.file, line |-> place.info.line,
            offset |-> IF Has(place.rest) THEN offset.value ELSE None,
            size |-> IF Has(offset.rest) THEN size.value ELSE None,
            tag |-> IF Has(size.rest) THEN tag.value ELSE None])
      /\ str' = tag.rest
      /\ UNCHANGED <<kind, found, cut, step, answered, top_frame>>

NoMoreLocals ==
  /\ step = "parse" /\ kind = "FRAME"
  /\ str = <<>> \/ (res = <<>> /\ ~Has(str))
  /\ step' = "done"
  /\ UNCHANGED <<kind, found, str, cut, answered, top_frame, res>>

Next ==
  \/ SendCommand \/ NoAnswer
  \/ ParseFrame \/ NoMoreFrames
  \/ ParseGlobal
  \/ ParseLocal \/ NoMoreLocals

Spec == Init /\ [][Next]_vars

------------------------------------------------------------------------------
(* Properties *)

Done(k) == step = "done" /\ answered /\ kind = k
Whole == cut = Len(Answer)

(* What a frame that has been found is in the report. *)
Symbolized(f) ==
  [module |-> "module", function |-> Known(f.function), file |-> Known(f.place.file),
   line |-> f.place.line,
   column |-> IF f.place.column = None THEN 0 ELSE f.place.column]

(* A CODE answer gives the frames that were found, in their order, with      *)
(* None for what is unknown; one cut short gives the first of them, and the  *)
(* last of these may be known in part only.                                *)
FramesExact ==
  Done("CODE") =>
    /\ Len(res) <= Len(found)
    /\ Whole => Len(res) = Len(found)
    /\ \A i \in DOMAIN res : Whole \/ i < Len(res) => res[i] = Symbolized(found[i])

(* A DATA answer gives the global that was found, where it is loaded; of one *)
(* cut short what its whole lines say is right.                             *)
GlobalExact ==
  LET ends == {i \in 1 .. cut : Answer[i] = "\n"}
  IN  Done("DATA") =>
        /\ Cardinality(ends) >= 1 => res.name = found.name
        /\ Cardinality(ends) >= 2 => res.start = found.start + Base /\ res.size = found.size
        /\ Cardinality(ends) >= 3 /\ found.file # None =>
             res.file = found.file /\ res.line = found.line

(* A local that covers an address: the ones PrintStackAllocations goes on    *)
(* with (hwasan_report.cpp:197).                                           *)
Covers(l) == l.offset # None /\ l.tag # None /\ l.size # None /\ l.size > 0

(* A FRAME answer gives the locals that were found, and besides them none    *)
(* that covers an address; one cut short gives the first of them, and the   *)
(* last of these may be known in part only.                                *)
LocalsExact ==
  Done("FRAME") =>
    /\ Whole => Len(res) >= Len(found)
    /\ \A i \in DOMAIN res :
         /\ i > Len(found) => ~Covers(res[i])
         /\ i <= Len(found) /\ (Whole \/ i < Len(res)) => res[i] = found[i]

==============================================================================
