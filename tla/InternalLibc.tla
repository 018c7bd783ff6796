----------------------------- MODULE InternalLibc -----------------------------
(***************************************************************************)
(* The memory and string functions that the runtime uses instead of libc's *)
(* (sanitizer_libc.cpp, and those of sanitizer_common.cpp and               *)
(* sanitizer_linux.cpp built on them).  A behaviour calls one of them on a  *)
(* small memory, or on short texts, and stops.                             *)
(***************************************************************************)
EXTENDS Integers, Sequences, SequencesExt, FiniteSets

CONSTANTS
  Cells,      \* bytes of memory
  Bytes,      \* the bytes in it, 0 among them
  Digits,     \* the characters of numbers
  UMax,       \* UINT64_MAX, odd; INT64_MAX is half of it
  Word,       \* sizeof(uptr)
  TextLength  \* bound: characters of templates, texts and environments

VARIABLES
  before,  \* the memory before the call
  memory,  \* the memory
  call,    \* the function called and its arguments, or [f |-> "none"]
  result   \* what it returned

vars == <<before, memory, call, result>>

Addr == 0 .. Cells - 1
Upto(n) == [i \in 1 .. n |-> i - 1]
Texts(chars, n) == UNION {[1 .. k -> chars] : k \in 0 .. n}

Init ==
  /\ before \in [Addr -> Bytes] \cup [Addr -> Digits \cup {0}]
  /\ memory = before
  /\ call = [f |-> "none"] /\ result = 0

------------------------------------------------------------------------------
(* Memory *)

Char(b) == IF b > 127 THEN b - 256 ELSE b
Least(S) == CHOOSE x \in S : \A y \in S : x <= y

(* internal_memcpy: from the first byte on. *)
Memcpy(m, d, s, n) ==
  FoldLeft(LAMBDA r, i : [r EXCEPT ![d + i] = r[s + i]], m, Upto(n))

(* Mutant: always from the first byte on. *)
Memmove_Forward(m, d, s, n) == Memcpy(m, d, s, n)

(* internal_memmove: from the last byte on where that is to be moved up. *)
Memmove(m, d, s, n) ==
  IF d < s THEN Memcpy(m, d, s, n)
  ELSE IF d > s THEN FoldLeft(LAMBDA r, i : [r EXCEPT ![d + i] = r[s + i]], m, Reverse(Upto(n)))
  ELSE m

Memset(m, s, c, n) == [a \in Addr |-> IF a \in s .. s + n - 1 THEN c ELSE m[a]]

(* internal_memcmp, on chars, which have a sign. *)
Memcmp(m, s1, s2, n) ==
  LET differ == {i \in 0 .. n - 1 : m[s1 + i] # m[s2 + i]}
      i == Least(differ)
  IN  IF differ = {} THEN 0 ELSE IF Char(m[s1 + i]) < Char(m[s2 + i]) THEN -1 ELSE 1

(* mem_is_zero: the bytes before the first whole word, the words, the rest.  *)
ReadByMemIsZero(b, n) ==
  LET end == b + n
      alignedBeg == ((b + Word - 1) \div Word) * Word
      alignedEnd == (end \div Word) * Word
  IN  {a \in b .. end - 1 : a < alignedBeg}
        \cup (alignedBeg .. alignedEnd - 1)
        \cup (IF alignedEnd >= b THEN alignedEnd .. end - 1 ELSE {})
MemIsZero(m, b, n) == \A a \in ReadByMemIsZero(b, n) : m[a] = 0

------------------------------------------------------------------------------
(* Strings: the bytes from an address to the next 0 *)

HasString(m, s) == \E a \in s .. Cells - 1 : m[a] = 0
Strlen(m, s) == Least({i \in 0 .. Cells - 1 - s : m[s + i] = 0})
Strnlen(m, s, n) == Least({n} \cup {i \in 0 .. n - 1 : s + i < Cells /\ m[s + i] = 0})

(* internal_strncmp, and internal_strcmp with n = Cells: chars as unsigned. *)
Strncmp(m, s1, s2, n) ==
  LET stops == {i \in 0 .. n - 1 :
                  /\ i <= Strlen(m, s1) /\ i <= Strlen(m, s2)
                  /\ m[s1 + i] # m[s2 + i] \/ m[s1 + i] = 0}
      i == Least(stops)
  IN  IF stops = {} \/ m[s1 + i] = m[s2 + i] THEN 0
      ELSE IF m[s1 + i] < m[s2 + i] THEN -1 ELSE 1

(* Mutant: no byte is kept for the 0. *)
Strlcpy_Whole(m, d, s, size) ==
  IF Strlen(m, s) < size THEN Memmove(m, d, s, Strlen(m, s) + 1)
  ELSE Memmove(m, d, s, size)

Strlcpy(m, d, s, size) ==
  IF Strlen(m, s) < size THEN Memmove(m, d, s, Strlen(m, s) + 1)
  ELSE IF size = 0 THEN m
  ELSE [Memmove(m, d, s, size - 1) EXCEPT ![d + size - 1] = 0]

Strlcat(m, d, s, size) ==
  LET dstlen == Strnlen(m, d, size)
      srclen == Strlen(m, s)
  IN  IF dstlen = size THEN m
      ELSE IF srclen < size - dstlen THEN Memmove(m, d + dstlen, s, srclen + 1)
      ELSE [Memmove(m, d + dstlen, s, size - dstlen - 1) EXCEPT ![d + size - 1] = 0]

Strncat(m, d, s, n) ==
  LET copied == Strnlen(m, s, n)
      len == Strlen(m, d)
  IN  [Memcpy(m, d + len, s, copied) EXCEPT ![d + len + copied] = 0]

Strncpy(m, d, s, n) ==
  LET copied == Strnlen(m, s, n)
  IN  Memset(Memcpy(m, d, s, copied), d + copied, 0, n - copied)

(* internal_strstr: the first place, or -1. *)
Strstr(m, s, needle) ==
  LET len == Strlen(m, needle)
      at == {p \in 0 .. Strlen(m, s) - len : Memcmp(m, s + p, needle, len) = 0}
  IN  IF at = {} THEN -1 ELSE s + Least(at)

(* Mutant: the product may be larger than a u64. *)
Shifted_Wraps(value) == (value * 10) % (UMax + 1)

Shifted(value) == IF value <= UMax \div 10 THEN value * 10 ELSE UMax

AddDigit(value, digit) ==
  IF Shifted(value) <= UMax - digit THEN Shifted(value) + digit ELSE UMax

(* internal_simple_strtoll: the value and the end. *)
Strtoll(m, s) ==
  LET signed == s + Least({i \in 0 .. Cells - 1 - s : m[s + i] # 32})
      first == IF m[signed] \in {43, 45} THEN signed + 1 ELSE signed
      count == Least({i \in 0 .. Cells - 1 - first : m[first + i] \notin 48 .. 57})
      value == FoldLeft(LAMBDA v, i : AddDigit(v, m[first + i] - 48), 0, Upto(count))
      limit == UMax \div 2
  IN  [value |-> IF m[signed] # 45 THEN (IF value < limit THEN value ELSE limit)
                 ELSE IF value > limit THEN -limit - 1 ELSE -value,
       end |-> IF count > 0 THEN first + count ELSE signed]

------------------------------------------------------------------------------
(* Texts: characters are the letters "a" and "b" and signs with a meaning *)

Prefix(t, n) == SubSeq(t, 1, n)
From(t, i) == SubSeq(t, i, Len(t))
(* The places of a piece in a text. *)
Places(t, piece) == {i \in 0 .. Len(t) - Len(piece) : SubSeq(t, i + 1, i + Len(piece)) = piece}

(* TemplateMatch, after a ^ at the beginning. *)
RECURSIVE MatchFrom(_, _, _, _)
MatchFrom(templ, str, start, asterisk) ==
  IF templ = <<>> THEN TRUE
  ELSE IF Head(templ) = "*" THEN MatchFrom(Tail(templ), str, FALSE, TRUE)
  ELSE IF Head(templ) = "$" THEN str = <<>> \/ asterisk
  ELSE IF str = <<>> THEN FALSE
  ELSE LET length == Least({n \in 1 .. Len(templ) : n = Len(templ) \/ templ[n + 1] \in {"*", "$"}})
           places == Places(str, Prefix(templ, length))
       IN  /\ places # {}
           /\ start => 0 \in places
           /\ MatchFrom(From(templ, length + 1), From(str, Least(places) + length + 1), FALSE, FALSE)

TemplateMatch(templ, str) ==
  /\ str # <<>>
  /\ IF templ # <<>> /\ Head(templ) = "^" THEN MatchFrom(Tail(templ), str, TRUE, FALSE)
     ELSE MatchFrom(templ, str, FALSE, FALSE)

(* GetEnv, in the text of /proc/self/environ with "0" for the character 0:  *)
(* the value's place, or 0.                                                *)
RECURSIVE EnvFrom(_, _, _)
EnvFrom(environ, p, name) ==
  LET ends == {i \in p .. Len(environ) : environ[i] = "0"}
  IN  IF p > Len(environ) \/ environ[p] = "0" \/ ends = {} THEN 0
      ELSE IF /\ p + Len(name) <= Len(environ) /\ environ[p + Len(name)] = "="
              /\ SubSeq(environ, p, p + Len(name) - 1) = name
      THEN p + Len(name) + 1
      ELSE EnvFrom(environ, Least(ends) + 1, name)
GetEnv(environ, name) == EnvFrom(environ, 1, name)

------------------------------------------------------------------------------
(* Calls *)

Return(c, m, r) == call' = c /\ memory' = m /\ result' = r /\ UNCHANGED before

Disjoint(d, s) == Cardinality(d) = 0 \/ d \cap s = {}

InBytes == \A a \in Addr : memory[a] \in Bytes

CopyMemory ==
  /\ InBytes
  /\ \E d \in Addr, s \in Addr, n \in 0 .. Cells, f \in {"memcpy", "memmove"} :
       /\ d + n <= Cells /\ s + n <= Cells
       /\ f = "memcpy" => Disjoint(d .. d + n - 1, s .. s + n - 1)
       /\ Return([f |-> f, d |-> d, s |-> s, n |-> n],
                 IF f = "memcpy" THEN Memcpy(memory, d, s, n) ELSE Memmove(memory, d, s, n), d)

(* The string written has its n bytes to itself. *)
CopyString ==
  /\ InBytes
  /\ \E d \in Addr, s \in Addr, n \in 0 .. Cells :
       /\ d + n <= Cells /\ HasString(memory, s)
       /\ Disjoint(d .. d + n - 1, s .. s + Strlen(memory, s))
       /\ \/ Return([f |-> "strlcpy", d |-> d, s |-> s, n |-> n],
                    Strlcpy(memory, d, s, n), Strlen(memory, s))
          \/ Return([f |-> "strlcat", d |-> d, s |-> s, n |-> n],
                    Strlcat(memory, d, s, n), Strnlen(memory, d, n) + Strlen(memory, s))
          \/ Return([f |-> "strncpy", d |-> d, s |-> s, n |-> n], Strncpy(memory, d, s, n), d)

(* The bytes written, from the end of the string on, are not the source's. *)
AppendString ==
  /\ InBytes
  /\ \E d \in Addr, s \in Addr, n \in 0 .. Cells :
       /\ HasString(memory, d) /\ HasString(memory, s)
       /\ LET end == d + Strlen(memory, d) + Strnlen(memory, s, n)
          IN  end < Cells /\ Disjoint(d .. end, s .. s + Strlen(memory, s))
       /\ Return([f |-> "strncat", d |-> d, s |-> s, n |-> n], Strncat(memory, d, s, n), d)

CompareAndSearch ==
  /\ InBytes
  /\ \E d \in Addr, s \in Addr, n \in 0 .. Cells :
       \/ /\ d + n <= Cells /\ s + n <= Cells
          /\ Return([f |-> "memcmp", d |-> d, s |-> s, n |-> n], memory, Memcmp(memory, d, s, n))
       \/ /\ HasString(memory, d) /\ HasString(memory, s)
          /\ \/ Return([f |-> "strncmp", d |-> d, s |-> s, n |-> n], memory,
                       Strncmp(memory, d, s, n))
             \/ Return([f |-> "strstr", d |-> d, s |-> s, n |-> 0], memory, Strstr(memory, d, s))
       \/ /\ d + n <= Cells
          /\ Return([f |-> "mem_is_zero", d |-> d, s |-> 0, n |-> n], memory, MemIsZero(memory, d, n))

ParseNumber ==
  \E s \in Addr :
    /\ HasString(memory, s)
    /\ Return([f |-> "strtoll", s |-> s], memory, Strtoll(memory, s))

(* On texts the memory plays no part: they are taken once. *)
OnTexts ==
  /\ \A a \in Addr : memory[a] = 0
  /\ \/ \E templ \in Texts({"^", "*", "$", "a", "b"}, TextLength), str \in Texts({"a", "b"}, TextLength) :
          Return([f |-> "template", templ |-> templ, str |-> str], memory, TemplateMatch(templ, str))
     \/ \E environ \in Texts({"a", "b", "=", "0"}, TextLength + 1), name \in Texts({"a", "b"}, 2) \ {<<>>} :
          Return([f |-> "getenv", environ |-> environ, name |-> name], memory, GetEnv(environ, name))

Next ==
  /\ call.f = "none"
  /\ CopyMemory \/ CopyString \/ AppendString \/ CompareAndSearch \/ ParseNumber \/ OnTexts

Spec == Init /\ [][Next]_vars

------------------------------------------------------------------------------
(* Properties *)

Take(t, n) == IF n < Len(t) THEN Prefix(t, n) ELSE t
ByteSeq(s, n) == [i \in 1 .. n |-> before[s + i - 1]]
StringAt(s) == ByteSeq(s, Strlen(before, s))
Overwritten(p, t) == [a \in Addr |-> IF a \in p .. p + Len(t) - 1 THEN t[a - p + 1] ELSE before[a]]

(* What a copy should have written, at which address. *)
Expected ==
  LET d == call.d
      n == call.n
  IN  CASE call.f \in {"memcpy", "memmove"} -> Overwritten(d, ByteSeq(call.s, n))
        [] call.f = "strlcpy" ->
             Overwritten(d, IF n = 0 THEN <<>> ELSE Append(Take(StringAt(call.s), n - 1), 0))
        [] call.f = "strlcat" ->
             LET end == Strnlen(before, d, n)
             IN  Overwritten(d + end, IF end = n THEN <<>>
                                      ELSE Append(Take(StringAt(call.s), n - 1 - end), 0))
        [] call.f = "strncpy" ->
             Overwritten(d, [i \in 1 .. n |-> IF i <= Strlen(before, call.s)
                                              THEN before[call.s + i - 1] ELSE 0])
        [] call.f = "strncat" ->
             Overwritten(d + Strlen(before, d), Append(Take(StringAt(call.s), n), 0))

(* A copy writes what it is to write, whether or not its ranges overlap, ends *)
(* a string within the size it was given, and leaves every other byte.      *)
CopiesExact ==
  call.f \in {"memcpy", "memmove", "strlcpy", "strlcat", "strncpy", "strncat"} =>
    memory = Expected

Decimal(t) == FoldLeft(LAMBDA v, c : 10 * v + (c - 48), 0, t)
IsNumber(t) == t # <<>> /\ \A i \in 1 .. Len(t) : t[i] \in 48 .. 57

(* The longest number after spaces and a sign, at the end of the range of    *)
(* s64 where it is beyond it, and where it ends.                           *)
StrtollExact ==
  \A signed \in Addr, first \in Addr, end \in Addr :
    /\ call.s <= signed /\ first < end
    /\ \A a \in call.s .. signed - 1 : before[a] = 32
    /\ IF before[signed] \in {43, 45} THEN first = signed + 1 ELSE first = signed
    /\ IsNumber(ByteSeq(first, end - first)) /\ before[end] \notin 48 .. 57
    => LET limit == UMax \div 2
           number == Decimal(ByteSeq(first, end - first))
           value == IF before[signed] = 45 THEN -number ELSE number
       IN  result = [value |-> IF value > limit THEN limit
                               ELSE IF value < -limit - 1 THEN -limit - 1 ELSE value,
                     end |-> end]

(* Whether a template matches from a place on. *)
RECURSIVE Fits(_, _)
Fits(templ, str) ==
  IF templ = <<>> THEN TRUE
  ELSE IF Head(templ) = "*" THEN \E i \in 1 .. Len(str) + 1 : Fits(Tail(templ), From(str, i))
  ELSE IF Head(templ) = "$" THEN str = <<>>
  ELSE str # <<>> /\ Head(str) = Head(templ) /\ Fits(Tail(templ), Tail(str))

(* A match is one, and without a $ every match is found. *)
TemplateExact ==
  LET templ == call.templ
      matches == IF templ # <<>> /\ Head(templ) = "^" THEN Fits(Tail(templ), call.str)
                 ELSE \E i \in 1 .. Len(call.str) + 1 : Fits(templ, From(call.str, i))
  IN  call.str # <<>> =>
        /\ result => matches
        /\ (\A i \in 1 .. Len(templ) : templ[i] # "$") => (matches => result)

(* The value of the first variable of that name before an empty one. *)
GetEnvExact ==
  LET environ == call.environ
      starts == {p \in 1 .. Len(environ) :
                   /\ p = 1 \/ environ[p - 1] = "0"
                   /\ \E i \in p .. Len(environ) : environ[i] = "0"
                   /\ \A i \in 1 .. p - 1 : environ[i] = "0" => environ[i + 1] # "0" /\ environ[1] # "0"}
      named == {p \in starts : \E v \in p .. Len(environ) :
                  SubSeq(environ, p, v) = Append(call.name, "=")}
  IN  result = IF named = {} THEN 0 ELSE Least(named) + Len(call.name) + 1

(* What a search, a comparison or a parser returns is what its text says, and *)
(* mem_is_zero reads its own bytes only.                                    *)
ResultsExact ==
  /\ call.f = "strtoll" => StrtollExact
  /\ call.f = "template" => TemplateExact
  /\ call.f = "getenv" => GetEnvExact
  /\ call.f = "strstr" =>
       result = LET at == Places(StringAt(call.d), StringAt(call.s))
                IN  IF at = {} THEN -1 ELSE call.d + Least(at)
  /\ call.f = "strncmp" =>
       (result = 0 <=> Take(StringAt(call.d), call.n) = Take(StringAt(call.s), call.n))
  /\ call.f = "mem_is_zero" =>
       /\ ReadByMemIsZero(call.d, call.n) = call.d .. call.d + call.n - 1
       /\ result <=> \A i \in 0 .. call.n - 1 : before[call.d + i] = 0

==============================================================================
