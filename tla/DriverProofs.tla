---------------------------- MODULE DriverProofs ----------------------------
(***************************************************************************)
(* CommandLineExact and LinkExact, of the part of MCProgram that is the     *)
(* driver, hold for command lines of any length, of any values and for any  *)
(* target: what the driver gathers from the last argument to the first is   *)
(* compared, argument by argument, with what they ask for from the first to *)
(* the last.                                                               *)
(***************************************************************************)
EXTENDS ProgramProofs

------------------------------------------------------------------------------
(* Induction over a fold.  A fold of the community modules is a function of  *)
(* sets, chosen by the equation it satisfies: that there is one follows from  *)
(* the least number, and its values at the prefixes (or the suffixes) of a     *)
(* sequence are those of a loop.                                           *)

(* What a fold is: elements are taken one by one, in the order of c, from a   *)
(* finite set, and each is a step from one value to the next.               *)
Folds(h, base, step, c, S) ==
  \A s \in SUBSET S : h[s] = IF s = {} THEN base ELSE step[c[s]][h[s \ {c[s]}]]

Chooses(c, S) == \A s \in SUBSET S : s # {} => c[s] \in s

LEMMA FoldExists ==
  ASSUME NEW S, IsFiniteSet(S), NEW V, NEW base \in V, NEW step \in [S -> [V -> V]],
         NEW c, Chooses(c, S)
  PROVE  \E h \in [SUBSET S -> V] : Folds(h, base, step, c, S)
<1> DEFINE Next1(h, s) == IF s = {} THEN base ELSE step[c[s]][h[s \ {c[s]}]]
           UpTo(m, h) == \A s \in SUBSET S : Cardinality(s) <= m => h[s] = Next1(h, s)
           Good(m) == \E h \in [SUBSET S -> V] : UpTo(m, h)
           Bad == {m \in Nat : ~Good(m)}
<1>0. \A s \in SUBSET S : s # {} => c[s] \in s
  BY DEF Chooses
<1>1. ASSUME NEW h \in [SUBSET S -> V], NEW s \in SUBSET S PROVE Next1(h, s) \in V
  <2>1. s # {} => c[s] \in S /\ s \ {c[s]} \in SUBSET S
    BY <1>0
  <2> QED
    BY <2>1
<1>2. ASSUME NEW s \in SUBSET S
      PROVE  /\ Cardinality(s) \in Nat /\ Cardinality(s) <= Cardinality(S)
             /\ s # {} => Cardinality(s \ {c[s]}) = Cardinality(s) - 1
             /\ Cardinality(s) <= 0 => s = {}
  <2>1. IsFiniteSet(s) /\ Cardinality(s) <= Cardinality(S)
    BY FS_Subset
  <2> QED
    <3>1. Cardinality(s) \in Nat
      BY <2>1, FS_CardinalityType
    <3>2. ASSUME s # {} PROVE Cardinality(s \ {c[s]}) = Cardinality(s) - 1
      BY <2>1, <3>2, <1>0, FS_RemoveElement
    <3>3. Cardinality(s) <= 0 => s = {}
      BY <2>1, <3>1, FS_EmptySet
    <3> QED
      BY <2>1, <3>1, <3>2, <3>3
<1>3. Good(0)
  <2>1. [s \in SUBSET S |-> base] \in [SUBSET S -> V]
    OBVIOUS
  <2>2. UpTo(0, [s \in SUBSET S |-> base])
    BY <1>2
  <2> QED
    BY <2>1, <2>2
<1>4. ASSUME NEW m \in Nat, Good(m) PROVE Good(m + 1)
  <2>1. PICK h \in [SUBSET S -> V] : UpTo(m, h)
    BY <1>4
  <2> DEFINE k == [s \in SUBSET S |-> Next1(h, s)]
  <2>2. k \in [SUBSET S -> V]
    BY <1>1
  <2>3. ASSUME NEW s \in SUBSET S, Cardinality(s) <= m + 1 PROVE k[s] = Next1(k, s)
    <3>1. CASE s = {}
      BY <3>1
    <3>2. CASE s # {}
      <4> DEFINE r == s \ {c[s]}
      <4>1. r \in SUBSET S /\ Cardinality(r) <= m
        BY <3>2, <2>3, <1>2
      <4>2. h[r] = Next1(h, r)
        BY <4>1, <2>1
      <4>3. k[r] = h[r]
        BY <4>1, <4>2
      <4> QED
        BY <4>3, <3>2
    <3> QED
      BY <3>1, <3>2
  <2>4. UpTo(m + 1, k)
    <3> HIDE DEF k, Next1
    <3> QED
      BY <2>3
  <2> QED
    <3> HIDE DEF k, UpTo
    <3> QED
      BY <2>2, <2>4
<1>5. Bad = {}
  <2> SUFFICES ASSUME Bad # {} PROVE FALSE
    OBVIOUS
  <2>1. Bad \in SUBSET Nat
    OBVIOUS
  <2> HIDE DEF Good
  <2>2. PICK b \in Bad : \A d \in Bad : b <= d
    <3> HIDE DEF Bad
    <3> QED
      BY <2>1, LeastExists
  <2>3. b \in Nat /\ b # 0
    BY <1>3
  <2>4. b - 1 \in Nat /\ ~(b <= b - 1)
    BY <2>3
  <2>5. Good(b - 1)
    BY <2>2, <2>4
  <2>6. Good((b - 1) + 1) /\ (b - 1) + 1 = b
    BY <2>4, <2>3, <2>5, <1>4
  <2> QED
    BY <2>6
<1>6. Good(Cardinality(S))
  <2>1. Cardinality(S) \in Nat
    BY FS_CardinalityType
  <2> HIDE DEF Good
  <2> QED
    BY <2>1, <1>5
<1>7. PICK h \in [SUBSET S -> V] : UpTo(Cardinality(S), h)
  BY <1>6
<1>8. \A s \in SUBSET S : h[s] = Next1(h, s)
  <2> HIDE DEF Next1
  <2> QED
    BY <1>7, <1>2
<1> QED
  BY <1>8 DEF Folds

(* To prove of all numbers of a finite interval. *)
LEMMA Upwards ==
  ASSUME NEW n \in Nat, NEW good \in SUBSET (0..n),
         0 \in good, \A i \in 1..n : i - 1 \in good => i \in good
  PROVE  good = 0..n
<1> DEFINE Bad == (0..n) \ good
<1> SUFFICES ASSUME Bad # {} PROVE FALSE
  OBVIOUS
<1>1. Bad \in SUBSET Nat
  OBVIOUS
<1>2. PICK b \in Bad : \A d \in Bad : b <= d
  <2> HIDE DEF Bad
  <2> QED
    BY <1>1, LeastExists
<1>3. b \in 1..n /\ b - 1 \in 0..n /\ ~(b <= b - 1)
  OBVIOUS
<1>4. b - 1 \in good
  BY <1>2, <1>3
<1> QED
  BY <1>3, <1>4

LEMMA Downwards ==
  ASSUME NEW n \in Nat, NEW good \in SUBSET (1..n + 1),
         n + 1 \in good, \A i \in 1..n : i + 1 \in good => i \in good
  PROVE  good = 1..n + 1
<1> DEFINE up == {i \in 0..n : n + 1 - i \in good}
<1>1. 0 \in up
  OBVIOUS
<1>2. ASSUME NEW i \in 1..n, i - 1 \in up PROVE i \in up
  <2> DEFINE j == n + 1 - i
  <2>1. j \in 1..n /\ j + 1 = n + 1 - (i - 1)
    OBVIOUS
  <2>2. j + 1 \in good
    BY <1>2, <2>1
  <2>3. j \in good
    BY <2>1, <2>2
  <2> QED
    BY <2>3
<1>3. up = 0..n
  <2>1. up \in SUBSET (0..n)
    OBVIOUS
  <2> HIDE DEF up
  <2> QED
    BY <2>1, <1>1, <1>2, Upwards
<1>4. ASSUME NEW i \in 1..n + 1 PROVE i \in good
  <2>1. n + 1 - i \in 0..n /\ n + 1 - (n + 1 - i) = i
    OBVIOUS
  <2>2. n + 1 - i \in up
    BY <2>1, <1>3
  <2> QED
    BY <2>1, <2>2
<1> QED
  BY <1>4

LEMMA LowestIs ==
  ASSUME NEW S \in SUBSET Nat, NEW x \in S, \A y \in S : x <= y
  PROVE  D!Min(S) = x
<1> DEFINE m == CHOOSE z \in S : \A y \in S : z <= y
<1>1. m \in S /\ \A y \in S : m <= y
  OBVIOUS
<1>2. m = x
  <2> HIDE DEF m
  <2>1. m \in Nat /\ x \in Nat /\ m <= x /\ x <= m
    BY <1>1
  <2> QED
    BY <2>1
<1> QED
  BY <1>2 DEF D!Min

LEMMA HighestIs ==
  ASSUME NEW S \in SUBSET Nat, NEW x \in S, \A y \in S : x >= y
  PROVE  D!Max(S) = x /\ F!Max(S) = x /\ L!Max(S) = x
<1> DEFINE m == CHOOSE z \in S : \A y \in S : z >= y
<1>1. m \in S /\ \A y \in S : m >= y
  OBVIOUS
<1>2. m = x
  <2> HIDE DEF m
  <2>1. m \in Nat /\ x \in Nat /\ m <= x /\ x <= m
    BY <1>1
  <2> QED
    BY <2>1
<1> QED
  BY <1>2 DEF D!Max, F!Max, L!Max

LEMMA MinIn ==
  ASSUME NEW n \in Nat
  PROVE  \A s \in SUBSET (1..n) : s # {} => D!Min(s) \in s
<1> SUFFICES ASSUME NEW s \in SUBSET (1..n), s # {} PROVE D!Min(s) \in s
  OBVIOUS
<1>1. s \in SUBSET Nat
  OBVIOUS
<1>2. PICK x \in s : \A y \in s : x <= y
  BY <1>1, LeastExists
<1> QED
  BY <1>1, <1>2, LowestIs

LEMMA MaxIn ==
  ASSUME NEW n \in Nat, NEW s \in SUBSET (1..n), s # {}
  PROVE  /\ D!Max(s) \in s /\ \A y \in s : D!Max(s) >= y
         /\ F!Max(s) = D!Max(s) /\ L!Max(s) = D!Max(s)
<1>1. s \in SUBSET Nat
  OBVIOUS
<1>2. IsFiniteSet(1..n)
  BY FS_Interval
<1>3. IsFiniteSet(s)
  BY <1>2, FS_Subset
<1>4. PICK x \in s : \A y \in s : x >= y
  BY <1>1, <1>3, GreatestExists
<1> QED
  BY <1>1, <1>4, HighestIs

(* A fold from the right over the first n numbers, one value for each suffix. *)
RightFold(h, n, base, step) ==
  \A s \in SUBSET (1..n) :
    h[s] = IF s = {} THEN base ELSE step[D!Min(s)][h[s \ {D!Min(s)}]]

(* Of a fold it is known only what a step makes of a value of V.             *)
RightSteps(h, n, V, base, step) ==
  /\ h[{}] = base
  /\ \A s \in SUBSET (1..n) :
       s # {} /\ h[s \ {D!Min(s)}] \in V => h[s] = step[D!Min(s)][h[s \ {D!Min(s)}]]

RightRun(g, n, V, base, step, result) ==
  /\ g \in [1..n + 1 -> V]
  /\ g[n + 1] = base /\ g[1] = result
  /\ \A i \in 1..n : g[i] = step[i][g[i + 1]]

LEMMA Suffixes ==
  ASSUME NEW n \in Nat, NEW V, NEW base, base \in V, NEW step, step \in [1..n -> [V -> V]]
  PROVE  /\ \E h \in [SUBSET (1..n) -> V] : RightFold(h, n, base, step)
         /\ \A h : RightSteps(h, n, V, base, step)
                   => \E g : RightRun(g, n, V, base, step, h[1..n])
<1>1. \E h \in [SUBSET (1..n) -> V] : RightFold(h, n, base, step)
  <2> DEFINE c == [s \in SUBSET (1..n) |-> D!Min(s)]
  <2>1. ASSUME NEW s \in SUBSET (1..n), s # {} PROVE c[s] \in s
    <3>1. s \in SUBSET Nat
      OBVIOUS
    <3>2. PICK x \in s : \A y \in s : x <= y
      BY <3>1, <2>1, LeastExists
    <3>3. D!Min(s) = x
      BY <3>1, <3>2, LowestIs
    <3> QED
      BY <3>3
  <2>2. IsFiniteSet(1..n)
    BY FS_Interval
  <2>3. PICK h \in [SUBSET (1..n) -> V] :
          Folds(h, base, step, c, 1..n)
    <3>1. Chooses(c, 1..n)
      BY <2>1 DEF Chooses
    <3> HIDE DEF c
    <3> QED
      BY <2>2, <3>1, FoldExists
  <2>4. RightFold(h, n, base, step)
    BY <2>3 DEF Folds, RightFold
  <2> QED
    BY <2>4
<1>2. ASSUME NEW h, RightSteps(h, n, V, base, step)
      PROVE  \E g : RightRun(g, n, V, base, step, h[1..n])
  <2>0. /\ h[{}] = base
        /\ \A s \in SUBSET (1..n) :
             s # {} /\ h[s \ {D!Min(s)}] \in V => h[s] = step[D!Min(s)][h[s \ {D!Min(s)}]]
    BY <1>2 DEF RightSteps
  <2> DEFINE g == [i \in 1..n + 1 |-> h[i..n]]
             good == {i \in 1..n + 1 : g[i] \in V}
  <2>1. n + 1 \in 1..n + 1 /\ (n + 1)..n = {} /\ 1 \in 1..n + 1
    OBVIOUS
  <2>2. g[n + 1] = base /\ g[1] = h[1..n]
    BY <2>1, <2>0
  <2>3. ASSUME NEW i \in 1..n, i + 1 \in good
        PROVE  g[i] = step[i][g[i + 1]] /\ i \in good
    <3>1. /\ i..n \in SUBSET (1..n) /\ i \in i..n /\ i..n \in SUBSET Nat
          /\ \A y \in i..n : i <= y
          /\ (i..n) \ {i} = (i + 1)..n /\ i + 1 \in 1..n + 1 /\ i \in 1..n + 1
      OBVIOUS
    <3>2. D!Min(i..n) = i
      BY <3>1, LowestIs
    <3>3. h[(i..n) \ {D!Min(i..n)}] = g[i + 1] /\ g[i + 1] \in V
      BY <3>1, <3>2, <2>3
    <3>4. h[i..n] = step[i][g[i + 1]]
      <4> HIDE DEF g
      <4> QED
        BY <3>1, <3>2, <3>3, <2>0
    <3>5. step[i] \in [V -> V]
      OBVIOUS
    <3> QED
      BY <3>1, <3>3, <3>4, <3>5
  <2>4. good = 1..n + 1
    <3>1. good \in SUBSET (1..n + 1) /\ n + 1 \in good
      BY <2>1, <2>2
    <3> HIDE DEF good, g
    <3> QED
      BY <3>1, <2>3, Downwards
  <2>5. \A i \in 1..n : i + 1 \in 1..n + 1
    OBVIOUS
  <2>6. g \in [1..n + 1 -> V]
    BY <2>4
  <2> HIDE DEF g
  <2> QED
    <3>1. \A i \in 1..n : g[i] = step[i][g[i + 1]]
      BY <2>3, <2>4, <2>5
    <3> QED
      BY <3>1, <2>2, <2>6 DEF RightRun
<1> QED
  BY <1>1, <1>2

(* A fold from the left, one value for each prefix. *)
LeftFold(h, n, base, step) ==
  \A s \in SUBSET (1..n) :
    h[s] = IF s = {} THEN base ELSE step[D!Max(s)][h[s \ {D!Max(s)}]]

(* Of a fold it is known only what a step makes of a value of V.             *)
LeftSteps(h, n, V, base, step) ==
  /\ h[{}] = base
  /\ \A s \in SUBSET (1..n) :
       s # {} /\ h[s \ {D!Max(s)}] \in V => h[s] = step[D!Max(s)][h[s \ {D!Max(s)}]]

LeftRun(g, n, V, base, step, result) ==
  /\ g \in [0..n -> V]
  /\ g[0] = base /\ g[n] = result
  /\ \A i \in 1..n : g[i] = step[i][g[i - 1]]

LEMMA Prefixes ==
  ASSUME NEW n \in Nat, NEW V, NEW base, base \in V, NEW step, step \in [1..n -> [V -> V]]
  PROVE  /\ \E h \in [SUBSET (1..n) -> V] : LeftFold(h, n, base, step)
         /\ \A h : LeftSteps(h, n, V, base, step)
                   => \E g : LeftRun(g, n, V, base, step, h[1..n])
<1>1. \E h \in [SUBSET (1..n) -> V] : LeftFold(h, n, base, step)
  <2> DEFINE c == [s \in SUBSET (1..n) |-> D!Max(s)]
  <2>2. IsFiniteSet(1..n)
    BY FS_Interval
  <2>1. ASSUME NEW s \in SUBSET (1..n), s # {} PROVE c[s] \in s
    <3>0. s \in SUBSET Nat
      OBVIOUS
    <3>1. IsFiniteSet(s)
      BY <2>2, FS_Subset
    <3>2. PICK x \in s : \A y \in s : x >= y
      BY <3>0, <3>1, <2>1, GreatestExists
    <3>3. D!Max(s) = x
      BY <3>0, <3>2, HighestIs
    <3> QED
      BY <3>3
  <2>3. PICK h \in [SUBSET (1..n) -> V] :
          Folds(h, base, step, c, 1..n)
    <3>1. Chooses(c, 1..n)
      BY <2>1 DEF Chooses
    <3> HIDE DEF c
    <3> QED
      BY <2>2, <3>1, FoldExists
  <2>4. LeftFold(h, n, base, step)
    BY <2>3 DEF Folds, LeftFold
  <2> QED
    BY <2>4
<1>2. ASSUME NEW h, LeftSteps(h, n, V, base, step)
      PROVE  \E g : LeftRun(g, n, V, base, step, h[1..n])
  <2>0. /\ h[{}] = base
        /\ \A s \in SUBSET (1..n) :
             s # {} /\ h[s \ {D!Max(s)}] \in V => h[s] = step[D!Max(s)][h[s \ {D!Max(s)}]]
    BY <1>2 DEF LeftSteps
  <2> DEFINE g == [i \in 0..n |-> h[1..i]]
             good == {i \in 0..n : g[i] \in V}
  <2>1. 0 \in 0..n /\ n \in 0..n /\ 1..0 = {}
    OBVIOUS
  <2>2. g[0] = base /\ g[n] = h[1..n]
    BY <2>1, <2>0
  <2>3. ASSUME NEW i \in 1..n, i - 1 \in good
        PROVE  g[i] = step[i][g[i - 1]] /\ i \in good
    <3>1. /\ 1..i \in SUBSET (1..n) /\ i \in 1..i /\ 1..i \in SUBSET Nat
          /\ \A y \in 1..i : i >= y
          /\ (1..i) \ {i} = 1..(i - 1) /\ i - 1 \in 0..n /\ i \in 0..n
      OBVIOUS
    <3>2. D!Max(1..i) = i
      BY <3>1, HighestIs
    <3>3. h[(1..i) \ {D!Max(1..i)}] = g[i - 1] /\ g[i - 1] \in V
      BY <3>1, <3>2, <2>3
    <3>4. h[1..i] = step[i][g[i - 1]]
      <4> HIDE DEF g
      <4> QED
        BY <3>1, <3>2, <3>3, <2>0
    <3>5. step[i] \in [V -> V]
      OBVIOUS
    <3> QED
      BY <3>1, <3>3, <3>4, <3>5
  <2>4. good = 0..n
    <3>1. good \in SUBSET (0..n) /\ 0 \in good
      BY <2>1, <2>2
    <3> HIDE DEF good, g
    <3> QED
      BY <3>1, <2>3, Upwards
  <2>5. \A i \in 1..n : i - 1 \in 0..n
    OBVIOUS
  <2>6. g \in [0..n -> V]
    BY <2>4
  <2> HIDE DEF g
  <2> QED
    <3>1. \A i \in 1..n : g[i] = step[i][g[i - 1]]
      BY <2>3, <2>4, <2>5
    <3> QED
      BY <3>1, <2>2, <2>6 DEF LeftRun
<1> QED
  BY <1>1, <1>2

------------------------------------------------------------------------------
(* What the driver makes of a command line *)

Numbered == \E n \in Nat : DOMAIN args = 1..n

(* All that a command line can name. *)
Known ==
  D!Kinds \cup {D!Named(args[i].value) : i \in DOMAIN args} \cup {args[i].value : i \in DOMAIN args}
Gathers ==
  [allRemove : SUBSET Known, allAdded : SUBSET Known, kinds : SUBSET Known,
   errors : SUBSET Known]

LEMMA GroupsAre ==
  /\ D!Groups = {"UndefinedGroup", "CFIGroup", "AllGroup"}
  /\ \A g \in D!Groups : D!Members[g] \subseteq D!Kinds
  /\ D!Members["AllGroup"] = D!Kinds
  /\ D!Groups \cap D!Kinds = {}
BY DEF D!Groups, D!Members, D!Kinds, D!UndefinedKinds, D!CFIKinds

LEMMA Expansion ==
  ASSUME NEW mask
  PROVE  /\ mask \subseteq D!ExpandGroups(mask)
         /\ D!ExpandGroups(mask) \subseteq mask \cup D!Kinds
         /\ \A g \in D!Groups \cap D!ExpandGroups(mask) :
              D!Members[g] \subseteq D!ExpandGroups(mask)
<1>1. D!ExpandGroups(mask) = mask \cup UNION {D!Members[g] : g \in mask \cap D!Groups}
  BY DEF D!ExpandGroups
<1>2. ASSUME NEW g \in D!Groups \cap D!ExpandGroups(mask) PROVE g \in mask
  BY <1>1, <1>2, GroupsAre
<1> QED
  BY <1>1, <1>2, GroupsAre

LEMMA TurnKnown ==
  ASSUME NEW i \in DOMAIN args, NEW s \in Gathers
  PROVE  D!Turn(args[i], s) \in Gathers
<1> DEFINE mask == D!ParseArgValues(args[i])
<1>1. mask \subseteq Known /\ args[i].value \in Known
  BY DEF D!ParseArgValues, Known
<1>2. D!Kinds \subseteq Known
  BY DEF Known
<1>3. {"ObjectSize", "FuzzerNoLink"} \subseteq D!Kinds
  BY DEF D!Kinds, D!UndefinedKinds
<1>4. /\ s.allRemove \subseteq Known /\ s.allAdded \subseteq Known
      /\ s.kinds \subseteq Known /\ s.errors \subseteq Known
  BY DEF Gathers
<1> DEFINE remove == s.allRemove \cup {"ObjectSize"}
           add == D!Added(mask, remove)
<1>5. D!ExpandGroups(mask) \subseteq Known /\ add \subseteq Known
  <2>1. D!ExpandGroups(mask) \subseteq mask \cup D!Kinds
        /\ D!ExpandGroups(mask \ remove) \subseteq (mask \ remove) \cup D!Kinds
    BY Expansion
  <2> HIDE DEF mask, remove
  <2> QED
    BY <2>1, <1>1, <1>2 DEF D!Added
<1>6. CASE args[i].opt = "sanitize"
  <2> DEFINE t == [allRemove |-> remove,
              allAdded |-> s.allAdded \cup D!ExpandGroups(mask),
              kinds |-> s.kinds \cup add
                          \cup (IF "Fuzzer" \in add THEN {"FuzzerNoLink"} ELSE {}),
              errors |-> s.errors \cup (IF D!Refused(args[i]) THEN {args[i].value} ELSE {})
                           \cup ((mask \ remove) \cap D!Forbidden)]
  <2>1. D!Turn(args[i], s) = t
    BY <1>6 DEF D!Turn
  <2> HIDE DEF mask, add
  <2>2. t \in Gathers
    BY <1>1, <1>2, <1>3, <1>4, <1>5 DEF Gathers
  <2> QED
    BY <2>1, <2>2
<1>7. CASE args[i].opt = "no-sanitize"
  <2>1. D!Turn(args[i], s) = [s EXCEPT !.allRemove = @ \cup D!ExpandGroups(mask)]
    BY <1>7 DEF D!Turn
  <2> HIDE DEF mask
  <2> QED
    BY <2>1, <1>4, <1>5 DEF Gathers
<1>8. CASE args[i].opt \notin {"sanitize", "no-sanitize"}
  BY <1>8 DEF D!Turn
<1> QED
  BY <1>6, <1>7, <1>8

NothingYet == [allRemove |-> {}, allAdded |-> {}, kinds |-> {}, errors |-> {}]

(* The loop over the arguments, from the last one to the first: g[i] is what  *)
(* has been gathered from argument i on.                                   *)
Loop(n, g) ==
  /\ DOMAIN args = 1..n
  /\ g \in [1..n + 1 -> Gathers]
  /\ g[n + 1] = NothingYet /\ g[1] = D!Gathered
  /\ \A i \in 1..n : g[i] = D!Turn(args[i], g[i + 1])

LEMMA GatheredIs ==
  ASSUME NEW n \in Nat, DOMAIN args = 1..n
  PROVE  \E g : Loop(n, g)
<1> DEFINE step == [i \in 1..n |-> [s \in Gathers |-> D!Turn(args[i], s)]]
           iter == CHOOSE iter :
                     iter = [s \in SUBSET (1..n) |->
                               IF s = {} THEN NothingYet
                               ELSE D!Turn(args[D!Min(s)], iter[s \ {D!Min(s)}])]
<1>1. NothingYet \in Gathers /\ step \in [1..n -> [Gathers -> Gathers]]
  BY TurnKnown DEF Gathers, NothingYet
<1>2. PICK h \in [SUBSET (1..n) -> Gathers] : RightFold(h, n, NothingYet, step)
  <2> HIDE DEF step
  <2> QED
    BY <1>1, Suffixes
<1>3. \A s \in SUBSET (1..n) :
        s # {} => D!Min(s) \in 1..n /\ s \ {D!Min(s)} \in SUBSET (1..n)
  BY MinIn
<1>4. h = [s \in SUBSET (1..n) |->
             IF s = {} THEN NothingYet ELSE D!Turn(args[D!Min(s)], h[s \ {D!Min(s)}])]
  BY <1>2, <1>3 DEF RightFold
<1>5. iter = [s \in SUBSET (1..n) |->
                IF s = {} THEN NothingYet ELSE D!Turn(args[D!Min(s)], iter[s \ {D!Min(s)}])]
  BY <1>4
<1>6. D!Gathered = iter[1..n]
  BY DEF D!Gathered, D!FoldRight, D!MapThenFoldSet, NothingYet
<1>7. RightSteps(iter, n, Gathers, NothingYet, step)
  <2> HIDE DEF iter
  <2> QED
    BY <1>3, <1>5 DEF RightSteps
<1>8. PICK g : RightRun(g, n, Gathers, NothingYet, step, iter[1..n])
  <2> HIDE DEF step, iter
  <2> QED
    BY <1>1, <1>7, Suffixes
<1>9. Loop(n, g)
  <2>1. \A i \in 1..n : i + 1 \in 1..n + 1
    OBVIOUS
  <2> HIDE DEF iter
  <2> QED
    BY <1>6, <1>8, <2>1 DEF RightRun, Loop
<1> QED
  BY <1>9

(* What has been removed has been removed with the members of its groups.    *)
Closed(remove) == \A g \in D!Groups \cap remove : D!Members[g] \subseteq remove

Refers(a, x) == x \in D!ExpandGroups(D!ParseArgValues(a))

(* Whether a group or a kind that is removed is named makes no difference:   *)
(* its kinds are removed after the group was expanded too.                   *)
LEMMA AddedIs ==
  ASSUME NEW a, NEW remove, Closed(remove), NEW k \in D!Kinds
  PROVE  k \in D!Added(D!ParseArgValues(a), remove)
           <=> Refers(a, k) /\ k \notin remove /\ k \notin D!Forbidden
<1> DEFINE mask == D!ParseArgValues(a)
<1>1. mask = {} \/ mask = {D!Named(a.value)}
  BY DEF D!ParseArgValues
<1>2. CASE mask \cap remove = {}
  <2>1. mask \ remove = mask
    BY <1>2
  <2> QED
    BY <2>1 DEF D!Added, Refers
<1>3. CASE mask \cap remove # {}
  <2>1. mask \ remove = {} /\ mask \subseteq remove
    BY <1>1, <1>3
  <2>2. k \in D!ExpandGroups(mask) => k \in remove
    BY <2>1 DEF D!ExpandGroups, Closed
  <2>3. D!ExpandGroups({}) = {}
    BY DEF D!ExpandGroups
  <2> HIDE DEF mask
  <2> QED
    BY <2>1, <2>2, <2>3 DEF D!Added, Refers, mask
<1> QED
  BY <1>2, <1>3

LEMMA Fixed == {"ObjectSize", "FuzzerNoLink", "Fuzzer"} \subseteq D!Kinds \ D!Groups
BY GroupsAre DEF D!Kinds, D!UndefinedKinds

(* What is known of what has been gathered from argument i on.               *)
Wants(a, x) == a.opt = "sanitize" /\ Refers(a, x)

Told(n, i, s) ==
  /\ s.kinds \subseteq s.allAdded \cup {"FuzzerNoLink"}
  /\ Closed(s.allRemove)
  /\ \A k \in D!Kinds : k \in s.allAdded \ s.allRemove => k \in s.kinds \cup D!Forbidden
  /\ \A k \in D!Kinds : k \in s.kinds \ {"FuzzerNoLink"} => k \notin D!Forbidden /\ k # "ObjectSize"
  /\ \A x : x \in s.allAdded <=> \E j \in i..n : Wants(args[j], x)
  /\ s.errors = {} => \A j \in i..n : ~D!Refused(args[j])

LEMMA TurnTells ==
  ASSUME NEW n \in Nat, NEW i \in 1..n, DOMAIN args = 1..n, NEW s \in Gathers, Told(n, i + 1, s)
  PROVE  Told(n, i, D!Turn(args[i], s))
<1> DEFINE a == args[i]
           t == D!Turn(a, s)
           mask == D!ParseArgValues(a)
           remove == s.allRemove \cup {"ObjectSize"}
           add == D!Added(mask, remove)
<1>1. i..n = {i} \cup ((i + 1)..n)
  OBVIOUS
<1>2. /\ s.kinds \subseteq s.allAdded \cup {"FuzzerNoLink"}
      /\ Closed(s.allRemove)
      /\ \A k \in D!Kinds : k \in s.allAdded \ s.allRemove => k \in s.kinds \cup D!Forbidden
      /\ \A k \in D!Kinds : k \in s.kinds \ {"FuzzerNoLink"} => k \notin D!Forbidden /\ k # "ObjectSize"
      /\ \A x : x \in s.allAdded <=> \E j \in (i + 1)..n : Wants(args[j], x)
      /\ s.errors = {} => \A j \in (i + 1)..n : ~D!Refused(args[j])
  BY DEF Told
<1>3. CASE a.opt = "sanitize"
  <2> DEFINE errors1 == s.errors \cup (IF D!Refused(a) THEN {a.value} ELSE {})
                           \cup ((mask \ remove) \cap D!Forbidden)
  <2>1. t = [allRemove |-> remove,
              allAdded |-> s.allAdded \cup D!ExpandGroups(mask),
              kinds |-> s.kinds \cup add
                          \cup (IF "Fuzzer" \in add THEN {"FuzzerNoLink"} ELSE {}),
              errors |-> errors1]
    BY <1>3 DEF D!Turn
  <2>2. /\ t.allRemove = remove
        /\ t.allAdded = s.allAdded \cup D!ExpandGroups(mask)
        /\ t.kinds \subseteq s.kinds \cup add \cup {"FuzzerNoLink"}
        /\ s.kinds \subseteq t.kinds /\ add \subseteq t.kinds
        /\ t.errors = errors1
    <3> HIDE DEF add, errors1, t, remove, mask
    <3> QED
      BY <2>1
  <2>3. Closed(remove)
    BY <1>2, Fixed DEF Closed
  <2>4. \A k \in D!Kinds : k \in add <=> Refers(a, k) /\ k \notin remove /\ k \notin D!Forbidden
    BY <2>3, AddedIs
  <2>5. add \subseteq D!ExpandGroups(mask)
    BY DEF D!Added, D!ExpandGroups
  <2>6. t.kinds \subseteq t.allAdded \cup {"FuzzerNoLink"}
    <3> HIDE DEF add, t, mask
    <3> QED
      BY <1>2, <2>2, <2>5
  <2>7. \A k \in D!Kinds : k \in t.allAdded \ t.allRemove => k \in t.kinds \cup D!Forbidden
    <3> SUFFICES ASSUME NEW k \in D!Kinds, k \in t.allAdded \ t.allRemove, k \notin D!Forbidden
                 PROVE  k \in t.kinds
      OBVIOUS
    <3>1. k \notin remove /\ k \notin s.allRemove
      <4> HIDE DEF t, mask, add
      <4> QED
        BY <2>2
    <3>2. k \in s.allAdded \/ Refers(a, k)
      <4> HIDE DEF t
      <4> QED
        BY <2>2 DEF Refers
    <3>3. k \in s.kinds \/ k \in add
      <4> HIDE DEF t, mask, add, remove
      <4> QED
        BY <3>1, <3>2, <1>2, <2>4
    <3> HIDE DEF t, mask, add, remove
    <3> QED
      BY <3>3, <2>2
  <2>8. \A k \in D!Kinds : k \in t.kinds \ {"FuzzerNoLink"} => k \notin D!Forbidden /\ k # "ObjectSize"
    <3>1. "ObjectSize" \in remove
      OBVIOUS
    <3> HIDE DEF t, mask, add, remove
    <3> QED
      BY <3>1, <1>2, <2>2, <2>4
  <2>9. \A x : x \in t.allAdded <=> \E j \in i..n : Wants(args[j], x)
    <3>1. \A x : x \in D!ExpandGroups(mask) <=> Wants(args[i], x)
      BY <1>3 DEF Wants, Refers
    <3> HIDE DEF t, mask, add, remove
    <3> QED
      BY <3>1, <1>1, <1>2, <2>2
  <2>10. t.errors = {} => \A j \in i..n : ~D!Refused(args[j])
    <3>1. errors1 = {} => s.errors = {} /\ ~D!Refused(a)
      OBVIOUS
    <3> HIDE DEF t, errors1, mask, add, remove
    <3> QED
      BY <3>1, <1>1, <1>2, <2>2
  <2> HIDE DEF t, remove
  <2> QED
    BY <2>2, <2>3, <2>6, <2>7, <2>8, <2>9, <2>10 DEF Told, t
<1>4. CASE a.opt = "no-sanitize"
  <2>1. t = [s EXCEPT !.allRemove = @ \cup D!ExpandGroups(mask)]
    BY <1>4 DEF D!Turn
  <2>2. /\ t.allRemove = s.allRemove \cup D!ExpandGroups(mask)
        /\ t.allAdded = s.allAdded /\ t.kinds = s.kinds /\ t.errors = s.errors
    <3> HIDE DEF t, mask
    <3> QED
      BY <2>1 DEF Gathers
  <2>3. Closed(t.allRemove)
    BY <1>2, <2>2, Expansion DEF Closed
  <2>4. ~D!Refused(args[i]) /\ \A x : ~Wants(args[i], x)
    BY <1>4 DEF D!Refused, Wants
  <2> HIDE DEF t
  <2> QED
    BY <2>2, <2>3, <2>4, <1>1, <1>2 DEF Told, t
<1>5. CASE a.opt \notin {"sanitize", "no-sanitize"}
  <2>1. t = s
    BY <1>5 DEF D!Turn
  <2>2. ~D!Refused(args[i]) /\ \A x : ~Wants(args[i], x)
    BY <1>5 DEF D!Refused, Wants
  <2> HIDE DEF t
  <2> QED
    BY <2>1, <2>2, <1>1, <1>2 DEF Told, t
<1> QED
  BY <1>3, <1>4, <1>5

LEMMA LoopTells ==
  ASSUME NEW n \in Nat, NEW g, Loop(n, g)
  PROVE  \A i \in 1..n + 1 : Told(n, i, g[i])
<1> DEFINE good == {i \in 1..n + 1 : Told(n, i, g[i])}
<1>1. n + 1 \in good
  <2>1. g[n + 1] = NothingYet /\ (n + 1)..n = {} /\ n + 1 \in 1..n + 1
    BY DEF Loop
  <2> QED
    BY <2>1 DEF Told, NothingYet, Closed
<1>2. ASSUME NEW i \in 1..n, i + 1 \in good PROVE i \in good
  <2>1. i + 1 \in 1..n + 1 /\ i \in 1..n + 1
    OBVIOUS
  <2>2. g[i + 1] \in Gathers /\ g[i] = D!Turn(args[i], g[i + 1]) /\ DOMAIN args = 1..n
    BY <2>1 DEF Loop
  <2> QED
    BY <1>2, <2>1, <2>2, TurnTells
<1>3. good = 1..n + 1
  <2>1. good \in SUBSET (1..n + 1)
    OBVIOUS
  <2> HIDE DEF good
  <2> QED
    BY <1>1, <1>2, <2>1, Downwards
<1> QED
  BY <1>3

(* The incompatibilities the driver reports. *)
Runtimed == D!Kinds \ {"FuzzerNoLink"}
Clash(kinds, j) ==
  /\ D!IncompatibleGroups[j][1] \in kinds
  /\ kinds \cap D!IncompatibleGroups[j][2] # {}

LEMMA GroupsListed ==
  /\ DOMAIN D!IncompatibleGroups = 1..10
  /\ \A j \in 1..10 : /\ D!IncompatibleGroups[j][1] \in Runtimed
                      /\ D!IncompatibleGroups[j][2] \subseteq Runtimed
<1>1. DOMAIN D!IncompatibleGroups = 1..10
  BY DEF D!IncompatibleGroups
<1>2. \A j \in 1..10 : j \in {1, 2, 3, 4, 5, 6, 7, 8, 9, 10}
  OBVIOUS
<1>3. {"Address", "KernelAddress", "HWAddress", "KernelHWAddress", "MemTag", "Memory",
       "KernelMemory", "Thread", "Leak", "Scudo", "SafeStack"} \subseteq Runtimed
  BY DEF Runtimed, D!Kinds
<1>4. ASSUME NEW j \in {1, 2, 3, 4, 5, 6, 7, 8, 9, 10}
      PROVE  D!IncompatibleGroups[j][1] \in Runtimed /\ D!IncompatibleGroups[j][2] \subseteq Runtimed
  <2> HIDE DEF Runtimed
  <2> QED
    BY <1>3 DEF D!IncompatibleGroups
<1> QED
  BY <1>1, <1>2, <1>4

Reduced(kinds) ==
  D!FoldLeft(D!Incompatible, [kinds |-> kinds, pairs |-> {}], D!IncompatibleGroups)

LEMMA ReducedIs ==
  ASSUME NEW K
  PROVE  /\ Reduced(K).kinds \subseteq K
         /\ Reduced(K).pairs = {} => Reduced(K).kinds = K /\ \A j \in 1..10 : ~Clash(K, j)
         /\ \A pair \in Reduced(K).pairs :
              /\ pair[1] \subseteq K \cap Runtimed /\ pair[1] # {}
              /\ pair[2] \subseteq K \cap Runtimed /\ pair[2] # {}
<1> DEFINE X == (SUBSET (K \cap Runtimed)) \ {{}}
           V == [kinds : SUBSET K, pairs : SUBSET (X \X X)]
           base == [kinds |-> K, pairs |-> {}]
           group(j) == D!IncompatibleGroups[j]
           step == [j \in 1..10 |-> [r \in V |-> D!Incompatible(r, group(j))]]
           iter == CHOOSE iter :
                     iter = [s \in SUBSET (1..10) |->
                               IF s = {} THEN base
                               ELSE D!Incompatible(iter[s \ {D!Max(s)}], group(D!Max(s)))]
<1>1. ASSUME NEW j \in 1..10, NEW r \in V
      PROVE  /\ D!Incompatible(r, group(j)) \in V
             /\ Clash(r.kinds, j) => D!Incompatible(r, group(j)).pairs # {}
             /\ ~Clash(r.kinds, j) => D!Incompatible(r, group(j)) = r
             /\ r.pairs \subseteq D!Incompatible(r, group(j)).pairs
  <2> DEFINE found == r.kinds \cap group(j)[2]
             new1 == [kinds |-> r.kinds \ found, pairs |-> r.pairs \cup {<<{group(j)[1]}, found>>}]
  <2>1. r.kinds \subseteq K /\ r.pairs \subseteq X \X X
    OBVIOUS
  <2>2. group(j)[1] \in Runtimed /\ group(j)[2] \subseteq Runtimed
    BY GroupsListed
  <2>3. CASE Clash(r.kinds, j)
    <3>1. D!Incompatible(r, group(j)) = new1
      BY <2>3 DEF Clash, D!Incompatible
    <3>2. {group(j)[1]} \in X /\ found \in X
      BY <2>1, <2>2, <2>3 DEF Clash
    <3>3. new1 \in V /\ new1.pairs = r.pairs \cup {<<{group(j)[1]}, found>>}
      <4> HIDE DEF X, found
      <4>1. r.kinds \ found \in SUBSET K
        BY <2>1
      <4>2. r.pairs \cup {<<{group(j)[1]}, found>>} \in SUBSET (X \X X)
        BY <2>1, <3>2
      <4> QED
        BY <4>1, <4>2
    <3> HIDE DEF V, new1, found, X
    <3> QED
      BY <2>3, <3>1, <3>3
  <2>4. CASE ~Clash(r.kinds, j)
    <3>1. D!Incompatible(r, group(j)) = r
      BY <2>4 DEF Clash, D!Incompatible
    <3> QED
      BY <2>4, <3>1
  <2> QED
    BY <2>3, <2>4
<1>2. base \in V /\ step \in [1..10 -> [V -> V]]
  <2>1. base \in V
    OBVIOUS
  <2> HIDE DEF V, base
  <2> QED
    BY <2>1, <1>1
<1>3. \A s \in SUBSET (1..10) :
        s # {} => D!Max(s) \in 1..10 /\ s \ {D!Max(s)} \in SUBSET (1..10)
  <2> SUFFICES ASSUME NEW s \in SUBSET (1..10), s # {} PROVE D!Max(s) \in s
    OBVIOUS
  <2>1. 10 \in Nat
    OBVIOUS
  <2> QED
    BY <2>1, MaxIn
<1>4. PICK h \in [SUBSET (1..10) -> V] : LeftFold(h, 10, base, step)
  <2> HIDE DEF step, V, base
  <2> QED
    BY <1>2, Prefixes
<1>5. h = [s \in SUBSET (1..10) |->
             IF s = {} THEN base ELSE D!Incompatible(h[s \ {D!Max(s)}], group(D!Max(s)))]
  <2> HIDE DEF V, base
  <2> QED
    BY <1>4, <1>3 DEF LeftFold
<1>6. iter = [s \in SUBSET (1..10) |->
               IF s = {} THEN base ELSE D!Incompatible(iter[s \ {D!Max(s)}], group(D!Max(s)))]
  BY <1>5
<1>7. Reduced(K) = iter[1..10]
  BY GroupsListed DEF Reduced, D!FoldLeft, D!MapThenFoldSet
<1>8. LeftSteps(iter, 10, V, base, step)
  <2> HIDE DEF iter, V, base
  <2> QED
    BY <1>3, <1>6 DEF LeftSteps
<1>9. PICK g : LeftRun(g, 10, V, base, step, iter[1..10])
  <2> HIDE DEF step, iter, V, base
  <2> QED
    BY <1>2, <1>8, Prefixes
<1>10. /\ g \in [0..10 -> V] /\ g[0] = base /\ g[10] = Reduced(K)
       /\ \A j \in 1..10 : g[j] = D!Incompatible(g[j - 1], group(j)) /\ g[j - 1] \in V
  <2>1. \A j \in 1..10 : j - 1 \in 0..10
    OBVIOUS
  <2> HIDE DEF iter, V, base
  <2> QED
    BY <1>7, <1>9, <2>1 DEF LeftRun
<1> DEFINE good == {i \in 0..10 : g[i].pairs = {} => g[i].kinds = K /\ \A j \in 1..i : ~Clash(K, j)}
<1>11. 0 \in good
  BY <1>10
<1>12. ASSUME NEW i \in 1..10, i - 1 \in good PROVE i \in good
  <2> SUFFICES ASSUME g[i].pairs = {} PROVE g[i].kinds = K /\ \A j \in 1..i : ~Clash(K, j)
    OBVIOUS
  <2>1. g[i] = D!Incompatible(g[i - 1], group(i)) /\ g[i - 1] \in V
    BY <1>10
  <2>2. g[i - 1].pairs = {} /\ ~Clash(g[i - 1].kinds, i) /\ g[i] = g[i - 1]
    <3> HIDE DEF V, group
    <3> QED
      BY <2>1, <1>1
  <2>3. g[i - 1].kinds = K /\ \A j \in 1..(i - 1) : ~Clash(K, j)
    BY <1>12, <2>2
  <2>4. \A j \in 1..i : j = i \/ j \in 1..(i - 1)
    OBVIOUS
  <2> QED
    BY <2>2, <2>3, <2>4
<1>13. good = 0..10
  <2>1. good \in SUBSET (0..10) /\ 10 \in Nat
    OBVIOUS
  <2> HIDE DEF good
  <2> QED
    BY <1>11, <1>12, <2>1, Upwards
<1>14. Reduced(K) \in V /\ 10 \in good
  <2>1. 10 \in 0..10
    OBVIOUS
  <2> HIDE DEF V
  <2> QED
    BY <2>1, <1>10, <1>13
<1>15. Reduced(K).pairs = {} => Reduced(K).kinds = K /\ \A j \in 1..10 : ~Clash(K, j)
  BY <1>14, <1>10
<1>16. ASSUME NEW pair \in Reduced(K).pairs
       PROVE  pair[1] \in X /\ pair[2] \in X
  <2>1. pair \in X \X X
    BY <1>14
  <2> HIDE DEF X
  <2> QED
    BY <2>1
<1> QED
  BY <1>14, <1>15, <1>16

(* The arguments read from the first to the last.                            *)
Overridden(asked, a) ==
  CASE a.opt = "sanitize" -> asked \cup D!ExpandGroups({D!Named(a.value)})
    [] a.opt = "no-sanitize" -> asked \ D!ExpandGroups({D!Named(a.value)})
    [] OTHER -> asked

Reading(n, h) ==
  /\ h \in [0..n -> SUBSET Known]
  /\ h[0] = {} /\ h[n] \cap D!Kinds = D!AskedFor
  /\ \A i \in 1..n : h[i] = Overridden(h[i - 1], args[i])

LEMMA AskedIs ==
  ASSUME NEW n \in Nat, DOMAIN args = 1..n
  PROVE  \E h : Reading(n, h)
<1> DEFINE V == SUBSET Known
           step == [i \in 1..n |-> [asked \in V |-> Overridden(asked, args[i])]]
           iter == CHOOSE iter :
                     iter = [s \in SUBSET (1..n) |->
                               IF s = {} THEN {}
                               ELSE Overridden(iter[s \ {D!Max(s)}], args[D!Max(s)])]
<1>1. ASSUME NEW i \in 1..n, NEW asked \in V PROVE Overridden(asked, args[i]) \in V
  <2>1. D!Named(args[i].value) \in Known /\ D!Kinds \subseteq Known
    BY DEF Known
  <2>2. D!ExpandGroups({D!Named(args[i].value)}) \subseteq Known
    BY <2>1, Expansion
  <2> HIDE DEF V
  <2>3. asked \subseteq Known
    BY DEF V
  <2>4. Overridden(asked, args[i]) \subseteq Known
    BY <2>2, <2>3 DEF Overridden
  <2> QED
    BY <2>4 DEF V
<1>2. {} \in V /\ step \in [1..n -> [V -> V]]
  <2>1. {} \in V
    OBVIOUS
  <2> HIDE DEF V
  <2> QED
    BY <2>1, <1>1
<1>3. \A s \in SUBSET (1..n) :
        s # {} => D!Max(s) \in 1..n /\ s \ {D!Max(s)} \in SUBSET (1..n)
  <2> SUFFICES ASSUME NEW s \in SUBSET (1..n), s # {} PROVE D!Max(s) \in s
    OBVIOUS
  <2> QED
    BY MaxIn
<1>4. PICK f \in [SUBSET (1..n) -> V] : LeftFold(f, n, {}, step)
  <2> HIDE DEF step, V
  <2> QED
    BY <1>2, Prefixes
<1>5. f = [s \in SUBSET (1..n) |->
             IF s = {} THEN {} ELSE Overridden(f[s \ {D!Max(s)}], args[D!Max(s)])]
  <2> HIDE DEF V
  <2> QED
    BY <1>4, <1>3 DEF LeftFold
<1>6. iter = [s \in SUBSET (1..n) |->
               IF s = {} THEN {} ELSE Overridden(iter[s \ {D!Max(s)}], args[D!Max(s)])]
  BY <1>5
<1>7. D!AskedFor = iter[1..n] \cap D!Kinds
  BY DEF D!AskedFor, D!FoldLeft, D!MapThenFoldSet, Overridden
<1>8. LeftSteps(iter, n, V, {}, step)
  <2> HIDE DEF iter, V
  <2> QED
    BY <1>3, <1>6 DEF LeftSteps
<1>9. PICK h : LeftRun(h, n, V, {}, step, iter[1..n])
  <2> HIDE DEF step, iter, V
  <2> QED
    BY <1>2, <1>8, Prefixes
<1>10. Reading(n, h)
  <2>1. \A i \in 1..n : i - 1 \in 0..n
    OBVIOUS
  <2> HIDE DEF iter
  <2> QED
    BY <1>7, <1>9, <2>1 DEF LeftRun, Reading
<1> QED
  BY <1>10

(* What argument i and those behind it make of what those before it ask for   *)
(* is the same from either end.                                            *)
SameFrom(i, n, g, h) ==
  \A k \in D!Kinds \ ({"FuzzerNoLink", "ObjectSize"} \cup D!Forbidden) :
    k \in h[n] <=> k \in g[i].kinds \/ (k \in h[i - 1] /\ k \notin g[i].allRemove)

LEMMA SameTurn ==
  ASSUME NEW n \in Nat, NEW i \in 1..n, NEW g, NEW h, Loop(n, g), Reading(n, h),
         ~D!Refused(args[i]), SameFrom(i + 1, n, g, h)
  PROVE  SameFrom(i, n, g, h)
<1> DEFINE a == args[i]
           s == g[i + 1]
           t == g[i]
           mask == D!ParseArgValues(a)
           remove == s.allRemove \cup {"ObjectSize"}
           add == D!Added(mask, remove)
<1>1. i + 1 \in 1..n + 1 /\ (i + 1) - 1 = i
  OBVIOUS
<1>2. s \in Gathers /\ t = D!Turn(a, s) /\ h[i] = Overridden(h[i - 1], a)
  BY <1>1 DEF Loop, Reading
<1>3. mask = {D!Named(a.value)}
  BY DEF D!ParseArgValues
<1>4. Told(n, i + 1, s)
  BY <1>1, LoopTells
<1>5. SUFFICES ASSUME NEW k \in D!Kinds \ ({"FuzzerNoLink", "ObjectSize"} \cup D!Forbidden)
      PROVE  k \in h[n] <=> k \in t.kinds \/ (k \in h[i - 1] /\ k \notin t.allRemove)
  BY DEF SameFrom
<1>6. k \in h[n] <=> k \in s.kinds \/ (k \in h[i] /\ k \notin s.allRemove)
  BY <1>1 DEF SameFrom
<1>7. CASE a.opt = "sanitize"
  <2>1. t.allRemove = remove
        /\ t.kinds = s.kinds \cup add \cup (IF "Fuzzer" \in add THEN {"FuzzerNoLink"} ELSE {})
    <3> DEFINE errors1 == s.errors \cup (IF D!Refused(a) THEN {a.value} ELSE {})
                             \cup ((mask \ remove) \cap D!Forbidden)
    <3>1. D!Turn(a, s) =
            [allRemove |-> remove,
             allAdded |-> s.allAdded \cup D!ExpandGroups(mask),
             kinds |-> s.kinds \cup add
                         \cup (IF "Fuzzer" \in add THEN {"FuzzerNoLink"} ELSE {}),
             errors |-> errors1]
      BY <1>7 DEF D!Turn
    <3> HIDE DEF add, errors1, t, remove, mask, s
    <3> QED
      BY <3>1, <1>2
  <2>2. h[i] = h[i - 1] \cup D!ExpandGroups(mask)
    BY <1>2, <1>3, <1>7 DEF Overridden
  <2>3. Closed(remove)
    <3>1. Closed(s.allRemove)
      BY <1>4 DEF Told
    <3> QED
      BY <3>1, Fixed DEF Closed
  <2>4. k \in add <=> k \in D!ExpandGroups(mask) /\ k \notin remove
    BY <2>3, AddedIs DEF Refers
  <2>5. k \in remove <=> k \in s.allRemove
    OBVIOUS
  <2>6. k \in t.kinds <=> k \in s.kinds \/ k \in add
    <3> HIDE DEF add, t, s
    <3> QED
      BY <2>1
  <2> HIDE DEF add, remove, mask, t, s
  <2> QED
    BY <1>6, <2>1, <2>2, <2>4, <2>5, <2>6
<1>8. CASE a.opt = "no-sanitize"
  <2>1. t.allRemove = s.allRemove \cup D!ExpandGroups(mask) /\ t.kinds = s.kinds
    <3>1. t = [s EXCEPT !.allRemove = @ \cup D!ExpandGroups(mask)]
      BY <1>2, <1>8 DEF D!Turn
    <3> HIDE DEF s, t, mask
    <3> QED
      BY <3>1, <1>2 DEF Gathers
  <2>2. h[i] = h[i - 1] \ D!ExpandGroups(mask)
    BY <1>2, <1>3, <1>8 DEF Overridden
  <2> HIDE DEF mask, t, s
  <2> QED
    BY <1>6, <2>1, <2>2
<1>9. CASE a.opt \notin {"sanitize", "no-sanitize"}
  <2>1. t = s /\ h[i] = h[i - 1]
    BY <1>2, <1>9 DEF D!Turn, Overridden
  <2> HIDE DEF t, s
  <2> QED
    BY <2>1, <1>6
<1> QED
  BY <1>7, <1>8, <1>9

LEMMA LastWins ==
  ASSUME Numbered, D!Gathered.errors = {}
  PROVE  (D!Gathered.kinds \cap D!Kinds) \ {"FuzzerNoLink"} =
           D!AskedFor \ ({"FuzzerNoLink", "ObjectSize"} \cup D!Forbidden)
<1>1. PICK n \in Nat : DOMAIN args = 1..n
  BY DEF Numbered
<1>2. PICK g : Loop(n, g)
  BY <1>1, GatheredIs
<1>3. PICK h : Reading(n, h)
  BY <1>1, AskedIs
<1>4. 1 \in 1..n + 1 /\ n + 1 \in 1..n + 1 /\ (n + 1) - 1 = n
  OBVIOUS
<1>5. Told(n, 1, D!Gathered)
  BY <1>2, <1>4, LoopTells DEF Loop
<1> DEFINE good == {i \in 1..n + 1 : SameFrom(i, n, g, h)}
<1>6. n + 1 \in good
  BY <1>2, <1>4 DEF SameFrom, Loop, NothingYet
<1>7. ASSUME NEW i \in 1..n, i + 1 \in good PROVE i \in good
  <2>1. ~D!Refused(args[i])
    BY <1>5 DEF Told
  <2>2. i \in 1..n + 1
    OBVIOUS
  <2> QED
    BY <1>2, <1>3, <1>7, <2>1, <2>2, SameTurn
<1>8. good = 1..n + 1
  <2>1. good \in SUBSET (1..n + 1)
    OBVIOUS
  <2> HIDE DEF good
  <2> QED
    BY <1>6, <1>7, <2>1, Downwards
<1>9. SameFrom(1, n, g, h)
  BY <1>4, <1>8
<1>10. \A k \in D!Kinds \ ({"FuzzerNoLink", "ObjectSize"} \cup D!Forbidden) :
         k \in D!AskedFor <=> k \in D!Gathered.kinds
  BY <1>2, <1>3, <1>9 DEF SameFrom, Loop, Reading
<1>11. D!AskedFor \subseteq D!Kinds
  BY DEF D!AskedFor
<1>12. \A k \in D!Kinds :
         k \in D!Gathered.kinds \ {"FuzzerNoLink"} => k \notin D!Forbidden /\ k # "ObjectSize"
  BY <1>5 DEF Told
<1> QED
  BY <1>10, <1>11, <1>12

(* The search for the argument that a report of an incompatibility names.    *)
Searched(a, f) ==
  LET named == D!ExpandGroups({D!Named(a.value)})
  IN  IF f.found THEN f
      ELSE CASE a.opt = "sanitize" -> [f EXCEPT !.found = named \cap f.mask # {}]
             [] a.opt = "no-sanitize" -> [f EXCEPT !.mask = @ \ named]
             [] OTHER -> f

Searches(mask) == [mask : SUBSET mask, found : BOOLEAN]

Search(n, mask, f) ==
  /\ f \in [1..n + 1 -> Searches(mask)]
  /\ f[n + 1] = [mask |-> mask, found |-> FALSE]
  /\ f[1].found = D!FindsLastArgument(mask)
  /\ \A i \in 1..n : f[i] = Searched(args[i], f[i + 1])

LEMMA SearchedIs ==
  ASSUME NEW a, NEW mask, NEW f \in Searches(mask)
  PROVE  /\ Searched(a, f) \in Searches(mask)
         /\ f.found => Searched(a, f) = f
         /\ ~f.found /\ a.opt = "sanitize" =>
              /\ Searched(a, f).mask = f.mask
              /\ Searched(a, f).found <=> D!ExpandGroups({D!Named(a.value)}) \cap f.mask # {}
         /\ ~f.found /\ a.opt = "no-sanitize" =>
              /\ Searched(a, f).mask = f.mask \ D!ExpandGroups({D!Named(a.value)})
              /\ ~Searched(a, f).found
         /\ ~f.found /\ a.opt \notin {"sanitize", "no-sanitize"} => Searched(a, f) = f
<1> DEFINE named == D!ExpandGroups({D!Named(a.value)})
           t == Searched(a, f)
<1>1. f.mask \subseteq mask /\ f.found \in BOOLEAN /\ f \in [mask : SUBSET mask, found : BOOLEAN]
  BY DEF Searches
<1>2. CASE f.found
  BY <1>2 DEF Searched
<1>3. CASE ~f.found /\ a.opt = "sanitize"
  <2>1. t = [f EXCEPT !.found = named \cap f.mask # {}]
    BY <1>3 DEF Searched
  <2> HIDE DEF t, named
  <2>2. t.mask = f.mask /\ t.found = (named \cap f.mask # {}) /\ t \in Searches(mask)
    BY <2>1, <1>1 DEF Searches
  <2> QED
    BY <2>2, <1>3 DEF t, named
<1>4. CASE ~f.found /\ a.opt = "no-sanitize"
  <2>1. t = [f EXCEPT !.mask = @ \ named]
    BY <1>4 DEF Searched
  <2> HIDE DEF t, named
  <2>2. t.mask = f.mask \ named /\ t.found = f.found /\ t \in Searches(mask)
    BY <2>1, <1>1 DEF Searches
  <2> QED
    BY <2>2, <1>4 DEF t, named
<1>5. CASE ~f.found /\ a.opt \notin {"sanitize", "no-sanitize"}
  BY <1>5 DEF Searched
<1> QED
  BY <1>2, <1>3, <1>4, <1>5

LEMMA SearchIs ==
  ASSUME NEW n \in Nat, DOMAIN args = 1..n, NEW mask
  PROVE  \E f : Search(n, mask, f)
<1> DEFINE V == Searches(mask)
           base == [mask |-> mask, found |-> FALSE]
           step == [i \in 1..n |-> [f \in V |-> Searched(args[i], f)]]
           iter == CHOOSE iter :
                     iter = [s \in SUBSET (1..n) |->
                               IF s = {} THEN base
                               ELSE Searched(args[D!Min(s)], iter[s \ {D!Min(s)}])]
<1>1. base \in V /\ step \in [1..n -> [V -> V]]
  <2>1. base \in V
    BY DEF Searches
  <2>2. \A i \in 1..n : \A f \in V : Searched(args[i], f) \in V
    BY SearchedIs
  <2> HIDE DEF V, base
  <2> QED
    BY <2>1, <2>2
<1>2. \A s \in SUBSET (1..n) :
        s # {} => D!Min(s) \in 1..n /\ s \ {D!Min(s)} \in SUBSET (1..n)
  BY MinIn
<1>3. PICK h \in [SUBSET (1..n) -> V] : RightFold(h, n, base, step)
  <2> HIDE DEF step, V, base
  <2> QED
    BY <1>1, Suffixes
<1>4. h = [s \in SUBSET (1..n) |->
             IF s = {} THEN base ELSE Searched(args[D!Min(s)], h[s \ {D!Min(s)}])]
  <2> HIDE DEF V, base
  <2> QED
    BY <1>2, <1>3 DEF RightFold
<1>5. iter = [s \in SUBSET (1..n) |->
                IF s = {} THEN base ELSE Searched(args[D!Min(s)], iter[s \ {D!Min(s)}])]
  BY <1>4
<1>6. D!FindsLastArgument(mask) = iter[1..n].found
  BY DEF D!FindsLastArgument, D!FoldRight, D!MapThenFoldSet, Searched
<1>7. RightSteps(iter, n, V, base, step)
  <2> HIDE DEF iter, V, base
  <2> QED
    BY <1>2, <1>5 DEF RightSteps
<1>8. PICK f : RightRun(f, n, V, base, step, iter[1..n])
  <2> HIDE DEF step, iter, V, base
  <2> QED
    BY <1>1, <1>7, Suffixes
<1>9. /\ f \in [1..n + 1 -> V] /\ f[n + 1] = base /\ f[1] = iter[1..n]
      /\ \A i \in 1..n : f[i] = Searched(args[i], f[i + 1])
  <2>1. \A i \in 1..n : i + 1 \in 1..n + 1
    OBVIOUS
  <2> HIDE DEF iter, V, base
  <2> QED
    BY <1>8, <2>1 DEF RightRun
<1> QED
  BY <1>6, <1>9 DEF Search

(* An argument that enables a kind is found, whatever else is looked for.    *)
LEMMA Finds ==
  ASSUME Numbered, NEW mask, NEW k \in mask \cap Runtimed, k \in D!Gathered.kinds
  PROVE  D!FindsLastArgument(mask)
<1>1. PICK n \in Nat : DOMAIN args = 1..n
  BY DEF Numbered
<1>2. PICK g : Loop(n, g)
  BY <1>1, GatheredIs
<1>3. PICK f : Search(n, mask, f)
  BY <1>1, SearchIs
<1> DEFINE Sought(i) == /\ k \in g[i].kinds => f[i].found
                        /\ f[i].found \/ (k \notin g[i].allRemove => k \in f[i].mask)
           good == {i \in 1..n + 1 : Sought(i)}
<1>4. k \in D!Kinds /\ k # "FuzzerNoLink" /\ k \in mask
  BY DEF Runtimed
<1>5. n + 1 \in good
  <2>1. n + 1 \in 1..n + 1
    OBVIOUS
  <2> QED
    BY <1>2, <1>3, <1>4, <2>1 DEF Loop, Search, NothingYet
<1>6. ASSUME NEW i \in 1..n, i + 1 \in good PROVE i \in good
  <2> DEFINE a == args[i]
             s == g[i + 1]
             t == g[i]
             m == D!ParseArgValues(a)
             remove == s.allRemove \cup {"ObjectSize"}
             add == D!Added(m, remove)
             named == D!ExpandGroups({D!Named(a.value)})
             b == f[i + 1]
             c == f[i]
  <2>1. i + 1 \in 1..n + 1 /\ i \in 1..n + 1
    OBVIOUS
  <2>2. /\ s \in Gathers /\ t = D!Turn(a, s)
        /\ b \in Searches(mask) /\ c = Searched(a, b)
        /\ Told(n, i + 1, s)
    BY <1>2, <1>3, <2>1, LoopTells DEF Loop, Search
  <2>8. /\ b.found => c = b
        /\ ~b.found /\ a.opt = "sanitize" =>
             c.mask = b.mask /\ (c.found <=> named \cap b.mask # {})
        /\ ~b.found /\ a.opt = "no-sanitize" => c.mask = b.mask \ named /\ ~c.found
        /\ ~b.found /\ a.opt \notin {"sanitize", "no-sanitize"} => c = b
    <3> HIDE DEF a, b, c, s, t
    <3> QED
      BY <2>2, SearchedIs
  <2>3. /\ k \in s.kinds => b.found
        /\ b.found \/ (k \notin s.allRemove => k \in b.mask)
    BY <1>6
  <2>4. CASE b.found
    BY <2>1, <2>2, <2>4, <2>8
  <2>5. CASE ~b.found /\ a.opt = "sanitize"
    <3>1. /\ c.mask = b.mask /\ (c.found <=> named \cap b.mask # {})
      BY <2>5, <2>8
    <3>2. t.allRemove = remove
          /\ t.kinds = s.kinds \cup add \cup (IF "Fuzzer" \in add THEN {"FuzzerNoLink"} ELSE {})
      <4> DEFINE errors1 == s.errors \cup (IF D!Refused(a) THEN {a.value} ELSE {})
                               \cup ((m \ remove) \cap D!Forbidden)
      <4>1. D!Turn(a, s) =
              [allRemove |-> remove,
               allAdded |-> s.allAdded \cup D!ExpandGroups(m),
               kinds |-> s.kinds \cup add
                           \cup (IF "Fuzzer" \in add THEN {"FuzzerNoLink"} ELSE {}),
               errors |-> errors1]
        BY <2>5 DEF D!Turn
      <4> HIDE DEF add, errors1, t, remove, m, s
      <4> QED
        BY <4>1, <2>2
    <3>3. add \subseteq named \ remove
      BY DEF D!Added, D!ParseArgValues, D!ExpandGroups
    <3>4. k \in add => k \in named \cap b.mask
      <4>1. k \notin remove => k \notin s.allRemove
        OBVIOUS
      <4> HIDE DEF add, named, remove, s, b
      <4> QED
        BY <3>3, <4>1, <2>3, <2>5
    <3>5. k \in t.kinds => c.found
      <4> HIDE DEF add, named, remove, s, t, b, c
      <4> QED
        BY <3>1, <3>2, <3>4, <2>3, <2>5, <1>4
    <3>6. k \notin t.allRemove => k \in c.mask
      <4>1. k \notin remove => k \notin s.allRemove
        OBVIOUS
      <4> HIDE DEF add, named, remove, s, t, b, c
      <4> QED
        BY <3>1, <3>2, <4>1, <2>3, <2>5
    <3> QED
      BY <2>1, <3>5, <3>6
  <2>6. CASE ~b.found /\ a.opt = "no-sanitize"
    <3>1. c.mask = b.mask \ named /\ ~c.found
      BY <2>6, <2>8
    <3>2. m = {D!Named(a.value)}
      BY <2>6 DEF D!ParseArgValues, D!Refused
    <3>3. t.allRemove = s.allRemove \cup named /\ t.kinds = s.kinds
      <4>1. t = [s EXCEPT !.allRemove = @ \cup named]
        BY <2>2, <2>6, <3>2 DEF D!Turn
      <4> HIDE DEF s, t, named
      <4> QED
        BY <4>1, <2>2 DEF Gathers
    <3>4. Sought(i)
      <4> HIDE DEF named, s, t, b, c
      <4>1. /\ k \in t.kinds => c.found
            /\ k \notin t.allRemove => k \in c.mask
        BY <3>1, <3>3, <2>3, <2>6
      <4> QED
        BY <4>1 DEF t, c
    <3> QED
      BY <2>1, <3>4
  <2>7. CASE ~b.found /\ a.opt \notin {"sanitize", "no-sanitize"}
    <3>1. t = s /\ c = b
      BY <2>2, <2>7, <2>8 DEF D!Turn
    <3> QED
      BY <3>1, <2>1, <2>3
  <2> QED
    BY <2>2, <2>4, <2>5, <2>6, <2>7
<1>7. good = 1..n + 1
  <2>1. good \in SUBSET (1..n + 1)
    OBVIOUS
  <2> HIDE DEF good
  <2> QED
    BY <1>5, <1>6, <2>1, Downwards
<1>8. k \in g[1].kinds => f[1].found
  <2>1. 1 \in 1..n + 1
    OBVIOUS
  <2> QED
    BY <1>7, <2>1
<1> QED
  BY <1>2, <1>3, <1>8 DEF Loop, Search

(* What the constructor of SanitizerArgs leaves. *)
ParsedAs(p) ==
  /\ p.allAdded = D!Gathered.allAdded
  /\ p.kinds \subseteq D!Gathered.kinds
  /\ p.pairs = {} => p.kinds = D!Gathered.kinds /\ \A j \in 1..10 : ~Clash(p.kinds, j)
  /\ p.errors = {} => D!Gathered.errors = {}
  /\ p.trap \subseteq p.kinds
  /\ p.coverage = ("FuzzerNoLink" \in D!Gathered.kinds)
  /\ \A pair \in p.pairs :
       /\ pair[1] \subseteq D!Gathered.kinds \cap Runtimed /\ pair[1] # {}
       /\ pair[2] \subseteq D!Gathered.kinds \cap Runtimed /\ pair[2] # {}

ParsedInv == Numbered /\ (parsed # None => ParsedAs(parsed))

LEMMA GatheredSame == ASSUME args' = args PROVE D!Gathered' = D!Gathered
BY DEF D!Gathered, D!FoldRight, D!MapThenFoldSet, D!Turn, D!Min, D!Max, D!ParseArgValues,
       D!Refused, D!Added, D!ExpandGroups, D!Forbidden, D!Members, D!Groups, D!Named, D!Kinds,
       D!CFIKinds, D!UndefinedKinds, D!getSupportedSanitizers, D!ToolChainSupported, D!If,
       D!Arch, D!NotAllowedWithTrap, D!TrappingKinds, D!TrappingDefault, D!Has,
       D!NotAllowedWithMinimalRuntime

LEMMA ParseTells ==
  ASSUME ParsedInv, D!Parse
  PROVE  ParsedInv'
<1> DEFINE g == D!Gathered
           r == Reduced(g.kinds)
<1>1. args' = args
  BY DEF D!Parse
<1>2. /\ parsed'.kinds = r.kinds /\ parsed'.trap = D!TrappingKinds \cap r.kinds
      /\ parsed'.allAdded = g.allAdded /\ parsed'.coverage = ("FuzzerNoLink" \in g.kinds)
      /\ g.errors \subseteq parsed'.errors /\ parsed'.pairs = r.pairs
  <2> DEFINE lto == IF g.kinds \cap D!CFIKinds # {} /\ ~D!Has("lto") THEN {"lto"} ELSE {}
             unfit == IF D!Has("minimal-runtime")
                      THEN (r.kinds \ D!SetGroupBits(D!CompatibleWithMinimalRuntime))
                             \cup ((r.kinds \cap D!CFIKinds) \ D!TrappingKinds)
                      ELSE {}
  <2>1. parsed' = [kinds |-> r.kinds, trap |-> D!TrappingKinds \cap r.kinds,
                   allAdded |-> g.allAdded, coverage |-> "FuzzerNoLink" \in g.kinds,
                   errors |-> g.errors \cup lto \cup unfit, pairs |-> r.pairs]
    BY DEF D!Parse, Reduced
  <2> HIDE DEF g, r, lto, unfit
  <2> QED
    BY <2>1
<1>3. ParsedAs(parsed')
  <2>1. /\ r.kinds \subseteq g.kinds
        /\ r.pairs = {} => r.kinds = g.kinds /\ \A j \in 1..10 : ~Clash(g.kinds, j)
        /\ \A pair \in r.pairs :
             /\ pair[1] \subseteq g.kinds \cap Runtimed /\ pair[1] # {}
             /\ pair[2] \subseteq g.kinds \cap Runtimed /\ pair[2] # {}
    <3> HIDE DEF g
    <3> QED
      BY ReducedIs
  <2> HIDE DEF r
  <2> QED
    BY <1>2, <2>1 DEF ParsedAs
<1>4. ParsedAs(parsed)' /\ Numbered'
  <2>1. D!Gathered' = D!Gathered
    BY <1>1, GatheredSame
  <2>2. Numbered'
    BY <1>1 DEF Numbered, ParsedInv
  <2>3. ParsedAs(parsed)'
    BY <1>3, <2>1 DEF ParsedAs, Clash, D!IncompatibleGroups, Runtimed, D!Kinds, D!UndefinedKinds, D!CFIKinds
  <2> QED
    BY <2>2, <2>3
<1> QED
  BY <1>4 DEF ParsedInv

LEMMA ParsedSame ==
  ASSUME ParsedInv, args' = args, parsed' = parsed
  PROVE  ParsedInv'
<1>1. D!Gathered' = D!Gathered
  BY GatheredSame
<1>2. ParsedAs(parsed) => ParsedAs(parsed)'
  BY <1>1 DEF ParsedAs, Clash, D!IncompatibleGroups, Runtimed, D!Kinds, D!UndefinedKinds, D!CFIKinds
<1> QED
  BY <1>2 DEF ParsedInv, Numbered

LEMMA ArgumentsWin == ASSUME ParsedInv PROVE D!LastArgumentWins
<1>1. ASSUME D!Accepted
      PROVE  (parsed.kinds \cap D!Kinds) \ {"FuzzerNoLink"} =
               D!AskedFor \ ({"FuzzerNoLink", "ObjectSize"} \cup D!Forbidden)
  <2>1. parsed.kinds = D!Gathered.kinds /\ D!Gathered.errors = {}
    BY <1>1 DEF ParsedInv, ParsedAs, D!Accepted
  <2> QED
    BY <2>1, LastWins DEF ParsedInv
<1>2. ASSUME parsed # None, NEW pair \in parsed.pairs
      PROVE  D!FindsLastArgument(pair[1]) /\ D!FindsLastArgument(pair[2])
  <2>1. /\ pair[1] \subseteq D!Gathered.kinds \cap Runtimed /\ pair[1] # {}
        /\ pair[2] \subseteq D!Gathered.kinds \cap Runtimed /\ pair[2] # {}
    BY <1>2 DEF ParsedInv, ParsedAs
  <2>2. PICK k \in pair[1], l \in pair[2] : TRUE
    BY <2>1
  <2>3. Numbered /\ k \in pair[1] \cap Runtimed /\ k \in D!Gathered.kinds
    BY <2>1, <2>2 DEF ParsedInv
  <2>4. l \in pair[2] \cap Runtimed /\ l \in D!Gathered.kinds
    BY <2>1, <2>2
  <2>5. D!FindsLastArgument(pair[1])
    BY <2>3, Finds
  <2>6. D!FindsLastArgument(pair[2])
    BY <2>3, <2>4, Finds
  <2> QED
    BY <2>5, <2>6
<1> QED
  BY <1>1, <1>2 DEF D!LastArgumentWins

(* The runtimes of an executable. *)
LinkedInv ==
  linked # None =>
    /\ parsed # None /\ parsed.pairs = {}
    /\ linked.shared \in BOOLEAN
    /\ linked.output = "executable" =>
         linked.runtimes = D!Runtimes(linked.shared, "executable")

LEMMA LinkTells ==
  ASSUME NEW shared \in BOOLEAN, NEW output, D!Link(shared, output)
  PROVE  LinkedInv'
<1>1. /\ parsed # None /\ parsed.pairs = {} /\ args' = args /\ parsed' = parsed
      /\ linked'.shared = shared /\ linked'.output = output
      /\ linked'.runtimes = D!Runtimes(shared, output)
  BY DEF D!Link
<1>2. D!Runtimes(shared, "executable")' = D!Runtimes(shared, "executable")
  BY <1>1 DEF D!Runtimes, D!SharedRuntimes, D!StaticRuntimes, D!WithDSO, D!Enabled, D!If,
              D!needsUbsanRt, D!needsLsanRt, D!needsCfiDiagRt, D!needsCfiRt, D!needsScudoRt,
              D!needsSafeStackRt, D!NonTrapping, D!CfiCrossDso, D!RequiresMinimalRuntime, D!Has,
              D!UbsanRt, D!ScudoRt, D!NeedsUbsanRt, D!UndefinedKinds, D!CFIKinds
<1> QED
  BY <1>1, <1>2 DEF LinkedInv

(* A runtime that replaces malloc is linked for one kind, and any two of     *)
(* these kinds are incompatible.                                           *)
LEMMA OneMalloc ==
  ASSUME ParsedInv, LinkedInv, linked # None, linked.output = "executable"
  PROVE  Cardinality(linked.runtimes
                       \cap {"asan", "hwasan", "tsan", "msan", "scudo", "scudo_minimal"}) <= 1
<1> DEFINE K == parsed.kinds
           M == linked.runtimes \cap {"asan", "hwasan", "tsan", "msan", "scudo", "scudo_minimal"}
<1>1. \A j \in {1, 2, 3, 4, 5, 6, 7, 8, 9, 10} : ~Clash(K, j)
  <2>1. \A j \in {1, 2, 3, 4, 5, 6, 7, 8, 9, 10} : j \in 1..10
    OBVIOUS
  <2> QED
    BY <2>1 DEF ParsedInv, ParsedAs, LinkedInv
<1>2. /\ ~({"Address", "Thread"} \subseteq K) /\ ~({"Address", "Memory"} \subseteq K)
      /\ ~({"Thread", "Memory"} \subseteq K)
      /\ ~({"HWAddress", "Address"} \subseteq K) /\ ~({"HWAddress", "Thread"} \subseteq K)
      /\ ~({"HWAddress", "Memory"} \subseteq K)
      /\ ~({"Scudo", "Address"} \subseteq K) /\ ~({"Scudo", "HWAddress"} \subseteq K)
      /\ ~({"Scudo", "Thread"} \subseteq K) /\ ~({"Scudo", "Memory"} \subseteq K)
  <2>1. ~Clash(K, 1) /\ ~Clash(K, 2) /\ ~Clash(K, 5) /\ ~Clash(K, 6)
    BY <1>1
  <2> HIDE DEF K
  <2> QED
    BY <2>1 DEF Clash, D!IncompatibleGroups
<1>3. /\ "asan" \in M => "Address" \in K
      /\ "hwasan" \in M => "HWAddress" \in K
      /\ "tsan" \in M => "Thread" \in K
      /\ "msan" \in M => "Memory" \in K
      /\ "scudo" \in M => "Scudo" \in K /\ ~D!RequiresMinimalRuntime
      /\ "scudo_minimal" \in M => "Scudo" \in K /\ D!RequiresMinimalRuntime
  <2>1. M \subseteq D!Runtimes(linked.shared, "executable")
    BY DEF LinkedInv
  <2>2. D!UbsanRt \in {"ubsan_minimal", "ubsan_standalone"}
    BY DEF D!UbsanRt
  <2> HIDE DEF M, K
  <2> QED
    BY <2>1, <2>2 DEF K, D!Runtimes, D!SharedRuntimes, D!StaticRuntimes, D!WithDSO, D!Enabled, D!If,
                 D!needsScudoRt, D!ScudoRt
<1>4. ASSUME NEW x \in M, NEW y \in M PROVE x = y
  <2> HIDE DEF K
  <2>1. x \in {"asan", "hwasan", "tsan", "msan", "scudo", "scudo_minimal"} /\ x \in M
    OBVIOUS
  <2>2. y \in {"asan", "hwasan", "tsan", "msan", "scudo", "scudo_minimal"} /\ y \in M
    OBVIOUS
  <2> HIDE DEF M
  <2> QED
    BY <1>2, <1>3, <2>1, <2>2
<1>5. CASE M = {}
  BY <1>5, FS_EmptySet
<1>6. CASE M # {}
  <2>1. PICK x \in M : TRUE
    BY <1>6
  <2>2. M = {x}
    <3> HIDE DEF M
    <3> QED
      BY <1>4, <2>1
  <2> HIDE DEF M
  <2>3. Cardinality(M) = 1
    BY <2>2, FS_Singleton
  <2> QED
    BY <2>3 DEF M
<1> QED
  BY <1>5, <1>6

Ubsans ==
  {"asan", "msan", "hwasan", "tsan", "lsan", "cfi_diag", "scudo", "ubsan_standalone",
   "ubsan_minimal"}

(* Where no other runtime comes with the checks of ubsan, its own is linked. *)
LEMMA EveryRuntime ==
  ASSUME ParsedInv, LinkedInv, linked # None, linked.output = "executable",
         NEW k \in D!Calling
  PROVE  D!Serving(k) \cap linked.runtimes # {}
<1> DEFINE K == parsed.kinds
           R == linked.runtimes
           sh == linked.shared
<1>1. /\ R = D!SharedRuntimes(sh) \cup D!StaticRuntimes(sh, "executable") /\ sh \in BOOLEAN
  BY DEF LinkedInv, D!Runtimes
<1>2. /\ D!WithDSO \subseteq R
      /\ D!needsLsanRt => "lsan" \in R
      /\ "Memory" \in K => "msan" \in R
      /\ D!needsSafeStackRt => "safestack" \in R
      /\ D!needsCfiDiagRt /\ ~D!needsUbsanRt => "cfi_diag" \in R
      /\ "Fuzzer" \in K => "fuzzer" \in R
  <2> HIDE DEF R
  <2> QED
    BY <1>1 DEF D!SharedRuntimes, D!StaticRuntimes, D!If, D!Enabled
<1>3. /\ "Address" \in K => "asan" \in R
      /\ "Thread" \in K => "tsan" \in R
      /\ "HWAddress" \in K => "hwasan" \in R
      /\ "Scudo" \in K => D!ScudoRt \in R
      /\ D!needsUbsanRt => D!UbsanRt \in R
  <2> HIDE DEF R
  <2> QED
    BY <1>2 DEF D!WithDSO, D!If, D!Enabled, D!needsScudoRt
<1>4. k \in K /\ k \in D!Kinds /\ k \notin parsed.trap
      /\ k \notin {"FuzzerNoLink", "ClusterTag", "PointerCompare", "MemTag", "KernelAddress",
                   "KernelHWAddress", "KernelMemory"}
  BY DEF D!Calling
<1>5. k \in {"Address", "HWAddress", "Thread", "Memory", "Leak", "Scudo", "SafeStack", "Fuzzer"}
      \/ k \in D!NeedsUbsanRt
  BY <1>4 DEF D!Kinds, D!NeedsUbsanRt
<1>6. "SafeStack" \in K => D!needsSafeStackRt
  <2>1. PICK n \in Nat : DOMAIN args = 1..n
    BY DEF ParsedInv, Numbered
  <2>2. PICK g : Loop(n, g)
    BY <2>1, GatheredIs
  <2>3. Told(n, 1, D!Gathered)
    <3>1. 1 \in 1..n + 1
      OBVIOUS
    <3> QED
      BY <2>2, <3>1, LoopTells DEF Loop
  <2>4. parsed.kinds \subseteq D!Gathered.kinds /\ parsed.allAdded = D!Gathered.allAdded
    BY DEF ParsedInv, ParsedAs, LinkedInv
  <2> QED
    BY <2>3, <2>4 DEF Told, D!needsSafeStackRt
<1>7. CASE k \in D!NeedsUbsanRt
  <2>1. D!Serving(k) = Ubsans
    BY <1>7 DEF D!Serving, Ubsans, D!NeedsUbsanRt, D!UndefinedKinds, D!CFIKinds
  <2>2. D!NonTrapping(D!NeedsUbsanRt)
    BY <1>4, <1>7 DEF D!NonTrapping
  <2>3. CASE D!needsUbsanRt
    BY <1>3, <2>1, <2>3 DEF D!UbsanRt, Ubsans
  <2>4. CASE \E l \in {"Address", "Memory", "HWAddress", "Thread"} : D!Enabled(l)
    <3> HIDE DEF R
    <3> QED
      BY <1>2, <1>3, <2>1, <2>4 DEF D!Enabled, Ubsans, R
  <2>5. CASE D!needsLsanRt
    BY <1>2, <2>1, <2>5 DEF Ubsans
  <2>6. CASE D!needsCfiDiagRt
    <3>1. ~D!needsUbsanRt
      BY <2>6 DEF D!needsUbsanRt
    <3> QED
      BY <1>2, <2>1, <2>6, <3>1 DEF Ubsans
  <2>7. CASE D!needsScudoRt /\ ~D!RequiresMinimalRuntime
    BY <1>3, <2>1, <2>7 DEF Ubsans, D!ScudoRt, D!needsScudoRt, D!Enabled
  <2> QED
    BY <2>2, <2>3, <2>4, <2>5, <2>6, <2>7 DEF D!needsUbsanRt
<1>8. CASE k \in {"Address", "HWAddress", "Thread", "Memory", "Fuzzer", "SafeStack"}
  <2> HIDE DEF R
  <2> QED
    BY <1>2, <1>3, <1>4, <1>6, <1>8
    DEF D!Serving, R, D!NeedsUbsanRt, D!UndefinedKinds, D!CFIKinds
<1>9. CASE k = "Leak"
  <2>1. D!needsLsanRt \/ "Address" \in K
    BY <1>4, <1>9 DEF D!needsLsanRt, D!Enabled
  <2>2. D!Serving(k) = {"lsan", "asan"}
    BY <1>9 DEF D!Serving, D!NeedsUbsanRt, D!UndefinedKinds, D!CFIKinds
  <2> QED
    BY <1>2, <1>3, <2>1, <2>2
<1>10. CASE k = "Scudo"
  BY <1>3, <1>4, <1>10
  DEF D!Serving, D!ScudoRt, D!NeedsUbsanRt, D!UndefinedKinds, D!CFIKinds
<1> QED
  BY <1>5, <1>7, <1>8, <1>9, <1>10

LEMMA RuntimesDoFit == ASSUME ParsedInv, LinkedInv PROVE D!RuntimesFit
<1> SUFFICES ASSUME linked # None /\ linked.output = "executable"
             PROVE  /\ \A k \in D!Calling : D!Serving(k) \cap linked.runtimes # {}
                    /\ D!Cardinality(linked.runtimes
                         \cap {"asan", "hwasan", "tsan", "msan", "scudo", "scudo_minimal"}) <= 1
  BY DEF D!RuntimesFit
<1>1. \A k \in D!Calling : D!Serving(k) \cap linked.runtimes # {}
  BY EveryRuntime
<1>2. D!Cardinality(linked.runtimes
        \cap {"asan", "hwasan", "tsan", "msan", "scudo", "scudo_minimal"}) <= 1
  BY OneMalloc DEF D!Cardinality, Cardinality, D!IsFiniteSet, IsFiniteSet
<1> QED
  BY <1>1, <1>2

------------------------------------------------------------------------------
(* What the tool chains compile and link with *)

LinkNumbered ==
  /\ \E n \in Nat : DOMAIN line = 1..n
  /\ target \in [platform : L!Platforms, pieDefault : BOOLEAN, picDefault : BOOLEAN,
                 forced : BOOLEAN]

NotAnOption == None \notin L!PicOptions

LEMMA LastOfIs ==
  ASSUME LinkNumbered, NEW options
  PROVE  L!LastOf(options) = None \/ L!LastOf(options) \in options
<1> DEFINE at == {i \in DOMAIN line : line[i] \in options}
<1>1. PICK n \in Nat : DOMAIN line = 1..n
  BY DEF LinkNumbered
<1>2. CASE at = {}
  BY <1>2 DEF L!LastOf
<1>3. CASE at # {}
  <2>1. at \in SUBSET (1..n)
    BY <1>1
  <2>2. L!Max(at) \in at
    <3> HIDE DEF at
    <3> QED
      BY <2>1, <1>3, MaxIn
  <2>3. L!LastOf(options) = line[L!Max(at)]
    BY <1>3 DEF L!LastOf
  <2>4. \A i \in at : line[i] \in options
    OBVIOUS
  <2> HIDE DEF at
  <2> QED
    BY <2>2, <2>3, <2>4
<1> QED
  BY <1>2, <1>3

Modes == [pie : BOOLEAN, pic : BOOLEAN, two : BOOLEAN]

LEMMA DefaultIs == ASSUME LinkNumbered PROVE L!Default \in Modes
BY DEF L!Default, LinkNumbered, Modes

LEMMA ChosenIs ==
  ASSUME LinkNumbered, NotAnOption, NEW mode \in Modes
  PROVE  /\ L!Chosen(mode) \in Modes
         /\ target.forced \/ L!LastPICArg = None => L!Chosen(mode) = mode
         /\ ~target.forced /\ L!LastPICArg # None /\ L!LastPICArg = "no-pic" =>
              /\ ~L!Chosen(mode).pie
              /\ L!Chosen(mode).pic <=> L!os = "ps4" /\ ~L!Has("mcmodel-kernel")
         /\ ~target.forced /\ L!LastPICArg # None /\ L!LastPICArg # "no-pic" =>
              /\ L!Chosen(mode).pie <=> L!LastPICArg \in {"PIE", "pie"}
              /\ L!Chosen(mode).pic
              /\ L!Chosen(mode).two <=> L!LastPICArg \in {"PIE", "PIC"}
<1> DEFINE last == L!LastPICArg
<1>0. target.forced \in BOOLEAN /\ None # "no-pic"
  BY DEF LinkNumbered, NotAnOption, L!PicOptions
<1>1. CASE target.forced \/ last = None
  <2>1. L!Chosen(mode) = mode
    BY <1>0, <1>1 DEF L!Chosen
  <2> QED
    BY <2>1, <1>1
<1>2. CASE ~target.forced /\ last # None /\ last = "no-pic"
  <2>1. L!Chosen(mode) = [mode EXCEPT !.pie = FALSE, !.pic = L!os = "ps4" /\ ~L!Has("mcmodel-kernel")]
    BY <1>2 DEF L!Chosen
  <2> HIDE DEF last
  <2> QED
    BY <1>2, <2>1 DEF Modes, last
<1>3. CASE ~target.forced /\ last # None /\ last # "no-pic"
  <2> DEFINE pie == last \in {"PIE", "pie"}
             two == last \in {"PIE", "PIC"}
  <2>1. L!Chosen(mode) = [pie |-> pie, pic |-> TRUE, two |-> two]
    BY <1>3 DEF L!Chosen
  <2>2. pie \in BOOLEAN /\ two \in BOOLEAN
    OBVIOUS
  <2>3. /\ L!Chosen(mode) \in Modes /\ L!Chosen(mode).pic
        /\ L!Chosen(mode).pie = pie /\ L!Chosen(mode).two = two
    <3> HIDE DEF pie, two
    <3> QED
      BY <2>1, <2>2 DEF Modes
  <2> QED
    BY <1>3, <2>3
<1> QED
  BY <1>0, <1>1, <1>2, <1>3

LEMMA PlatformedIs ==
  ASSUME LinkNumbered, NEW mode \in Modes
  PROVE  /\ L!Platformed(mode) \in Modes
         /\ ~L!Has("mkernel") =>
              L!Platformed(mode).pie = mode.pie /\ L!Platformed(mode).pic = mode.pic
         /\ ~L!Has("mkernel") /\ L!os = "linux" => L!Platformed(mode) = mode
<1> DEFINE two == mode.two \/ (mode.pic /\ L!os \in {"darwin", "ps4"} /\ target.picDefault)
<1>1. CASE L!Has("mkernel")
  <2>1. L!Platformed(mode) = [pie |-> FALSE, pic |-> FALSE, two |-> two]
    BY <1>1 DEF L!Platformed
  <2>2. two \in BOOLEAN
    BY DEF Modes
  <2>3. L!Platformed(mode) \in Modes
    <3> HIDE DEF two
    <3> QED
      BY <2>1, <2>2 DEF Modes
  <2> QED
    BY <1>1, <2>3
<1>2. CASE ~L!Has("mkernel")
  <2>1. L!Platformed(mode) = [mode EXCEPT !.two = two]
    BY <1>2 DEF L!Platformed
  <2>2. two \in BOOLEAN /\ (L!os = "linux" => two = mode.two)
    BY DEF Modes
  <2> HIDE DEF two
  <2>3. /\ L!Platformed(mode) \in Modes
        /\ L!Platformed(mode).pie = mode.pie /\ L!Platformed(mode).pic = mode.pic
    BY <2>1, <2>2 DEF Modes
  <2>4. L!os = "linux" => L!Platformed(mode) = mode
    BY <2>1, <2>2 DEF Modes
  <2> QED
    BY <1>2, <2>3, <2>4
<1> QED
  BY <1>1, <1>2

(* What ParsePICArgs returns: errors for embedded kinds that the target or   *)
(* PIC rule out, and of the rest what the last option says.                 *)
LEMMA PicIs ==
  ASSUME LinkNumbered, NotAnOption, L!ParsePICArgs
  PROVE  /\ pic'.pie => pic'.model = "PIC"
         /\ pic'.model # "DynamicNoPIC" => (pic'.level > 0 <=> pic'.model = "PIC")
         /\ pic'.model = "PIC" /\ pic'.errors = {} => ~L!Ropi /\ ~L!Rwpi
         /\ target.platform = <<"linux", "x86_64">> /\ ~target.forced
              /\ ~L!Has("mkernel") /\ ~L!Has("mdynamic-no-pic") =>
              <<pic'.level, pic'.pie>> =
                CASE L!LastPICArg = "PIC" -> <<2, FALSE>> [] L!LastPICArg = "pic" -> <<1, FALSE>>
                  [] L!LastPICArg = "PIE" -> <<2, TRUE>> [] L!LastPICArg = "pie" -> <<1, TRUE>>
                  [] L!LastPICArg = "no-pic" -> <<0, FALSE>>
                  [] OTHER -> <<IF target.pieDefault \/ target.picDefault THEN 2 ELSE 0,
                                target.pieDefault>>
<1> DEFINE mode == L!Platformed(L!Chosen(L!Default))
           x86 == target.platform = <<"linux", "x86_64">>
<1>1. L!Default \in Modes /\ L!Chosen(L!Default) \in Modes /\ mode \in Modes
  BY DefaultIs, ChosenIs, PlatformedIs DEF Modes
<1>2. x86 => L!os = "linux" /\ L!arch = "x86_64"
  BY DEF L!os, L!arch
<1>3. CASE L!WindowsRefuses
  <2>1. L!os = "windows" /\ ~x86
    BY <1>2, <1>3 DEF L!WindowsRefuses
  <2>2. pic' = IF L!arch = "x86_64" THEN L!Result("PIC", 2, FALSE, {"unsupported"})
               ELSE L!Result("Static", 0, FALSE, {"unsupported"})
    BY <1>3 DEF L!ParsePICArgs
  <2>3. CASE L!arch = "x86_64"
    <3>1. pic'.model = "PIC" /\ pic'.level = 2 /\ pic'.pie = FALSE
          /\ pic'.errors = {"unsupported"}
      BY <2>2, <2>3 DEF L!Result
    <3> QED
      BY <3>1, <2>1
  <2>4. CASE L!arch # "x86_64"
    <3>1. pic'.model = "Static" /\ pic'.level = 0 /\ pic'.pie = FALSE
      BY <2>2, <2>4 DEF L!Result
    <3> QED
      BY <3>1, <2>1
  <2> QED
    BY <2>3, <2>4
<1>4. CASE ~L!WindowsRefuses /\ L!Has("mdynamic-no-pic")
  <2>1. pic' = L!Result("DynamicNoPIC", IF target.picDefault /\ target.forced THEN 2 ELSE 0, FALSE,
                        IF L!os = "darwin" THEN {} ELSE {"unsupported"})
    BY <1>4 DEF L!ParsePICArgs
  <2> QED
    BY <1>4, <2>1 DEF L!Result
<1>5. CASE ~L!WindowsRefuses /\ ~L!Has("mdynamic-no-pic")
           /\ L!arch = "mips64" /\ L!Has("mno-abicalls")
  <2>1. pic' = L!Result("Static", 0, FALSE, L!EmbeddedErrors)
    BY <1>5 DEF L!ParsePICArgs
  <2>2. pic'.model = "Static" /\ pic'.level = 0 /\ pic'.pie = FALSE
    BY <2>1 DEF L!Result
  <2>3. ~x86
    BY <1>2, <1>5
  <2> QED
    BY <2>2, <2>3
<1>6. CASE ~L!WindowsRefuses /\ ~L!Has("mdynamic-no-pic")
           /\ ~(L!arch = "mips64" /\ L!Has("mno-abicalls"))
  <2> DEFINE m == L!ModeOf
             level == CASE ~m.pic -> 0 [] m.pic /\ m.two -> 2 [] OTHER -> 1
  <2>1. /\ pic' = L!Result(L!Model(m), level, m.pic /\ m.pie, L!EmbeddedErrors)
    BY <1>6 DEF L!ParsePICArgs
  <2>2. /\ pic'.model = L!Model(m) /\ pic'.level = level
        /\ pic'.pie = (m.pic /\ m.pie) /\ pic'.errors = L!EmbeddedErrors
    <3> HIDE DEF m, level
    <3> QED
      BY <2>1 DEF L!Result
  <2>3. m \in Modes /\ (L!arch # "mips64" => m = mode)
    <3> HIDE DEF mode
    <3> QED
      BY <1>1 DEF L!ModeOf, Modes, mode
  <2>4. (L!Model(m) = "PIC" <=> m.pic) /\ L!Model(m) # "DynamicNoPIC"
    BY <2>3 DEF L!Model, Modes
  <2>5. level \in {0, 1, 2} /\ (level > 0 <=> m.pic)
    <3> HIDE DEF m
    <3> QED
      BY <2>3 DEF Modes
  <2>6. m.pic /\ L!EmbeddedErrors = {} => ~L!Ropi /\ ~L!Rwpi
    <3> SUFFICES ASSUME m.pic, L!EmbeddedErrors = {}, L!Ropi \/ L!Rwpi PROVE FALSE
      OBVIOUS
    <3>1. L!arch = "arm" /\ ~(mode.pic \/ mode.pie)
      <4> HIDE DEF m
      <4> QED
        BY DEF L!EmbeddedErrors, mode
    <3>2. m = mode
      BY <2>3, <3>1
    <3> HIDE DEF m, mode
    <3> QED
      BY <3>1, <3>2
  <2>7. ASSUME x86, ~target.forced, ~L!Has("mkernel")
        PROVE  <<level, m.pic /\ m.pie>> =
                 CASE L!LastPICArg = "PIC" -> <<2, FALSE>> [] L!LastPICArg = "pic" -> <<1, FALSE>>
                   [] L!LastPICArg = "PIE" -> <<2, TRUE>> [] L!LastPICArg = "pie" -> <<1, TRUE>>
                   [] L!LastPICArg = "no-pic" -> <<0, FALSE>>
                   [] OTHER -> <<IF target.pieDefault \/ target.picDefault THEN 2 ELSE 0,
                                 target.pieDefault>>
    <3> DEFINE last == L!LastPICArg
               c == L!Chosen(L!Default)
               d == L!Default
    <3>1. m = c /\ c \in Modes
      BY <1>1, <1>2, <2>3, <2>7, PlatformedIs
    <3>2. last = None \/ last \in {"PIC", "pic", "PIE", "pie", "no-pic"}
      BY LastOfIs DEF L!LastPICArg, L!PicOptions
    <3>3. None \notin {"PIC", "pic", "PIE", "pie", "no-pic"}
      BY DEF NotAnOption, L!PicOptions
    <3>4. CASE last = None
      <4>1. m = d
        BY <1>1, <2>7, <3>1, <3>4, ChosenIs
      <4>2. /\ d.pie = target.pieDefault /\ d.pic = (target.pieDefault \/ target.picDefault)
            /\ d.two = (target.pieDefault \/ target.picDefault)
            /\ target.pieDefault \in BOOLEAN /\ target.picDefault \in BOOLEAN
        BY <1>2, <2>7 DEF L!Default, L!MachOStatic, LinkNumbered
      <4> HIDE DEF m, d, last
      <4>3. last \notin {"PIC", "pic", "PIE", "pie", "no-pic"}
        BY <3>3, <3>4
      <4> QED
        BY <4>1, <4>2, <4>3 DEF last
    <3>5. CASE last # None /\ last = "no-pic"
      <4>1. ~m.pie /\ ~m.pic
        BY <1>1, <1>2, <2>7, <3>1, <3>5, ChosenIs
      <4> HIDE DEF m, last
      <4> QED
        BY <4>1, <3>5 DEF last
    <3>6. CASE last # None /\ last # "no-pic"
      <4>1. /\ m.pie <=> last \in {"PIE", "pie"}
            /\ m.pic
            /\ m.two <=> last \in {"PIE", "PIC"}
        BY <1>1, <2>7, <3>1, <3>6, ChosenIs
      <4>2. m \in Modes /\ last \in {"PIC", "pic", "PIE", "pie"}
        BY <2>3, <3>2, <3>6
      <4> HIDE DEF m, last
      <4> QED
        BY <4>1, <4>2, <3>6 DEF last, Modes
    <3> QED
      BY <3>4, <3>5, <3>6
  <2> HIDE DEF m, level, x86
  <2> QED
    BY <2>2, <2>4, <2>5, <2>6, <2>7, <1>6 DEF x86
<1> QED
  BY <1>3, <1>4, <1>5, <1>6

LEMMA PicStep ==
  ASSUME LinkNumbered, NotAnOption, L!ParsePICArgs
  PROVE  L!PicExact'
<1>1. line' = line /\ target' = target
  BY DEF L!ParsePICArgs
<1>2. L!LastPICArg' = L!LastPICArg /\ L!Ropi' = L!Ropi /\ L!Rwpi' = L!Rwpi
      /\ L!Has("mkernel")' = L!Has("mkernel")
      /\ L!Has("mdynamic-no-pic")' = L!Has("mdynamic-no-pic")
  BY <1>1 DEF L!LastPICArg, L!Ropi, L!Rwpi, L!LastOf, L!Max, L!PicOptions, L!Has, L!Range
<1> QED
  BY <1>1, <1>2, PicIs DEF L!PicExact, L!LastPICArg

Unwinders == {"gcc_s", "gcc_eh", "unwind", "libunwind.a", "libunwind.so", "libunwind.dll.a"}
Markers == {"--as-needed", "--no-as-needed"}
OtherLibraries == {"gcc", "builtins", "dl"}
Libraries == Unwinders \cup Markers \cup OtherLibraries

(* What AddUnwindLibrary adds. *)
Unwinding(u) ==
  \/ u = <<>>
  \/ \E l \in Unwinders : u = <<l>>
  \/ \E l \in Unwinders : u = <<"--as-needed", l, "--no-as-needed">>

(* Two or three in a row, one by one. *)
LEMMA Pair ==
  ASSUME NEW S, NEW a \in S, NEW b \in S
  PROVE  /\ <<a>> \o <<b>> = <<a, b>>
         /\ <<a, b>> \in Seq(S) /\ Len(<<a, b>>) = 2
         /\ <<a, b>>[1] = a /\ <<a, b>>[2] = b
<1>1. /\ <<a, b>> \in Seq(S) /\ Len(<<a, b>>) = 2
      /\ <<a, b>>[1] = a /\ <<a, b>>[2] = b
  OBVIOUS
<1> DEFINE s == <<a>> \o <<b>>
<1>2. s \in Seq(S) /\ Len(s) = 2 /\ s[1] = a /\ s[2] = b
  OBVIOUS
<1> HIDE DEF s
<1>3. s = <<a, b>>
  BY <1>2
<1> QED
  BY <1>1, <1>3 DEF s

LEMMA Joined ==
  ASSUME NEW S, NEW p \in Seq(S), NEW q \in Seq(S)
  PROVE  /\ p \o q \in Seq(S) /\ Len(p \o q) = Len(p) + Len(q)
         /\ \A i \in 1..Len(p) : (p \o q)[i] = p[i]
         /\ \A i \in 1..Len(q) : (p \o q)[Len(p) + i] = q[i]
OBVIOUS

LEMMA Appended ==
  ASSUME NEW S, NEW p \in Seq(S), NEW c \in S
  PROVE  /\ p \o <<c>> \in Seq(S) /\ Len(p \o <<c>>) = Len(p) + 1
         /\ \A i \in 1..Len(p) : (p \o <<c>>)[i] = p[i]
         /\ (p \o <<c>>)[Len(p) + 1] = c
<1> DEFINE q == <<c>>
           s == p \o q
<1>1. q \in Seq(S) /\ Len(q) = 1 /\ q[1] = c
  OBVIOUS
<1> HIDE DEF q
<1>2. /\ s \in Seq(S) /\ Len(s) = Len(p) + Len(q)
      /\ \A i \in 1..Len(p) : s[i] = p[i]
      /\ \A i \in 1..Len(q) : s[Len(p) + i] = q[i]
  BY <1>1, Joined
<1> HIDE DEF s
<1>3. Len(s) = Len(p) + 1 /\ s[Len(p) + 1] = c
  BY <1>1, <1>2
<1> QED
  BY <1>2, <1>3 DEF q, s

LEMMA Behind ==
  ASSUME NEW S, NEW p \in Seq(S), NEW c \in S
  PROVE  /\ <<c>> \o p \in Seq(S) /\ Len(<<c>> \o p) = 1 + Len(p)
         /\ (<<c>> \o p)[1] = c
         /\ \A i \in 1..Len(p) : (<<c>> \o p)[1 + i] = p[i]
<1> DEFINE q == <<c>>
           s == q \o p
<1>1. q \in Seq(S) /\ Len(q) = 1 /\ q[1] = c
  OBVIOUS
<1> HIDE DEF q
<1>2. /\ s \in Seq(S) /\ Len(s) = Len(q) + Len(p)
      /\ \A i \in 1..Len(q) : s[i] = q[i]
      /\ \A i \in 1..Len(p) : s[Len(q) + i] = p[i]
  BY <1>1, Joined
<1> HIDE DEF s
<1>3. Len(s) = 1 + Len(p) /\ s[1] = c /\ \A i \in 1..Len(p) : s[1 + i] = p[i]
  BY <1>1, <1>2
<1> QED
  BY <1>2, <1>3 DEF q, s

(* A sequence of three or four is its members in a row. *)
LEMMA IsTriple ==
  ASSUME NEW S, NEW s \in Seq(S), Len(s) = 3
  PROVE  s = <<s[1], s[2], s[3]>>
OBVIOUS

LEMMA IsFour ==
  ASSUME NEW S, NEW s \in Seq(S), Len(s) = 4
  PROVE  s = <<s[1], s[2], s[3], s[4]>>
OBVIOUS

LEMMA ThreeInARow ==
  ASSUME NEW S, NEW a \in S, NEW b \in S, NEW c \in S
  PROVE  (<<a>> \o <<b>>) \o <<c>> = <<a, b, c>>
<1> DEFINE p == <<a, b>>
           s == p \o <<c>>
<1>2. p \in Seq(S) /\ Len(p) = 2 /\ p[1] = a /\ p[2] = b /\ <<a>> \o <<b>> = p
  BY Pair
<1> HIDE DEF p
<1>3. /\ s \in Seq(S) /\ Len(s) = Len(p) + 1
      /\ \A i \in 1..Len(p) : s[i] = p[i]
      /\ s[Len(p) + 1] = c
  BY <1>2, Appended
<1> HIDE DEF s
<1>4. s \in Seq(S) /\ Len(s) = 3 /\ s[1] = a /\ s[2] = b /\ s[3] = c
  BY <1>2, <1>3
<1>5. s = <<a, b, c>>
  BY <1>4, IsTriple
<1> QED
  BY <1>2, <1>5 DEF s

LEMMA Triple ==
  ASSUME NEW S, NEW a \in S, NEW b \in S, NEW c \in S
  PROVE  /\ <<a, b, c>> \in Seq(S) /\ Len(<<a, b, c>>) = 3
         /\ <<a, b, c>>[1] = a /\ <<a, b, c>>[2] = b /\ <<a, b, c>>[3] = c
OBVIOUS

LEMMA Four ==
  ASSUME NEW S, NEW a \in S, NEW b \in S, NEW c \in S, NEW d \in S
  PROVE  <<a>> \o <<b, c, d>> = <<a, b, c, d>>
<1> DEFINE p == <<b, c, d>>
           s == <<a>> \o p
<1>1. p \in Seq(S) /\ Len(p) = 3 /\ p[1] = b /\ p[2] = c /\ p[3] = d
  BY Triple
<1> HIDE DEF p
<1>2. /\ s \in Seq(S) /\ Len(s) = 1 + Len(p) /\ s[1] = a
      /\ \A i \in 1..Len(p) : s[1 + i] = p[i]
  <2> HIDE DEF p
  <2>1. \A r \in Seq(S) : <<a>> \o r \in Seq(S) /\ Len(<<a>> \o r) = 1 + Len(r)
    BY Behind
  <2>2. \A r \in Seq(S) : (<<a>> \o r)[1] = a
    BY Behind
  <2>3. \A r \in Seq(S) : \A i \in 1..Len(r) : (<<a>> \o r)[1 + i] = r[i]
    BY Behind
  <2> QED
    BY <1>1, <2>1, <2>2, <2>3, Zenon
<1> HIDE DEF s
<1>3. s[1 + 1] = p[1] /\ s[1 + 2] = p[2] /\ s[1 + 3] = p[3]
  BY <1>1, <1>2
<1>4. s \in Seq(S) /\ Len(s) = 4 /\ s[1] = a /\ s[2] = b /\ s[3] = c /\ s[4] = d
  BY <1>1, <1>2, <1>3
<1>5. s = <<a, b, c, d>>
  BY <1>4, IsFour
<1> QED
  BY <1>5 DEF s, p

LEMMA UnwindingIs ==
  ASSUME NEW unwind \in {"none", "libgcc", "compiler-rt"}, NEW cxx \in BOOLEAN
  PROVE  Unwinding(L!AddUnwindLibrary(unwind, cxx))
<1> DEFINE asNeeded == /\ L!LibGccType = "unspecified"
                       /\ unwind = "compiler-rt" \/ ~cxx
                       /\ L!os \notin {"android", "cygwin", "aix"}
           library == L!Unwinder(unwind)
<1>1. library = <<>> \/ \E l \in Unwinders : library = <<l>>
  BY DEF L!Unwinder, Unwinders
<1>2. asNeeded => library # <<>>
  BY DEF L!Unwinder
<1>3. L!AddUnwindLibrary(unwind, cxx) \in
        {<<>>, library} \cup (IF asNeeded THEN {(<<"--as-needed">> \o library) \o <<"--no-as-needed">>}
                              ELSE {})
  BY DEF L!AddUnwindLibrary
<1>4. ASSUME NEW l \in Unwinders
      PROVE  (<<"--as-needed">> \o <<l>>) \o <<"--no-as-needed">>
               = <<"--as-needed", l, "--no-as-needed">>
  <2> DEFINE a == "--as-needed"
             c == "--no-as-needed"
  <2>1. a \in Libraries /\ c \in Libraries /\ l \in Libraries
    BY DEF Libraries, Markers
  <2> HIDE DEF a, c
  <2>2. (<<a>> \o <<l>>) \o <<c>> = <<a, l, c>>
    BY <2>1, ThreeInARow, Zenon
  <2> QED
    BY <2>2 DEF a, c
<1> HIDE DEF library, asNeeded
<1> QED
  BY <1>1, <1>2, <1>3, <1>4 DEF Unwinding

(* s has u in it, and other libraries before and behind.                     *)
Around(s, u) ==
  /\ s \in Seq(Libraries)
  /\ \E k \in Nat :
       /\ k + Len(u) <= Len(s)
       /\ \A j \in 1..Len(u) : s[k + j] = u[j]
       /\ \A i \in 1..Len(s) : i <= k \/ i > k + Len(u) => s[i] \in OtherLibraries

LEMMA UnwindingLen ==
  ASSUME NEW u, Unwinding(u)
  PROVE  u \in Seq(Libraries) /\ Len(u) \in Nat
<1> DEFINE a == "--as-needed"
           c == "--no-as-needed"
<1>1. a \in Libraries /\ c \in Libraries /\ \A l \in Unwinders : l \in Libraries
  BY DEF Libraries, Markers
<1>2. CASE u = <<>>
  BY <1>2
<1>3. CASE \E l \in Unwinders : u = <<l>>
  BY <1>1, <1>3
<1>4. CASE \E l \in Unwinders : u = <<a, l, c>>
  <2> HIDE DEF a, c
  <2>1. PICK l \in Unwinders : u = <<a, l, c>>
    BY <1>4
  <2> QED
    BY <1>1, <2>1, Triple
<1> QED
  BY <1>2, <1>3, <1>4 DEF Unwinding

LEMMA AroundBefore ==
  ASSUME NEW u, Unwinding(u), NEW g \in OtherLibraries
  PROVE  Around(<<g>> \o u, u)
<1>1. u \in Seq(Libraries) /\ Len(u) \in Nat /\ g \in Libraries
  BY UnwindingLen DEF Libraries
<1> DEFINE s == <<g>> \o u
<1>2. s \in Seq(Libraries) /\ Len(s) = 1 + Len(u) /\ s[1] = g
      /\ \A j \in 1..Len(u) : s[1 + j] = u[j]
  BY <1>1
<1>3. \A i \in 1..Len(s) : i <= 1 \/ i > 1 + Len(u) => s[i] \in OtherLibraries
  BY <1>1, <1>2
<1> HIDE DEF s
<1>4. 1 + Len(u) <= Len(s) /\ 1 \in Nat
  BY <1>1, <1>2
<1>5. Around(s, u)
  BY <1>2, <1>3, <1>4 DEF Around
<1> QED
  BY <1>5 DEF s

LEMMA AroundBehind ==
  ASSUME NEW u, NEW s, Around(s, u), Unwinding(u), NEW d \in Seq(OtherLibraries)
  PROVE  Around(s \o d, u)
<1> DEFINE t == s \o d
<1>1. PICK k \in Nat :
        /\ k + Len(u) <= Len(s)
        /\ \A j \in 1..Len(u) : s[k + j] = u[j]
        /\ \A i \in 1..Len(s) : i <= k \/ i > k + Len(u) => s[i] \in OtherLibraries
  BY DEF Around
<1>2. s \in Seq(Libraries) /\ Len(s) \in Nat /\ Len(u) \in Nat
      /\ d \in Seq(Libraries) /\ Len(d) \in Nat
  BY UnwindingLen DEF Around, Libraries
<1>3. /\ t \in Seq(Libraries) /\ Len(t) = Len(s) + Len(d)
      /\ \A i \in 1..Len(s) : t[i] = s[i]
      /\ \A i \in 1..Len(t) : i > Len(s) => t[i] = d[i - Len(s)] /\ i - Len(s) \in 1..Len(d)
  BY <1>2
<1>4. \A i \in 1..Len(d) : d[i] \in OtherLibraries
  OBVIOUS
<1> HIDE DEF t
<1>5. \A j \in 1..Len(u) : t[k + j] = u[j]
  BY <1>1, <1>2, <1>3
<1>6. \A i \in 1..Len(t) : i <= k \/ i > k + Len(u) => t[i] \in OtherLibraries
  <2> SUFFICES ASSUME NEW i \in 1..Len(t), i <= k \/ i > k + Len(u)
               PROVE  t[i] \in OtherLibraries
    OBVIOUS
  <2>1. CASE i <= Len(s)
    BY <1>1, <1>2, <1>3, <2>1, SMTT(20)
  <2>2. CASE i > Len(s)
    BY <1>2, <1>3, <1>4, <2>2
  <2> QED
    BY <1>2, <1>3, <2>1, <2>2
<1>7. k + Len(u) <= Len(t)
  BY <1>1, <1>2, <1>3
<1>8. Around(t, u)
  BY <1>3, <1>5, <1>6, <1>7 DEF Around
<1> QED
  BY <1>8 DEF t

LEMMA AroundItself == ASSUME NEW u, Unwinding(u) PROVE Around(u, u)
<1>1. u \in Seq(Libraries) /\ Len(u) \in Nat
  BY UnwindingLen
<1>2. 0 + Len(u) <= Len(u) /\ \A j \in 1..Len(u) : 0 + j = j
  BY <1>1
<1>3. /\ 0 \in Nat
      /\ 0 + Len(u) <= Len(u)
      /\ \A j \in 1..Len(u) : u[0 + j] = u[j]
      /\ \A i \in 1..Len(u) : i <= 0 \/ i > 0 + Len(u) => u[i] \in OtherLibraries
  BY <1>1, <1>2
<1> QED
  BY <1>1, <1>3 DEF Around

(* So every marker of the linker is where its other is, two places apart,    *)
(* and there is at most one library for unwinding.                          *)
LEMMA AroundTells ==
  ASSUME NEW s, NEW u, Around(s, u), Unwinding(u)
  PROVE  LET place(a) == {i \in DOMAIN s : s[i] = a}
         IN  /\ {i + 2 : i \in place("--as-needed")} = place("--no-as-needed")
             /\ Cardinality(UNION {place(l) : l \in Unwinders}) <= 1
<1> DEFINE place(a) == {i \in DOMAIN s : s[i] = a}
<1>1. PICK k \in Nat :
        /\ k + Len(u) <= Len(s)
        /\ \A j \in 1..Len(u) : s[k + j] = u[j]
        /\ \A i \in 1..Len(s) : i <= k \/ i > k + Len(u) => s[i] \in OtherLibraries
  BY DEF Around
<1>2. s \in Seq(Libraries) /\ DOMAIN s = 1..Len(s) /\ Len(s) \in Nat /\ Len(u) \in Nat
  BY UnwindingLen DEF Around
<1>3. OtherLibraries \cap (Unwinders \cup Markers) = {} /\ Unwinders \cap Markers = {}
  BY DEF OtherLibraries, Unwinders, Markers
<1>4. "--as-needed" \in Markers /\ "--no-as-needed" \in Markers /\ "--as-needed" # "--no-as-needed"
  BY DEF Markers
<1>5. ASSUME NEW i \in DOMAIN s, s[i] \in Unwinders \cup Markers
      PROVE  \E j \in 1..Len(u) : i = k + j /\ s[i] = u[j]
  <2>1. i > k /\ i <= k + Len(u)
    BY <1>1, <1>2, <1>3, <1>5
  <2>2. i - k \in 1..Len(u) /\ i = k + (i - k)
    BY <1>2, <2>1
  <2> QED
    BY <1>1, <2>2
<1>6. \A j \in 1..Len(u) : k + j \in DOMAIN s
  BY <1>1, <1>2
<1>7. CASE u = <<>>
  <2>1. \A i \in DOMAIN s : s[i] \notin Unwinders \cup Markers
    BY <1>5, <1>7
  <2>2. place("--as-needed") = {} /\ place("--no-as-needed") = {}
        /\ UNION {place(l) : l \in Unwinders} = {}
    BY <2>1, <1>4
  <2> HIDE DEF place
  <2>3. {i + 2 : i \in place("--as-needed")} = place("--no-as-needed")
    BY <2>2
  <2>4. Cardinality(UNION {place(l) : l \in Unwinders}) = 0
    BY <2>2, FS_EmptySet
  <2> QED
    BY <2>3, <2>4 DEF place
<1>8. CASE \E l \in Unwinders : u = <<l>>
  <2>1. PICK l \in Unwinders : u = <<l>>
    BY <1>8
  <2>2. Len(u) = 1 /\ u[1] = l
    BY <2>1
  <2>3. k + 1 \in DOMAIN s /\ s[k + 1] = l
    BY <1>1, <1>6, <2>2
  <2>4. \A i \in DOMAIN s : s[i] \in Unwinders \cup Markers => i = k + 1
    BY <1>5, <2>2
  <2>5. place("--as-needed") = {} /\ place("--no-as-needed") = {}
        /\ UNION {place(m) : m \in Unwinders} = {k + 1}
    BY <2>3, <2>4, <1>3, <1>4
  <2> HIDE DEF place
  <2>6. {i + 2 : i \in place("--as-needed")} = place("--no-as-needed")
    BY <2>5
  <2>7. Cardinality(UNION {place(m) : m \in Unwinders}) = 1
    BY <2>5, FS_Singleton
  <2> QED
    BY <2>6, <2>7 DEF place
<1>9. CASE \E l \in Unwinders : u = <<"--as-needed", l, "--no-as-needed">>
  <2>1. PICK l \in Unwinders : u = <<"--as-needed", l, "--no-as-needed">>
    BY <1>9
  <2>2. Len(u) = 3 /\ u[1] = "--as-needed" /\ u[2] = l /\ u[3] = "--no-as-needed"
    BY <2>1
  <2>3. /\ k + 1 \in DOMAIN s /\ k + 2 \in DOMAIN s /\ k + 3 \in DOMAIN s
        /\ s[k + 1] = "--as-needed" /\ s[k + 2] = l /\ s[k + 3] = "--no-as-needed"
    BY <1>1, <1>6, <2>2
  <2>4. \A i \in DOMAIN s : s[i] \in Unwinders \cup Markers => i \in {k + 1, k + 2, k + 3}
    BY <1>5, <2>2
  <2>5. place("--as-needed") = {k + 1} /\ place("--no-as-needed") = {k + 3}
        /\ UNION {place(m) : m \in Unwinders} = {k + 2}
    BY <2>3, <2>4, <1>3, <1>4
  <2> HIDE DEF place
  <2>6. {i + 2 : i \in place("--as-needed")} = place("--no-as-needed")
    BY <2>5
  <2>7. Cardinality(UNION {place(m) : m \in Unwinders}) = 1
    BY <2>5, FS_Singleton
  <2> QED
    BY <2>6, <2>7 DEF place
<1> QED
  BY <1>7, <1>8, <1>9 DEF Unwinding

LEMMA LibdlIs == L!Libdl \in Seq(OtherLibraries) /\ (L!os = "linux" => L!Libdl = <<>>)
<1> DEFINE dl == "dl"
<1>1. dl \in OtherLibraries
  BY DEF OtherLibraries
<1>2. L!Libdl = <<dl>> \/ L!Libdl = <<>>
  BY DEF L!Libdl
<1>3. L!os = "linux" => L!Libdl = <<>>
  BY DEF L!Libdl
<1> HIDE DEF dl
<1>4. <<dl>> \in Seq(OtherLibraries) /\ <<>> \in Seq(OtherLibraries)
  BY <1>1
<1> QED
  BY <1>2, <1>3, <1>4

LEMMA LibgccAround ==
  ASSUME NEW unwind \in {"none", "libgcc", "compiler-rt"}, NEW cxx \in BOOLEAN
  PROVE  Around(L!AddLibgcc(unwind, cxx), L!AddUnwindLibrary(unwind, cxx))
<1> DEFINE u == L!AddUnwindLibrary(unwind, cxx)
<1>1. Unwinding(u) /\ "gcc" \in OtherLibraries /\ <<"gcc">> \in Seq(OtherLibraries)
  BY UnwindingIs DEF OtherLibraries
<1>2. L!AddLibgcc(unwind, cxx) = <<"gcc">> \o u \/ L!AddLibgcc(unwind, cxx) = u \o <<"gcc">>
  BY DEF L!AddLibgcc
<1> HIDE DEF u
<1> QED
  BY <1>1, <1>2, AroundBefore, AroundBehind, AroundItself DEF u

(* What gcc and g++ pass on Linux. *)
LEMMA LinuxLibs ==
  ASSUME L!os = "linux", NEW cxx \in BOOLEAN
  PROVE  L!AddLibgcc("libgcc", cxx) =
           CASE L!LibGccType = "static" -> <<"gcc", "gcc_eh">>
             [] L!LibGccType = "shared" -> <<"gcc_s", "gcc">>
             [] OTHER -> IF cxx THEN <<"gcc_s", "gcc">>
                         ELSE <<"gcc", "--as-needed", "gcc_s", "--no-as-needed">>
<1> DEFINE gcc == "gcc"
           gcc_s == "gcc_s"
           gcc_eh == "gcc_eh"
           as == "--as-needed"
           no == "--no-as-needed"
<1>0. gcc \in Libraries /\ gcc_s \in Libraries /\ gcc_eh \in Libraries
      /\ as \in Libraries /\ no \in Libraries
  BY DEF Libraries, OtherLibraries, Unwinders, Markers
<1>6. /\ <<gcc>> \o <<gcc_eh>> = <<gcc, gcc_eh>>
      /\ <<gcc_s>> \o <<gcc>> = <<gcc_s, gcc>>
      /\ (<<as>> \o <<gcc_s>>) \o <<no>> = <<as, gcc_s, no>>
      /\ <<gcc>> \o <<as, gcc_s, no>> = <<gcc, as, gcc_s, no>>
  <2> HIDE DEF gcc, gcc_s, gcc_eh, as, no
  <2>1. <<gcc>> \o <<gcc_eh>> = <<gcc, gcc_eh>> /\ <<gcc_s>> \o <<gcc>> = <<gcc_s, gcc>>
    BY <1>0, Pair
  <2>4. \A x, y, z \in Libraries : (<<x>> \o <<y>>) \o <<z>> = <<x, y, z>>
    BY ThreeInARow, Zenon
  <2>2. (<<as>> \o <<gcc_s>>) \o <<no>> = <<as, gcc_s, no>>
    BY <1>0, <2>4, Zenon
  <2>5. \A a, b, c, d \in Libraries : <<a>> \o <<b, c, d>> = <<a, b, c, d>>
    BY Four, Zenon
  <2>6. \A c, d \in Libraries : <<gcc>> \o <<as, c, d>> = <<gcc, as, c, d>>
    BY <1>0, <2>5, Zenon
  <2>3. <<gcc>> \o <<as, gcc_s, no>> = <<gcc, as, gcc_s, no>>
    BY <1>0, <2>6, Zenon
  <2> QED
    BY <2>1, <2>2, <2>3
<1>1. L!LibGccType \in {"static", "shared", "unspecified"}
  BY DEF L!LibGccType
<1>2. CASE L!LibGccType = "static"
  <2>1. L!AddUnwindLibrary("libgcc", cxx) = <<"gcc_eh">>
    BY <1>2 DEF L!AddUnwindLibrary, L!Unwinder
  <2>2. L!AddLibgcc("libgcc", cxx) = <<"gcc">> \o <<"gcc_eh">>
    BY <1>2, <2>1 DEF L!AddLibgcc
  <2>3. <<"gcc">> \o <<"gcc_eh">> = <<"gcc", "gcc_eh">>
    BY <1>6
  <2> QED
    BY <1>2, <2>2, <2>3
<1>3. CASE L!LibGccType = "shared"
  <2>1. L!AddUnwindLibrary("libgcc", cxx) = <<"gcc_s">>
    BY <1>3 DEF L!AddUnwindLibrary, L!Unwinder
  <2>2. L!AddLibgcc("libgcc", cxx) = <<"gcc_s">> \o <<"gcc">>
    BY <1>3, <2>1 DEF L!AddLibgcc
  <2>3. <<"gcc_s">> \o <<"gcc">> = <<"gcc_s", "gcc">>
    BY <1>6
  <2> QED
    BY <1>3, <2>2, <2>3
<1>4. CASE L!LibGccType = "unspecified" /\ cxx
  <2>1. L!AddUnwindLibrary("libgcc", cxx) = <<"gcc_s">>
    BY <1>4 DEF L!AddUnwindLibrary, L!Unwinder
  <2>2. L!AddLibgcc("libgcc", cxx) = <<"gcc_s">> \o <<"gcc">>
    BY <1>4, <2>1 DEF L!AddLibgcc
  <2>3. <<"gcc_s">> \o <<"gcc">> = <<"gcc_s", "gcc">>
    BY <1>6
  <2> QED
    BY <1>4, <2>2, <2>3
<1>5. CASE L!LibGccType = "unspecified" /\ ~cxx
  <2>1. L!AddUnwindLibrary("libgcc", cxx) = (<<"--as-needed">> \o <<"gcc_s">>) \o <<"--no-as-needed">>
    BY <1>5 DEF L!AddUnwindLibrary, L!Unwinder
  <2>2. L!AddLibgcc("libgcc", cxx)
          = <<"gcc">> \o ((<<"--as-needed">> \o <<"gcc_s">>) \o <<"--no-as-needed">>)
    BY <1>5, <2>1 DEF L!AddLibgcc
  <2>3. (<<"--as-needed">> \o <<"gcc_s">>) \o <<"--no-as-needed">>
          = <<"--as-needed", "gcc_s", "--no-as-needed">>
    BY <1>6
  <2>4. <<"gcc">> \o <<"--as-needed", "gcc_s", "--no-as-needed">>
          = <<"gcc", "--as-needed", "gcc_s", "--no-as-needed">>
    BY <1>6
  <2> QED
    BY <1>5, <2>2, <2>3, <2>4
<1> QED
  BY <1>1, <1>2, <1>3, <1>4, <1>5

LEMMA LibsStep ==
  ASSUME NEW rtlib \in {"compiler-rt", "libgcc"}, NEW unwind \in {"none", "libgcc", "compiler-rt"},
         NEW cxx \in BOOLEAN, L!AddRunTimeLibs(rtlib, unwind, cxx)
  PROVE  L!LibsExact'
<1> DEFINE u == L!AddUnwindLibrary(unwind, cxx)
           first == CASE rtlib = "compiler-rt" -> <<"builtins">> \o u
                      [] rtlib = "libgcc" /\ L!os = "windows" -> <<>>
                      [] OTHER -> L!AddLibgcc(unwind, cxx)
<1>1. /\ line' = line /\ target' = target
      /\ libs' = [rtlib |-> rtlib, unwind |-> unwind, cxx |-> cxx, args |-> first \o L!Libdl]
  BY DEF L!AddRunTimeLibs
<1>2. /\ libs'.rtlib = rtlib /\ libs'.unwind = unwind /\ libs'.cxx = cxx
      /\ libs'.args = first \o L!Libdl
  <2> HIDE DEF first
  <2> QED
    BY <1>1
<1>3. Unwinding(u) /\ "builtins" \in OtherLibraries /\ Unwinding(<<>>)
  BY UnwindingIs DEF OtherLibraries, Unwinding
<1>4. PICK v : Unwinding(v) /\ Around(first, v)
  <2>1. CASE rtlib = "compiler-rt"
    <3>1. first = <<"builtins">> \o u
      BY <2>1
    <3> HIDE DEF u, first
    <3> QED
      BY <1>3, <3>1, AroundBefore
  <2>2. CASE rtlib = "libgcc" /\ L!os = "windows"
    <3>1. first = <<>>
      BY <2>2
    <3> HIDE DEF u, first
    <3> QED
      BY <1>3, <3>1, AroundItself
  <2>3. CASE rtlib = "libgcc" /\ L!os # "windows"
    <3>1. first = L!AddLibgcc(unwind, cxx)
      BY <2>3
    <3> HIDE DEF first
    <3> QED
      BY <1>3, <3>1, LibgccAround
  <2> QED
    BY <2>1, <2>2, <2>3
<1>5. Around(libs'.args, v)
  <2> HIDE DEF first
  <2> QED
    BY <1>2, <1>4, LibdlIs, AroundBehind
<1> DEFINE place(a) == {i \in DOMAIN libs'.args : libs'.args[i] = a}
<1>6. /\ {i + 2 : i \in place("--as-needed")} = place("--no-as-needed")
      /\ Cardinality(UNION {place(l) : l \in Unwinders}) <= 1
  BY <1>4, <1>5, AroundTells
<1>7. ASSUME L!os = "linux", rtlib = "libgcc", unwind = "libgcc"
      PROVE  libs'.args = L!AddLibgcc("libgcc", cxx)
  <2>1. first = L!AddLibgcc("libgcc", cxx) /\ L!Libdl = <<>>
    BY <1>7, LibdlIs
  <2>2. first \in Seq(Libraries)
    BY <1>4 DEF Around
  <2> HIDE DEF first
  <2> QED
    BY <1>2, <2>1, <2>2
<1>8. /\ L!os' = L!os /\ L!LibGccType' = L!LibGccType
      /\ \A o : L!Has(o)' <=> L!Has(o)
  BY <1>1 DEF L!os, L!LibGccType, L!Has, L!Range
<1> DEFINE asked == \E o \in {"static-libgcc", "static", "static-pie"} : L!Has(o)
           gnu == CASE asked -> <<"gcc", "gcc_eh">>
                    [] L!Has("shared-libgcc") /\ ~asked -> <<"gcc_s", "gcc">>
                    [] OTHER -> IF cxx THEN <<"gcc_s", "gcc">>
                                ELSE <<"gcc", "--as-needed", "gcc_s", "--no-as-needed">>
<1>9. ASSUME L!os = "linux"
      PROVE  L!LibGccType = CASE asked -> "static"
                              [] L!Has("shared-libgcc") /\ ~asked -> "shared"
                              [] OTHER -> "unspecified"
  BY <1>9 DEF L!LibGccType
<1>10. ASSUME L!os = "linux"
       PROVE  L!AddLibgcc("libgcc", cxx) = gnu
  <2>1. CASE asked
    <3>1. L!LibGccType = "static" /\ gnu = <<"gcc", "gcc_eh">>
      BY <1>9, <1>10, <2>1
    <3> QED
      BY <1>10, <3>1, LinuxLibs
  <2>2. CASE L!Has("shared-libgcc") /\ ~asked
    <3>1. L!LibGccType = "shared" /\ gnu = <<"gcc_s", "gcc">>
      BY <1>9, <1>10, <2>2
    <3> QED
      BY <1>10, <3>1, LinuxLibs
  <2>3. CASE ~asked /\ ~L!Has("shared-libgcc")
    <3>1. L!LibGccType = "unspecified"
          /\ gnu = IF cxx THEN <<"gcc_s", "gcc">>
                   ELSE <<"gcc", "--as-needed", "gcc_s", "--no-as-needed">>
      BY <1>9, <1>10, <2>3
    <3> QED
      BY <1>10, <3>1, LinuxLibs
  <2> QED
    BY <2>1, <2>2, <2>3
<1> DEFINE nix == L!os' = "linux" /\ libs'.rtlib = "libgcc" /\ libs'.unwind = "libgcc"
<1>11. nix => libs'.args = gnu
  BY <1>2, <1>7, <1>8, <1>10
<1>12. gnu = CASE \E o \in {"static-libgcc", "static", "static-pie"} : L!Has(o)' ->
                      <<"gcc", "gcc_eh">>
               [] L!Has("shared-libgcc")'
                    /\ \A o \in {"static-libgcc", "static", "static-pie"} : ~L!Has(o)' ->
                    <<"gcc_s", "gcc">>
               [] OTHER -> IF libs'.cxx THEN <<"gcc_s", "gcc">>
                           ELSE <<"gcc", "--as-needed", "gcc_s", "--no-as-needed">>
  <2>1. asked <=> \E o \in {"static-libgcc", "static", "static-pie"} : L!Has(o)'
    BY <1>8
  <2>2. L!Has("shared-libgcc")' <=> L!Has("shared-libgcc")
    BY <1>8
  <2> QED
    BY <1>2, <2>1, <2>2
<1>13. L!Cardinality(UNION {place(l) : l \in Unwinders})
         = Cardinality(UNION {place(l) : l \in Unwinders})
  BY DEF L!Cardinality, Cardinality, L!IsFiniteSet, IsFiniteSet
<1>14. nix => libs'.args = CASE \E o \in {"static-libgcc", "static", "static-pie"} : L!Has(o)' ->
                      <<"gcc", "gcc_eh">>
               [] L!Has("shared-libgcc")'
                    /\ \A o \in {"static-libgcc", "static", "static-pie"} : ~L!Has(o)' ->
                    <<"gcc_s", "gcc">>
               [] OTHER -> IF libs'.cxx THEN <<"gcc_s", "gcc">>
                           ELSE <<"gcc", "--as-needed", "gcc_s", "--no-as-needed">>
  <2> HIDE DEF gnu, nix
  <2> QED
    BY <1>11, <1>12
<1>15. L!Cardinality(UNION {place(l) : l \in Unwinders}) <= 1
  BY <1>6, <1>13
<1> QED
  BY <1>6, <1>14, <1>15, Zenon DEF L!LibsExact, Unwinders

LEMMA PicSame ==
  ASSUME UNCHANGED linkVars, L!PicExact
  PROVE  L!PicExact'
BY DEF linkVars, L!PicExact, L!Ropi, L!Rwpi, L!Has, L!Range, L!LastOf, L!Max, L!PicOptions

LEMMA LibsSame ==
  ASSUME UNCHANGED linkVars, L!LibsExact
  PROVE  L!LibsExact'
BY DEF linkVars, L!LibsExact, L!Cardinality, L!IsFiniteSet, L!os, L!Has, L!Range

LEMMA LinkNumberedSame ==
  ASSUME LinkNumbered, line' = line, target' = target
  PROVE  LinkNumbered'
BY DEF LinkNumbered, L!Platforms

(* Of a step of LinkFlags.  The other of its two results stays as it is.     *)
LEMMA LinkFlagsStep ==
  ASSUME LinkNumbered, NotAnOption, L!PicExact, L!LibsExact, L!Next
  PROVE  LinkNumbered' /\ L!PicExact' /\ L!LibsExact'
<1>1. CASE libs = None /\ L!ParsePICArgs
  <2>1. line' = line /\ target' = target /\ libs' = None
    BY <1>1 DEF L!ParsePICArgs
  <2>2. L!LibsExact'
    BY <2>1 DEF L!LibsExact
  <2> QED
    BY <1>1, <2>1, <2>2, PicStep, LinkNumberedSame
<1>2. ASSUME NEW rtlib \in {"compiler-rt", "libgcc"}, NEW unwind \in {"none", "libgcc", "compiler-rt"},
             NEW cxx \in BOOLEAN, pic = None, L!AddRunTimeLibs(rtlib, unwind, cxx)
      PROVE  LinkNumbered' /\ L!PicExact' /\ L!LibsExact'
  <2>1. line' = line /\ target' = target /\ pic' = None
    BY <1>2 DEF L!AddRunTimeLibs
  <2>2. L!PicExact'
    BY <2>1 DEF L!PicExact
  <2> QED
    BY <1>2, <2>1, <2>2, LibsStep, LinkNumberedSame
<1> QED
  BY <1>1, <1>2 DEF L!Next

(* Of a step of SanitizerDriver. *)
LEMMA DriverStep ==
  ASSUME ParsedInv, LinkedInv, D!Next
  PROVE  ParsedInv' /\ LinkedInv'
<1>1. CASE D!Parse
  <2>1. linked' = linked /\ parsed = None
    BY <1>1 DEF D!Parse
  <2>2. LinkedInv'
    BY <2>1 DEF LinkedInv
  <2> QED
    BY <1>1, <2>2, ParseTells
<1>2. ASSUME NEW shared \in BOOLEAN, NEW output \in {"executable", "library"},
             D!Link(shared, output)
      PROVE  ParsedInv' /\ LinkedInv'
  <2>1. args' = args /\ parsed' = parsed
    BY <1>2 DEF D!Link
  <2> QED
    BY <1>2, <2>1, LinkTells, ParsedSame
<1> QED
  BY <1>1, <1>2 DEF D!Next

LEMMA DriverSame ==
  ASSUME ParsedInv, LinkedInv, UNCHANGED driverVars
  PROVE  ParsedInv' /\ LinkedInv'
<1>1. args' = args /\ parsed' = parsed /\ linked' = linked
  BY DEF driverVars
<1>2. D!Runtimes(linked.shared, "executable")' = D!Runtimes(linked.shared, "executable")
  BY <1>1 DEF D!Runtimes, D!SharedRuntimes, D!StaticRuntimes, D!WithDSO, D!Enabled, D!If,
              D!needsUbsanRt, D!needsLsanRt, D!needsCfiDiagRt, D!needsCfiRt, D!needsScudoRt,
              D!needsSafeStackRt, D!NonTrapping, D!CfiCrossDso, D!RequiresMinimalRuntime, D!Has,
              D!UbsanRt, D!ScudoRt, D!NeedsUbsanRt, D!UndefinedKinds, D!CFIKinds
<1>3. LinkedInv'
  BY <1>1, <1>2 DEF LinkedInv
<1> QED
  BY <1>1, <1>3, ParsedSame

------------------------------------------------------------------------------
(* What the compiler proper is told *)

(* What is alike in SanitizerDriver and SanitizerFlags. *)
LEMMA Twins ==
  /\ F!Gathered = D!Gathered /\ F!Kinds = D!Kinds /\ F!Groups = D!Groups
  /\ F!CFIKinds = D!CFIKinds /\ F!UndefinedKinds = D!UndefinedKinds
  /\ \A m : F!ExpandGroups(m) = D!ExpandGroups(m)
  /\ \A a : F!ParseArgValues(a) = D!ParseArgValues(a)
  /\ \A v : F!Named(v) = D!Named(v)
<1>1. F!Gathered = D!Gathered
  BY DEF D!Gathered, D!FoldRight, D!MapThenFoldSet, D!Turn, D!Min, D!Max, D!ParseArgValues,
         D!Refused, D!Added, D!ExpandGroups, D!Forbidden, D!Members, D!Groups, D!Named, D!Kinds,
         D!CFIKinds, D!UndefinedKinds, D!getSupportedSanitizers, D!ToolChainSupported, D!If,
         D!Arch, D!NotAllowedWithTrap, D!TrappingKinds, D!TrappingDefault, D!Has,
         D!NotAllowedWithMinimalRuntime,
         F!Gathered, F!FoldRight, F!MapThenFoldSet, F!Turn, F!Min, F!Max, F!ParseArgValues,
         F!Refused, F!Added, F!ExpandGroups, F!Forbidden, F!Members, F!Groups, F!Named, F!Kinds,
         F!CFIKinds, F!UndefinedKinds, F!getSupportedSanitizers, F!ToolChainSupported, F!If,
         F!Arch, F!NotAllowedWithTrap, F!TrappingKinds, F!TrappingDefault, F!Has,
         F!NotAllowedWithMinimalRuntime
<1>2. F!CFIKinds = D!CFIKinds /\ F!UndefinedKinds = D!UndefinedKinds
  BY DEF D!CFIKinds, D!UndefinedKinds, F!CFIKinds, F!UndefinedKinds
<1>3. F!Kinds = D!Kinds
  BY <1>2 DEF D!Kinds, F!Kinds
<1>4. F!Members = D!Members
  BY <1>2, <1>3 DEF F!Members, D!Members
<1>5. F!Groups = D!Groups
  BY <1>4 DEF F!Groups, D!Groups
<1>6. \A m : F!ExpandGroups(m) = D!ExpandGroups(m)
  BY <1>4, <1>5 DEF F!ExpandGroups, D!ExpandGroups
<1>7. \A v : F!Named(v) = D!Named(v)
  BY DEF F!Named, D!Named
<1>8. \A a : F!ParseArgValues(a) = D!ParseArgValues(a)
  BY <1>7 DEF F!ParseArgValues, D!ParseArgValues, F!Refused, D!Refused
<1> QED
  BY <1>1, <1>2, <1>3, <1>5, <1>6, <1>7, <1>8

LEMMA ParsesAlike == F!Parse => D!Parse
BY DEF F!Parse, D!Parse,
       D!Gathered, D!FoldRight, D!FoldLeft, D!MapThenFoldSet, D!Turn, D!Min, D!Max, D!ParseArgValues,
       D!Refused, D!Added, D!ExpandGroups, D!Forbidden, D!Members, D!Groups, D!Named, D!Kinds,
       D!CFIKinds, D!UndefinedKinds, D!getSupportedSanitizers, D!ToolChainSupported, D!If,
       D!Arch, D!NotAllowedWithTrap, D!TrappingKinds, D!TrappingDefault, D!Has,
       D!NotAllowedWithMinimalRuntime, D!Incompatible, D!IncompatibleGroups, D!SetGroupBits,
       D!CompatibleWithMinimalRuntime, D!TrappingSupported,
       F!Gathered, F!FoldRight, F!FoldLeft, F!MapThenFoldSet, F!Turn, F!Min, F!Max, F!ParseArgValues,
       F!Refused, F!Added, F!ExpandGroups, F!Forbidden, F!Members, F!Groups, F!Named, F!Kinds,
       F!CFIKinds, F!UndefinedKinds, F!getSupportedSanitizers, F!ToolChainSupported, F!If,
       F!Arch, F!NotAllowedWithTrap, F!TrappingKinds, F!TrappingDefault, F!Has,
       F!NotAllowedWithMinimalRuntime, F!Incompatible, F!IncompatibleGroups, F!SetGroupBits,
       F!CompatibleWithMinimalRuntime, F!TrappingSupported

(* The loop over what is to be recovered from, from the first argument on.   *)
Recovering(n, r) ==
  /\ r \in [0..n -> [kinds : SUBSET Known, errors : SUBSET Known]]
  /\ r[0] = [kinds |-> F!RecoverableByDefault \cup F!AlwaysRecoverable, errors |-> {}]
  /\ r[n] = F!Recover
  /\ \A i \in 1..n : r[i] = F!Recovered(r[i - 1], args[i])

LEMMA RecoveredIs ==
  ASSUME NEW i \in DOMAIN args, NEW s \in [kinds : SUBSET Known, errors : SUBSET Known]
  PROVE  LET named == D!ExpandGroups({D!Named(args[i].value)})
         IN  /\ F!Recovered(s, args[i]) \in [kinds : SUBSET Known, errors : SUBSET Known]
             /\ args[i].opt = "recover" => F!Recovered(s, args[i]).kinds = s.kinds \cup named
             /\ args[i].opt = "no-recover" => F!Recovered(s, args[i]).kinds = s.kinds \ named
             /\ args[i].opt \notin {"recover", "no-recover"} => F!Recovered(s, args[i]) = s
<1> DEFINE a == args[i]
           mask == F!ParseArgValues(a)
           named == D!ExpandGroups({D!Named(a.value)})
           V == [kinds : SUBSET Known, errors : SUBSET Known]
<1>1. a.opt \in {"recover", "no-recover"} => mask = {D!Named(a.value)}
  BY Twins DEF D!ParseArgValues, D!Refused
<1>2. named \subseteq Known /\ D!Named(a.value) \in Known
  <2>1. D!Named(a.value) \in Known /\ D!Kinds \subseteq Known
    BY DEF Known
  <2> QED
    BY <2>1, Expansion
<1>3. a.opt \in {"recover", "no-recover"} => F!ExpandGroups(mask) = named
  BY <1>1, Twins
<1>4. CASE a.opt = "recover"
  <2> DEFINE errors1 == s.errors \cup (mask \cap F!Unrecoverable)
  <2>1. F!Recovered(s, a) = [kinds |-> s.kinds \cup named, errors |-> errors1]
    BY <1>3, <1>4 DEF F!Recovered
  <2>2. errors1 \subseteq Known
    BY <1>1, <1>2, <1>4
  <2> DEFINE t == F!Recovered(s, a)
  <2>3. t \in V /\ t.kinds = s.kinds \cup named
    <3> HIDE DEF errors1, named, t
    <3> QED
      BY <1>2, <2>1, <2>2 DEF t
  <2> QED
    BY <1>4, <2>3
<1>5. CASE a.opt = "no-recover"
  <2> DEFINE errors1 == s.errors \cup (mask \cap F!AlwaysRecoverable)
  <2>1. F!Recovered(s, a) = [kinds |-> s.kinds \ named, errors |-> errors1]
    BY <1>3, <1>5 DEF F!Recovered
  <2>2. errors1 \subseteq Known
    BY <1>1, <1>2, <1>5
  <2> DEFINE t == F!Recovered(s, a)
  <2>3. t \in V /\ t.kinds = s.kinds \ named
    <3> HIDE DEF errors1, named, t
    <3> QED
      BY <1>2, <2>1, <2>2 DEF t
  <2> QED
    BY <1>5, <2>3
<1>6. CASE a.opt \notin {"recover", "no-recover"}
  BY <1>6 DEF F!Recovered
<1> QED
  BY <1>4, <1>5, <1>6

LEMMA RecoverIs ==
  ASSUME NEW n \in Nat, DOMAIN args = 1..n
  PROVE  \E r : Recovering(n, r)
<1> DEFINE V == [kinds : SUBSET Known, errors : SUBSET Known]
           base == [kinds |-> F!RecoverableByDefault \cup F!AlwaysRecoverable, errors |-> {}]
           step == [i \in 1..n |-> [s \in V |-> F!Recovered(s, args[i])]]
           iter == CHOOSE iter :
                     iter = [s \in SUBSET (1..n) |->
                               IF s = {} THEN base
                               ELSE F!Recovered(iter[s \ {F!Max(s)}], args[F!Max(s)])]
<1>1. ASSUME NEW i \in 1..n, NEW s \in V PROVE F!Recovered(s, args[i]) \in V
  BY RecoveredIs
<1>2. base \in V /\ step \in [1..n -> [V -> V]]
  <2>1. D!Kinds \subseteq Known
    BY DEF Known
  <2>2. F!RecoverableByDefault \cup F!AlwaysRecoverable \subseteq D!Kinds
    BY DEF F!RecoverableByDefault, F!AlwaysRecoverable, F!UndefinedKinds, D!Kinds, D!UndefinedKinds
  <2>3. base \in V
    BY <2>1, <2>2
  <2> HIDE DEF V, base
  <2> QED
    BY <2>3, <1>1
<1>3. \A s \in SUBSET (1..n) :
        s # {} => /\ F!Max(s) \in 1..n /\ s \ {F!Max(s)} \in SUBSET (1..n)
                  /\ D!Max(s) = F!Max(s)
  <2> SUFFICES ASSUME NEW s \in SUBSET (1..n), s # {} PROVE F!Max(s) \in s /\ D!Max(s) = F!Max(s)
    OBVIOUS
  <2> QED
    BY MaxIn
<1>4. PICK f \in [SUBSET (1..n) -> V] : LeftFold(f, n, base, step)
  <2> HIDE DEF step, V, base
  <2> QED
    BY <1>2, Prefixes
<1>5. f = [s \in SUBSET (1..n) |->
             IF s = {} THEN base ELSE F!Recovered(f[s \ {F!Max(s)}], args[F!Max(s)])]
  <2> HIDE DEF V, base
  <2> QED
    BY <1>4, <1>3 DEF LeftFold
<1>6. iter = [s \in SUBSET (1..n) |->
               IF s = {} THEN base ELSE F!Recovered(iter[s \ {F!Max(s)}], args[F!Max(s)])]
  BY <1>5
<1>7. F!Recover = iter[1..n]
  BY DEF F!Recover, F!FoldLeft, F!MapThenFoldSet
<1>8. LeftSteps(iter, n, V, base, step)
  <2> HIDE DEF iter, V, base
  <2>1. iter[{}] = base
    BY <1>6
  <2>2. ASSUME NEW s \in SUBSET (1..n), s # {}, iter[s \ {D!Max(s)}] \in V
        PROVE  iter[s] = step[D!Max(s)][iter[s \ {D!Max(s)}]]
    <3>1. D!Max(s) = F!Max(s) /\ F!Max(s) \in 1..n
      BY <1>3, <2>2
    <3>2. iter[s] = F!Recovered(iter[s \ {F!Max(s)}], args[F!Max(s)])
      BY <1>6, <2>2
    <3> QED
      BY <2>2, <3>1, <3>2
  <2> HIDE DEF step
  <2> QED
    BY <2>1, <2>2 DEF LeftSteps
<1>9. PICK h : LeftRun(h, n, V, base, step, iter[1..n])
  <2> HIDE DEF step, iter, V, base
  <2> QED
    BY <1>2, <1>8, Prefixes
<1>10. Recovering(n, h)
  <2>1. \A i \in 1..n : i - 1 \in 0..n
    OBVIOUS
  <2> HIDE DEF iter
  <2> QED
    BY <1>7, <1>9, <2>1 DEF LeftRun, Recovering
<1> QED
  BY <1>10

(* The last argument that names a kind decides whether it is recovered from. *)
LEMMA LastRecovers ==
  ASSUME Numbered, NEW k \in D!Kinds
  PROVE  k \in F!Recover.kinds
           <=> F!LastSays("recover", "no-recover", k, k \in F!UndefinedKinds \cup F!AlwaysRecoverable)
<1>1. PICK n \in Nat : DOMAIN args = 1..n
  BY DEF Numbered
<1>2. PICK r : Recovering(n, r)
  BY <1>1, RecoverIs
<1> DEFINE names(j) == args[j].opt \in {"recover", "no-recover"}
                         /\ k \in D!ExpandGroups({D!Named(args[j].value)})
           at(i) == {j \in 1..i : names(j)}
           default == k \in F!UndefinedKinds \cup F!AlwaysRecoverable
           says(i) == IF at(i) = {} THEN default ELSE args[F!Max(at(i))].opt = "recover"
           good == {i \in 0..n : k \in r[i].kinds <=> says(i)}
<1>3. 0 \in good
  <2>1. 0 \in 0..n /\ at(0) = {}
    OBVIOUS
  <2>2. k \in r[0].kinds <=> default
    BY <1>2 DEF Recovering, F!RecoverableByDefault
  <2> QED
    BY <2>1, <2>2
<1>4. ASSUME NEW i \in 1..n, i - 1 \in good PROVE i \in good
  <2>1. i - 1 \in 0..n /\ i \in 0..n /\ 1..i = (1..(i - 1)) \cup {i}
    OBVIOUS
  <2>2. r[i] = F!Recovered(r[i - 1], args[i]) /\ i \in DOMAIN args
        /\ r[i - 1] \in [kinds : SUBSET Known, errors : SUBSET Known]
    BY <1>1, <1>2, <2>1 DEF Recovering
  <2>3. k \in r[i - 1].kinds <=> says(i - 1)
    BY <1>4
  <2>4. CASE names(i)
    <3>1. i \in at(i) /\ at(i) \in SUBSET Nat /\ \A y \in at(i) : i >= y
      BY <2>4
    <3>2. F!Max(at(i)) = i
      <4> HIDE DEF at
      <4> QED
        BY <3>1, HighestIs
    <3>3. says(i) <=> args[i].opt = "recover"
      BY <3>1, <3>2
    <3>4. k \in r[i].kinds <=> args[i].opt = "recover"
      BY <2>2, <2>4, RecoveredIs
    <3> QED
      BY <2>1, <3>3, <3>4
  <2>5. CASE ~names(i)
    <3>1. at(i) = at(i - 1)
      BY <2>1, <2>5
    <3>2. k \in r[i].kinds <=> k \in r[i - 1].kinds
      <4> DEFINE named == D!ExpandGroups({D!Named(args[i].value)})
                 before == r[i - 1]
                 after == F!Recovered(before, args[i])
      <4>1. /\ args[i].opt = "recover" => after.kinds = before.kinds \cup named
            /\ args[i].opt = "no-recover" => after.kinds = before.kinds \ named
            /\ args[i].opt \notin {"recover", "no-recover"} => after = before
        BY <2>2, RecoveredIs, Zenon
      <4>2. args[i].opt \in {"recover", "no-recover"} => k \notin named
        BY <2>5
      <4>3. r[i] = after
        BY <2>2
      <4> HIDE DEF named, before, after
      <4>4. k \in after.kinds <=> k \in before.kinds
        BY <4>1, <4>2
      <4> QED
        BY <4>3, <4>4 DEF before
    <3>3. says(i) <=> says(i - 1)
      <4> HIDE DEF at, default
      <4> QED
        BY <3>1
    <3> HIDE DEF says
    <3> QED
      BY <2>1, <2>3, <3>2, <3>3
  <2> QED
    BY <2>4, <2>5
<1>5. good = 0..n
  <2>1. good \in SUBSET (0..n)
    OBVIOUS
  <2> HIDE DEF good
  <2> QED
    BY <1>3, <1>4, <2>1, Upwards
<1>6. k \in F!Recover.kinds <=> says(n)
  <2>1. n \in 0..n
    OBVIOUS
  <2>2. n \in good
    <3> HIDE DEF good
    <3> QED
      BY <1>5, <2>1
  <2> QED
    BY <2>2, <1>2 DEF Recovering
<1>7. F!LastSays("recover", "no-recover", k, default) <=> says(n)
  BY <1>1, Twins DEF F!LastSays
<1> QED
  BY <1>6, <1>7

(* The loop over the kinds of coverage. *)
Features == F!FuzzerFeatures \cup Known

Covering(n, h) ==
  /\ h \in [0..n -> SUBSET Features]
  /\ h[0] = IF parsed.coverage THEN F!FuzzerFeatures ELSE {}
  /\ h[n] = F!CoverageAsked
  /\ \A i \in 1..n : h[i] = F!Covered(h[i - 1], args[i])

LEMMA CoveringIs ==
  ASSUME NEW n \in Nat, DOMAIN args = 1..n
  PROVE  \E h : Covering(n, h)
<1> DEFINE V == SUBSET Features
           base == IF parsed.coverage THEN F!FuzzerFeatures ELSE {}
           step == [i \in 1..n |-> [s \in V |-> F!Covered(s, args[i])]]
           iter == CHOOSE iter :
                     iter = [s \in SUBSET (1..n) |->
                               IF s = {} THEN base
                               ELSE F!Covered(iter[s \ {F!Max(s)}], args[F!Max(s)])]
<1>1. ASSUME NEW i \in 1..n, NEW s \in V PROVE F!Covered(s, args[i]) \in V
  <2>1. args[i].value \in Features
    BY DEF Features, Known
  <2> QED
    BY <2>1 DEF F!Covered
<1>2. base \in V /\ step \in [1..n -> [V -> V]]
  <2>1. base \in V
    BY DEF Features
  <2> HIDE DEF V, base
  <2> QED
    BY <2>1, <1>1
<1>3. \A s \in SUBSET (1..n) :
        s # {} => /\ F!Max(s) \in 1..n /\ s \ {F!Max(s)} \in SUBSET (1..n)
                  /\ D!Max(s) = F!Max(s)
  <2> SUFFICES ASSUME NEW s \in SUBSET (1..n), s # {} PROVE F!Max(s) \in s /\ D!Max(s) = F!Max(s)
    OBVIOUS
  <2> QED
    BY MaxIn
<1>4. PICK f \in [SUBSET (1..n) -> V] : LeftFold(f, n, base, step)
  <2> HIDE DEF step, V, base
  <2> QED
    BY <1>2, Prefixes
<1>5. f = [s \in SUBSET (1..n) |->
             IF s = {} THEN base ELSE F!Covered(f[s \ {F!Max(s)}], args[F!Max(s)])]
  <2> HIDE DEF V, base
  <2> QED
    BY <1>4, <1>3 DEF LeftFold
<1>6. iter = [s \in SUBSET (1..n) |->
               IF s = {} THEN base ELSE F!Covered(iter[s \ {F!Max(s)}], args[F!Max(s)])]
  BY <1>5
<1>7. F!CoverageAsked = iter[1..n]
  BY DEF F!CoverageAsked, F!FoldLeft, F!MapThenFoldSet
<1>8. LeftSteps(iter, n, V, base, step)
  <2> HIDE DEF iter, V, base
  <2>1. iter[{}] = base
    BY <1>6
  <2>2. ASSUME NEW s \in SUBSET (1..n), s # {}, iter[s \ {D!Max(s)}] \in V
        PROVE  iter[s] = step[D!Max(s)][iter[s \ {D!Max(s)}]]
    <3>1. D!Max(s) = F!Max(s) /\ F!Max(s) \in 1..n
      BY <1>3, <2>2
    <3>2. iter[s] = F!Covered(iter[s \ {F!Max(s)}], args[F!Max(s)])
      BY <1>6, <2>2
    <3> QED
      BY <2>2, <3>1, <3>2
  <2> HIDE DEF step
  <2> QED
    BY <2>1, <2>2 DEF LeftSteps
<1>9. PICK h : LeftRun(h, n, V, base, step, iter[1..n])
  <2> HIDE DEF step, iter, V, base
  <2> QED
    BY <1>2, <1>8, Prefixes
<1>10. Covering(n, h)
  <2>1. \A i \in 1..n : i - 1 \in 0..n
    OBVIOUS
  <2> HIDE DEF iter
  <2> QED
    BY <1>7, <1>9, <2>1 DEF LeftRun, Covering
<1> QED
  BY <1>10

(* Arguments have an option and a value, and nothing is taken back as legacy. *)
Shaped ==
  \A i \in DOMAIN args :
    /\ args[i] = [opt |-> args[i].opt, value |-> args[i].value]
    /\ args[i].opt = "no-coverage" => args[i].value # "legacy"

LEMMA LastCovers ==
  ASSUME Numbered, Shaped, NEW f \in {"trace-pc", "stack-depth"}, f \in F!CoverageAsked
  PROVE  LET named == {i \in DOMAIN args : args[i].opt \in {"coverage", "no-coverage"}
                                            /\ args[i].value \in {f, "legacy"}}
         IN  \/ named = {} /\ f \in F!FuzzerFeatures /\ parsed.coverage
             \/ named # {} /\ args[F!Max(named)] = [opt |-> "coverage", value |-> f]
<1>1. PICK n \in Nat : DOMAIN args = 1..n
  BY DEF Numbered
<1>2. PICK h : Covering(n, h)
  BY <1>1, CoveringIs
<1>3. f # "legacy"
  OBVIOUS
<1> DEFINE names(j) == args[j].opt \in {"coverage", "no-coverage"} /\ args[j].value \in {f, "legacy"}
           at(i) == {j \in 1..i : names(j)}
           from(i) == \/ at(i) = {} /\ f \in F!FuzzerFeatures /\ parsed.coverage
                      \/ at(i) # {} /\ args[F!Max(at(i))] = [opt |-> "coverage", value |-> f]
           good == {i \in 0..n : f \in h[i] => from(i)}
<1>4. 0 \in good
  <2>1. 0 \in 0..n /\ at(0) = {}
    OBVIOUS
  <2>2. f \in h[0] => f \in F!FuzzerFeatures /\ parsed.coverage
    BY <1>2 DEF Covering
  <2> QED
    BY <2>1, <2>2
<1>5. ASSUME NEW i \in 1..n, i - 1 \in good PROVE i \in good
  <2>1. i - 1 \in 0..n /\ i \in 0..n /\ 1..i = (1..(i - 1)) \cup {i}
    OBVIOUS
  <2>2. h[i] = F!Covered(h[i - 1], args[i]) /\ i \in DOMAIN args
    BY <1>1, <1>2, <2>1 DEF Covering
  <2>3. f \in h[i - 1] => from(i - 1)
    BY <1>5
  <2>4. SUFFICES ASSUME f \in h[i] PROVE from(i)
    BY <2>1
  <2>5. CASE names(i)
    <3>1. i \in at(i) /\ at(i) \in SUBSET Nat /\ \A y \in at(i) : i >= y
      BY <2>5
    <3>2. F!Max(at(i)) = i
      <4> HIDE DEF at
      <4> QED
        BY <3>1, HighestIs
    <3>3. args[i].opt = "coverage" /\ args[i].value = f
      <4>1. CASE args[i].opt = "coverage"
        <5>1. args[i].value # "legacy"
          BY <2>2, <2>4, <4>1 DEF F!Covered
        <5> QED
          BY <4>1, <5>1, <2>5
      <4>2. CASE args[i].opt = "no-coverage"
        <5>1. args[i].value # f
          BY <2>2, <2>4, <4>2 DEF F!Covered
        <5> QED
          BY <4>2, <5>1, <2>2, <2>5 DEF Shaped
      <4> QED
        BY <2>5, <4>1, <4>2
    <3>4. args[i] = [opt |-> "coverage", value |-> f]
      BY <2>2, <3>3 DEF Shaped
    <3> QED
      BY <3>1, <3>2, <3>4
  <2>6. CASE ~names(i)
    <3>1. at(i) = at(i - 1)
      BY <2>1, <2>6
    <3>2. f \in h[i - 1]
      BY <2>2, <2>4, <2>6 DEF F!Covered
    <3>3. from(i - 1)
      BY <2>3, <3>2
    <3> HIDE DEF at
    <3> QED
      BY <3>1, <3>3
  <2> QED
    BY <2>5, <2>6
<1>6. good = 0..n
  <2>1. good \in SUBSET (0..n)
    OBVIOUS
  <2> HIDE DEF good
  <2> QED
    BY <1>4, <1>5, <2>1, Upwards
<1>7. from(n)
  <2>1. n \in 0..n
    OBVIOUS
  <2>2. n \in good
    <3> HIDE DEF good
    <3> QED
      BY <1>6, <2>1
  <2> HIDE DEF from
  <2> QED
    BY <2>2, <1>2 DEF Covering
<1> QED
  BY <1>1, <1>7

(* A sanitizer without support for coverage leaves none, wherever it is asked *)
(* for.                                                                    *)
LEMMA UnsupportedHasNone ==
  ASSUME Numbered, F!Unsupporting, F!Has("coverage")
  PROVE  F!CoverageAsked = {}
<1>1. PICK n \in Nat : DOMAIN args = 1..n
  BY DEF Numbered
<1>2. PICK h : Covering(n, h)
  BY <1>1, CoveringIs
<1> DEFINE asked(i) == \E j \in 1..i : args[j].opt = "coverage"
           good == {i \in 0..n : asked(i) => h[i] = {}}
<1>3. 0 \in good
  OBVIOUS
<1>4. ASSUME NEW i \in 1..n, i - 1 \in good PROVE i \in good
  <2>1. i - 1 \in 0..n /\ i \in 0..n /\ 1..i = (1..(i - 1)) \cup {i}
    OBVIOUS
  <2>2. h[i] = F!Covered(h[i - 1], args[i])
    BY <1>2 DEF Covering
  <2>3. CASE args[i].opt = "coverage"
    <3>1. h[i] = {}
      BY <2>2, <2>3 DEF F!Covered
    <3> QED
      BY <2>1, <3>1
  <2>4. CASE args[i].opt # "coverage"
    <3>1. asked(i) => asked(i - 1)
      BY <2>1, <2>4
    <3>2. h[i - 1] = {} => h[i] = {}
      BY <2>2, <2>4 DEF F!Covered
    <3> QED
      BY <1>4, <2>1, <3>1, <3>2
  <2> QED
    BY <2>3, <2>4
<1>5. good = 0..n
  <2>1. good \in SUBSET (0..n)
    OBVIOUS
  <2> HIDE DEF good
  <2> QED
    BY <1>3, <1>4, <2>1, Upwards
<1>6. n \in good
  <2>1. n \in 0..n
    OBVIOUS
  <2> HIDE DEF good
  <2> QED
    BY <1>5, <2>1
<1>7. asked(n)
  BY <1>1 DEF F!Has
<1> QED
  BY <1>2, <1>6, <1>7 DEF Covering

(* What the constructor settles beside the kinds. *)
SettledAs(s) ==
  /\ s.recoverable = F!RecoverableKinds
  /\ s.coverage = F!CoverageAsked \cup F!Implied(F!CoverageAsked)
  /\ s.address = F!AddressFlags
  /\ s.hwasanAbi = F!HwasanAbi
  /\ s.useAliases => F!Arch = "x86_64"
  /\ (F!Adds("Memory") /\ F!Arch # "x86_64") \/ (F!AddsCFI /\ F!CfiCrossDso) => s.needPIE
  /\ s.errors = {} => F!AddressFlags.errors = {} /\ F!HwasanAbi # "invalid"

LEMMA SettleTells ==
  ASSUME F!Settle
  PROVE  /\ args' = args /\ parsed' = parsed /\ cc1' = cc1
         /\ parsed # None
         /\ SettledAs(settled')
<1> DEFINE features == F!CoverageAsked
           generalize == F!AddsCFI /\ F!Has("generalize-pointers")
           aliases == /\ F!Adds("HWAddress") /\ F!Arch = "x86_64"
                      /\ F!HasFlag("aliasing", "no-aliasing", FALSE)
           pie == (F!Adds("Memory") /\ F!Arch # "x86_64") \/ (F!AddsCFI /\ F!CfiCrossDso)
           retval == F!Adds("Memory") \/ F!Adds("KernelMemory")
           errors1 == F!Recover.errors \cup F!CoverageErrors(features) \cup F!AddressFlags.errors
              \cup (IF F!TrackOrigins > 2 THEN {"origins"} ELSE {})
              \cup (IF F!HwasanAbi = "invalid" THEN {"hwasan-abi"} ELSE {})
              \cup (IF F!CfiCrossDso /\ generalize THEN {"pointers"} ELSE {})
<1>1. /\ args' = args /\ parsed' = parsed /\ cc1' = cc1 /\ parsed # None
      /\ settled' =
           [recoverable |-> F!RecoverableKinds,
            coverage |-> features \cup F!Implied(features),
            trackOrigins |-> F!TrackOrigins,
            paramRetval |-> retval,
            generalizePointers |-> generalize,
            canonicalJumpTables |-> F!AddsCFI,
            address |-> F!AddressFlags,
            hwasanAbi |-> F!HwasanAbi,
            useAliases |-> aliases,
            needPIE |-> pie,
            errors |-> errors1]
  BY DEF F!Settle, F!vars
<1>2. errors1 = {} => F!AddressFlags.errors = {} /\ F!HwasanAbi # "invalid"
  OBVIOUS
<1>3. /\ settled'.recoverable = F!RecoverableKinds
      /\ settled'.coverage = features \cup F!Implied(features)
      /\ settled'.address = F!AddressFlags
      /\ settled'.hwasanAbi = F!HwasanAbi
      /\ settled'.useAliases = aliases
      /\ settled'.needPIE = pie
      /\ settled'.errors = errors1
  <2> HIDE DEF features, generalize, aliases, pie, retval, errors1
  <2> QED
    BY <1>1
<1>4. aliases => F!Arch = "x86_64"
  OBVIOUS
<1> HIDE DEF errors1, aliases
<1> QED
  BY <1>1, <1>2, <1>3, <1>4 DEF SettledAs

(* What the compiler proper is told. *)
RecoversAs(c) ==
  /\ c.recover =
       {k \in c.sanitize : k \notin c.trap \cup F!Unrecoverable
          /\ F!LastSays("recover", "no-recover", k, k \in F!UndefinedKinds \cup F!AlwaysRecoverable)}
  /\ c.trap \subseteq c.sanitize

CoversAs(c) ==
  LET named(f) == {i \in DOMAIN args : args[i].opt \in {"coverage", "no-coverage"}
                                          /\ args[i].value \in {f, "legacy"}}
  IN  /\ c.coverage \cap F!InstrumentationTypes # {} =>
           c.coverage \cap F!InsertionPointTypes # {}
      /\ \A f \in {"trace-pc", "stack-depth"} :
           f \in c.coverage =>
             \/ named(f) = {} /\ f \in F!FuzzerFeatures /\ "FuzzerNoLink" \in c.sanitize
             \/ named(f) # {} /\ args[F!Max(named(f))] = [opt |-> "coverage", value |-> f]
      /\ F!Has("coverage") /\ c.coverage # {} =>
           c.sanitize \subseteq F!SupportsCoverage \cup F!Gathered.allRemove

PieAs(c) ==
  (c.sanitize \cap {"HWAddress", "Scudo"} # {}
     \/ ("Memory" \in c.sanitize /\ F!Arch # "x86_64")
     \/ ("cfi-cross-dso" \in c.flags /\ c.sanitize \cap F!CFIKinds # {})
   => c.pie)

AsksFor(kind) ==
  \E i \in DOMAIN args : args[i].opt = "sanitize"
                           /\ kind \in F!ExpandGroups(F!ParseArgValues(args[i]))

FlagsAs(c) ==
  LET compares == "detect-invalid-pointer-cmp" \in c.flags
  IN  /\ c.flags \cap {"address-use-after-scope", "address-use-after-return",
                       "detect-invalid-pointer-cmp"} # {} => AsksFor("Address")
      /\ "hwasan-abi" \in c.flags => AsksFor("HWAddress")
      /\ F!LastValue("hwasan-abi", None) = "invalid" => ~AsksFor("HWAddress")
      /\ "hwasan-use-page-aliases" \in c.flags => F!Arch = "x86_64"
      /\ compares => "PointerCompare" \in c.sanitize
      /\ "PointerCompare" \in c.sanitize \ F!Gathered.allRemove => compares

FlagProperties == F!RecoverExact /\ F!CoverageExact /\ F!PieExact /\ F!FlagsExact

LEMMA AsPrimed ==
  ASSUME args' = args, RecoversAs(cc1'), CoversAs(cc1'), PieAs(cc1'), FlagsAs(cc1')
  PROVE  FlagProperties'
<1>1. F!RecoverExact'
  BY DEF RecoversAs, F!RecoverExact, F!LastSays, F!ExpandGroups, F!Members, F!Groups, F!Named,
         F!Kinds, F!CFIKinds, F!UndefinedKinds, F!Unrecoverable, F!AlwaysRecoverable, F!Max
<1>2. F!Gathered' = F!Gathered
  BY SMTT(20) DEF F!Gathered, F!FoldRight, F!MapThenFoldSet, F!Turn, F!Min, F!Max, F!ParseArgValues,
         F!Refused, F!Added, F!ExpandGroups, F!Forbidden, F!Members, F!Groups, F!Named, F!Kinds,
         F!CFIKinds, F!UndefinedKinds, F!getSupportedSanitizers, F!ToolChainSupported, F!If,
         F!Arch, F!NotAllowedWithTrap, F!TrappingKinds, F!TrappingDefault, F!Has,
         F!NotAllowedWithMinimalRuntime
<1>3. F!CoverageExact'
  <2>1. F!Has("coverage")' = F!Has("coverage")
    BY DEF F!Has
  <2>2. F!SupportsCoverage' = F!SupportsCoverage /\ F!FuzzerFeatures' = F!FuzzerFeatures
        /\ F!InstrumentationTypes' = F!InstrumentationTypes
        /\ F!InsertionPointTypes' = F!InsertionPointTypes
    BY DEF F!SupportsCoverage, F!FuzzerFeatures, F!InstrumentationTypes, F!InsertionPointTypes,
           F!UndefinedKinds
  <2> QED
    BY <1>2, <2>1, <2>2 DEF CoversAs, F!CoverageExact, F!Max
<1>4. F!Arch' = F!Arch
  BY DEF F!Arch, F!Max
<1>5. F!PieExact'
  BY <1>4 DEF PieAs, F!PieExact, F!CFIKinds
<1>6. F!FlagsExact'
  <2>1. \A kind :
          AsksFor(kind) <=> \E i \in DOMAIN args' : args'[i].opt = "sanitize"
                                 /\ kind \in F!ExpandGroups(F!ParseArgValues(args[i]))'
    BY DEF AsksFor, F!ExpandGroups, F!Members, F!Groups, F!Kinds, F!CFIKinds, F!UndefinedKinds,
           F!ParseArgValues, F!Refused, F!Named
  <2>2. F!LastValue("hwasan-abi", None)' = F!LastValue("hwasan-abi", None)
    BY DEF F!LastValue, F!Max
  <2> QED
    BY <1>2, <1>4, <2>1, <2>2 DEF FlagsAs, F!FlagsExact
<1> QED
  BY <1>1, <1>3, <1>5, <1>6 DEF FlagProperties

LEMMA PropertiesSame ==
  ASSUME args' = args, cc1' = cc1, FlagProperties
  PROVE  FlagProperties'
<1>1. cc1 = None => FlagProperties'
  BY DEF FlagProperties, F!RecoverExact, F!CoverageExact, F!PieExact, F!FlagsExact
<1>2. ASSUME cc1 # None
      PROVE  RecoversAs(cc1) /\ CoversAs(cc1) /\ PieAs(cc1) /\ FlagsAs(cc1)
  <2>1. RecoversAs(cc1)
    BY <1>2 DEF FlagProperties, F!RecoverExact, RecoversAs
  <2>2. CoversAs(cc1)
    BY <1>2 DEF FlagProperties, F!CoverageExact, CoversAs
  <2>3. PieAs(cc1)
    BY <1>2 DEF FlagProperties, F!PieExact, PieAs
  <2>4. FlagsAs(cc1)
    BY <1>2 DEF FlagProperties, F!FlagsExact, FlagsAs, AsksFor
  <2> QED
    BY <2>1, <2>2, <2>3, <2>4
<1> QED
  BY <1>1, <1>2, AsPrimed

(* Whatever was gathered from the whole command line is told of it.          *)
LEMMA AllTold ==
  ASSUME Numbered
  PROVE  /\ D!Gathered.kinds \subseteq D!Gathered.allAdded \cup {"FuzzerNoLink"}
         /\ \A k \in D!Kinds : k \in D!Gathered.allAdded \ D!Gathered.allRemove
                               => k \in D!Gathered.kinds \cup D!Forbidden
         /\ \A k : k \in D!Gathered.allAdded <=> AsksFor(k)
<1>1. PICK n \in Nat : DOMAIN args = 1..n
  BY DEF Numbered
<1>2. PICK g : Loop(n, g)
  BY <1>1, GatheredIs
<1>3. 1 \in 1..n + 1
  OBVIOUS
<1>4. Told(n, 1, D!Gathered)
  BY <1>2, <1>3, LoopTells DEF Loop
<1>5. \A k : AsksFor(k) <=> \E j \in 1..n : Wants(args[j], k)
  BY <1>1, Twins DEF AsksFor, Wants, Refers
<1> QED
  BY <1>4, <1>5 DEF Told

CompiledAs(c) ==
  /\ c.coverage = settled.coverage
  /\ c.sanitize = parsed.kinds \cap F!Kinds
  /\ c.recover = IF parsed.kinds = {} THEN {} ELSE settled.recoverable \cap F!Kinds
  /\ c.trap = parsed.trap \cap F!Kinds
  /\ c.pie = F!requiresPIE
  /\ c.flags = IF parsed.kinds = {} THEN {} ELSE F!FlagsGiven

LEMMA AddArgsTells ==
  ASSUME F!AddArgs
  PROVE  /\ args' = args /\ parsed' = parsed /\ settled' = settled /\ settled # None
         /\ parsed.errors = {} /\ parsed.pairs = {} /\ settled.errors = {}
         /\ CompiledAs(cc1')
<1> DEFINE sanitize1 == parsed.kinds \cap F!Kinds
           recover1 == IF parsed.kinds = {} THEN {} ELSE settled.recoverable \cap F!Kinds
           trap1 == parsed.trap \cap F!Kinds
           flags1 == IF parsed.kinds = {} THEN {} ELSE F!FlagsGiven
<1>1. /\ args' = args /\ parsed' = parsed /\ settled' = settled /\ settled # None
      /\ parsed.errors = {} /\ parsed.pairs = {} /\ settled.errors = {}
      /\ cc1' = [coverage |-> settled.coverage, sanitize |-> sanitize1, recover |-> recover1,
                 trap |-> trap1, pie |-> F!requiresPIE, flags |-> flags1,
                 errors |-> F!Missing]
  BY DEF F!AddArgs, F!vars
<1>2. /\ cc1'.coverage = settled.coverage /\ cc1'.sanitize = sanitize1
      /\ cc1'.recover = recover1 /\ cc1'.trap = trap1 /\ cc1'.pie = F!requiresPIE
      /\ cc1'.flags = flags1
  <2> HIDE DEF sanitize1, recover1, trap1, flags1
  <2> QED
    BY <1>1
<1> QED
  BY <1>1, <1>2 DEF CompiledAs

(* Of the sanitizers of an accepted command line. *)
LEMMA AcceptedAre ==
  ASSUME ParsedInv, parsed # None, parsed.pairs = {}
  PROVE  /\ Numbered
         /\ parsed.kinds = D!Gathered.kinds /\ parsed.allAdded = D!Gathered.allAdded
         /\ parsed.trap \subseteq parsed.kinds
         /\ parsed.coverage = ("FuzzerNoLink" \in parsed.kinds)
         /\ parsed.kinds \subseteq parsed.allAdded \cup {"FuzzerNoLink"}
         /\ \A k : k \in parsed.allAdded <=> AsksFor(k)
         /\ \A k \in D!Kinds : k \in parsed.allAdded \ D!Gathered.allRemove
                               => k \in parsed.kinds \cup D!Forbidden
<1>1. Numbered /\ ParsedAs(parsed)
  BY DEF ParsedInv
<1>2. parsed.kinds = D!Gathered.kinds /\ parsed.allAdded = D!Gathered.allAdded
  BY <1>1 DEF ParsedAs
<1>3. parsed.trap \subseteq parsed.kinds /\ parsed.coverage = ("FuzzerNoLink" \in parsed.kinds)
  BY <1>1, <1>2 DEF ParsedAs
<1> QED
  BY <1>1, <1>2, <1>3, AllTold

LEMMA DoesRecover ==
  ASSUME ParsedInv, parsed # None, parsed.pairs = {}, SettledAs(settled), NEW c, CompiledAs(c)
  PROVE  RecoversAs(c)
<1>1. Numbered /\ parsed.trap \subseteq parsed.kinds
  BY AcceptedAre
<1>2. /\ c.sanitize = parsed.kinds \cap D!Kinds /\ c.trap = parsed.trap \cap D!Kinds
      /\ c.recover = IF parsed.kinds = {} THEN {} ELSE settled.recoverable \cap D!Kinds
  BY Twins DEF CompiledAs
<1>3. settled.recoverable = ((F!Recover.kinds \cap parsed.kinds) \ F!Unrecoverable) \ parsed.trap
  BY DEF SettledAs, F!RecoverableKinds
<1>4. ASSUME NEW k
      PROVE  k \in c.recover <=>
               /\ k \in c.sanitize /\ k \notin c.trap \cup F!Unrecoverable
               /\ F!LastSays("recover", "no-recover", k, k \in F!UndefinedKinds \cup F!AlwaysRecoverable)
  <2>1. CASE k \in D!Kinds
    <3>1. k \in F!Recover.kinds
            <=> F!LastSays("recover", "no-recover", k, k \in F!UndefinedKinds \cup F!AlwaysRecoverable)
      BY <1>1, <2>1, LastRecovers
    <3> QED
      BY <1>2, <1>3, <2>1, <3>1
  <2>2. CASE k \notin D!Kinds
    BY <1>2, <2>2
  <2> QED
    BY <2>1, <2>2
<1>5. c.recover \subseteq c.sanitize
  BY <1>4
<1>6. c.recover = {k \in c.sanitize : k \notin c.trap \cup F!Unrecoverable
          /\ F!LastSays("recover", "no-recover", k, k \in F!UndefinedKinds \cup F!AlwaysRecoverable)}
  BY <1>4, <1>5
<1>7. c.trap \subseteq c.sanitize
  BY <1>1, <1>2
<1> QED
  BY <1>6, <1>7 DEF RecoversAs

LEMMA DoesCover ==
  ASSUME ParsedInv, Shaped, parsed # None, parsed.pairs = {}, SettledAs(settled),
         NEW c, CompiledAs(c)
  PROVE  CoversAs(c)
<1> DEFINE features == F!CoverageAsked
           named(f) == {i \in DOMAIN args : args[i].opt \in {"coverage", "no-coverage"}
                                              /\ args[i].value \in {f, "legacy"}}
<1>1. Numbered /\ parsed.coverage = ("FuzzerNoLink" \in parsed.kinds)
      /\ parsed.kinds \subseteq parsed.allAdded \cup {"FuzzerNoLink"}
  BY AcceptedAre
<1>2. c.coverage = features \cup F!Implied(features) /\ c.sanitize = parsed.kinds \cap D!Kinds
  BY Twins DEF SettledAs, CompiledAs
<1>3. /\ F!Implied(features) \subseteq {"edge", "func"}
      /\ features \cap F!InsertionPointTypes = {} /\ features \cap F!InstrumentationTypes # {} =>
           "edge" \in F!Implied(features)
      /\ features = {} => F!Implied(features) = {}
  <2> HIDE DEF features
  <2> QED
    BY DEF F!Implied
<1>4. c.coverage \cap F!InstrumentationTypes # {} => c.coverage \cap F!InsertionPointTypes # {}
  <2> HIDE DEF features
  <2>1. "edge" \in F!InsertionPointTypes
    BY DEF F!InsertionPointTypes
  <2>2. {"edge", "func"} \cap F!InstrumentationTypes = {}
    BY DEF F!InstrumentationTypes
  <2> QED
    BY <1>2, <1>3, <2>1, <2>2
<1>5. ASSUME NEW f \in {"trace-pc", "stack-depth"}, f \in c.coverage
      PROVE  \/ named(f) = {} /\ f \in F!FuzzerFeatures /\ "FuzzerNoLink" \in c.sanitize
             \/ named(f) # {} /\ args[F!Max(named(f))] = [opt |-> "coverage", value |-> f]
  <2>1. f \in F!CoverageAsked
    BY <1>2, <1>3, <1>5
  <2>2. \/ named(f) = {} /\ f \in F!FuzzerFeatures /\ parsed.coverage
        \/ named(f) # {} /\ args[F!Max(named(f))] = [opt |-> "coverage", value |-> f]
    BY <1>1, <2>1, LastCovers
  <2>3. "FuzzerNoLink" \in D!Kinds
    BY Fixed
  <2> HIDE DEF named
  <2> QED
    BY <1>1, <1>2, <2>2, <2>3
<1>6. ASSUME F!Has("coverage"), c.coverage # {}
      PROVE  c.sanitize \subseteq F!SupportsCoverage \cup F!Gathered.allRemove
  <2>1. ~F!Unsupporting
    BY <1>1, <1>2, <1>3, <1>6, UnsupportedHasNone
  <2> SUFFICES ASSUME NEW k \in c.sanitize, k \notin F!SupportsCoverage, k \notin F!Gathered.allRemove
               PROVE  FALSE
    OBVIOUS
  <2>2. "FuzzerNoLink" \in F!SupportsCoverage
    BY DEF F!SupportsCoverage
  <2>3. k \in parsed.allAdded \ F!Gathered.allRemove /\ k \in D!Kinds
    BY <1>1, <1>2, <2>2
  <2>4. k \notin F!SetGroupBits(F!SupportsCoverage)
    BY <2>3, GroupsAre, Twins DEF F!SetGroupBits
  <2> QED
    BY <2>1, <2>3, <2>4 DEF F!Unsupporting
<1> QED
  BY <1>4, <1>5, <1>6 DEF CoversAs

LEMMA IsPie ==
  ASSUME ParsedInv, parsed # None, parsed.pairs = {}, SettledAs(settled), NEW c, CompiledAs(c)
  PROVE  PieAs(c)
<1>1. parsed.kinds \subseteq parsed.allAdded \cup {"FuzzerNoLink"}
  BY AcceptedAre
<1>2. c.sanitize \subseteq parsed.kinds /\ c.pie = F!requiresPIE
  BY DEF CompiledAs
<1>3. "cfi-cross-dso" \in c.flags => F!CfiCrossDso
  BY DEF CompiledAs, F!FlagsGiven, F!Given
<1>4. c.sanitize \cap {"HWAddress", "Scudo"} # {} => c.pie
  BY <1>2 DEF F!requiresPIE, F!RequiresPIE
<1>5. "Memory" \in c.sanitize /\ F!Arch # "x86_64" => c.pie
  BY <1>1, <1>2 DEF F!requiresPIE, SettledAs, F!Adds
<1>6. "cfi-cross-dso" \in c.flags /\ c.sanitize \cap F!CFIKinds # {} => c.pie
  <2>1. "FuzzerNoLink" \notin F!CFIKinds
    BY DEF F!CFIKinds
  <2> QED
    BY <1>1, <1>2, <1>3, <2>1 DEF F!requiresPIE, SettledAs, F!AddsCFI
<1> QED
  BY <1>4, <1>5, <1>6 DEF PieAs

LEMMA ComparesAllowed == "PointerCompare" \notin D!Forbidden
BY DEF D!Forbidden, D!getSupportedSanitizers, D!NotAllowedWithTrap, D!NotAllowedWithMinimalRuntime

LEMMA FlagsAreAsked ==
  ASSUME ParsedInv, parsed # None, parsed.pairs = {}, settled.errors = {}, None # "invalid",
         SettledAs(settled), NEW c, CompiledAs(c)
  PROVE  FlagsAs(c)
<1> DEFINE pairs == F!InvalidPointerPairs
<1>1. /\ \A k : k \in parsed.allAdded <=> AsksFor(k)
      /\ parsed.kinds \subseteq parsed.allAdded \cup {"FuzzerNoLink"}
      /\ \A k \in D!Kinds : k \in parsed.allAdded \ D!Gathered.allRemove
                            => k \in parsed.kinds \cup D!Forbidden
  BY AcceptedAre
<1>2. c.sanitize = parsed.kinds \cap D!Kinds
      /\ c.flags = IF parsed.kinds = {} THEN {} ELSE F!FlagsGiven
  BY Twins DEF CompiledAs
<1>3. /\ F!AddressFlags.errors = {} /\ F!HwasanAbi # "invalid"
      /\ settled.address = F!AddressFlags /\ settled.hwasanAbi = F!HwasanAbi
      /\ settled.useAliases => F!Arch = "x86_64"
  BY DEF SettledAs
<1>4. /\ "address-use-after-scope" \in c.flags => settled.address.useAfterScope
      /\ "address-use-after-return" \in c.flags => settled.address.useAfterReturn # None
      /\ "detect-invalid-pointer-cmp" \in c.flags => settled.address.invalidPointerCmp
      /\ "hwasan-abi" \in c.flags => settled.hwasanAbi # None
      /\ "hwasan-use-page-aliases" \in c.flags => settled.useAliases
  BY <1>2 DEF F!FlagsGiven, F!Given
<1>5. parsed.kinds # {} /\ settled.address.invalidPointerCmp => "detect-invalid-pointer-cmp" \in c.flags
  BY <1>2 DEF F!FlagsGiven, F!Given
<1>6. /\ F!Adds("Address") =>
           F!AddressFlags.invalidPointerCmp = (pairs # {})
      /\ ~F!Adds("Address") =>
           /\ ~F!AddressFlags.useAfterScope /\ F!AddressFlags.useAfterReturn = None
           /\ ~F!AddressFlags.invalidPointerCmp
           /\ F!AddressFlags.errors = IF pairs # {} THEN {"pointer pairs"} ELSE {}
  <2>1. CASE F!Adds("Address")
    <3> DEFINE scope == ~F!Has("no-use-after-scope")
               return == F!LastValue("use-after-return", None)
               errors1 == IF return = "invalid" THEN {"use-after-return"} ELSE {}
               cmp == pairs # {}
    <3>1. F!AddressFlags = [useAfterScope |-> scope, useAfterReturn |-> return,
                            invalidPointerCmp |-> cmp, errors |-> errors1]
      BY <2>1 DEF F!AddressFlags
    <3>2. F!AddressFlags.invalidPointerCmp = cmp
      <4> HIDE DEF scope, return, errors1, cmp
      <4> QED
        BY <3>1
    <3> QED
      BY <2>1, <3>2
  <2>2. CASE ~F!Adds("Address")
    <3> DEFINE errors1 == IF pairs # {} THEN {"pointer pairs"} ELSE {}
    <3>1. F!AddressFlags = [useAfterScope |-> FALSE, useAfterReturn |-> None,
                            invalidPointerCmp |-> FALSE, errors |-> errors1]
      BY <2>2 DEF F!AddressFlags
    <3>2. /\ ~F!AddressFlags.useAfterScope /\ F!AddressFlags.useAfterReturn = None
          /\ ~F!AddressFlags.invalidPointerCmp /\ F!AddressFlags.errors = errors1
      <4> HIDE DEF errors1
      <4> QED
        BY <3>1
    <3> QED
      BY <2>2, <3>2
  <2> QED
    BY <2>1, <2>2
<1>7. pairs # {} <=> "PointerCompare" \in parsed.allAdded \ D!Gathered.allRemove
  BY Twins DEF F!InvalidPointerPairs
<1> HIDE DEF pairs
<1>8. c.flags \cap {"address-use-after-scope", "address-use-after-return",
                    "detect-invalid-pointer-cmp"} # {} => AsksFor("Address")
  BY <1>1, <1>3, <1>4, <1>6 DEF F!Adds
<1>9. "hwasan-abi" \in c.flags => AsksFor("HWAddress")
  BY <1>1, <1>3, <1>4 DEF F!HwasanAbi, F!Adds
<1>10. F!LastValue("hwasan-abi", None) = "invalid" => ~AsksFor("HWAddress")
  <2> SUFFICES ASSUME F!LastValue("hwasan-abi", None) = "invalid", AsksFor("HWAddress")
               PROVE  FALSE
    OBVIOUS
  <2>1. F!HwasanAbi = F!LastValue("hwasan-abi", "interceptor")
    BY <1>1 DEF F!HwasanAbi, F!Adds
  <2>2. F!LastValue("hwasan-abi", "interceptor") = F!LastValue("hwasan-abi", None)
    BY DEF F!LastValue
  <2> QED
    BY <1>3, <2>1, <2>2
<1>11. "hwasan-use-page-aliases" \in c.flags => F!Arch = "x86_64"
  BY <1>3, <1>4
<1>12. "PointerCompare" \in D!Kinds /\ "PointerCompare" # "FuzzerNoLink"
  BY DEF D!Kinds
<1>13. "detect-invalid-pointer-cmp" \in c.flags => "PointerCompare" \in c.sanitize
  BY <1>1, <1>2, <1>3, <1>4, <1>6, <1>7, <1>12, ComparesAllowed
<1>14. "PointerCompare" \in c.sanitize \ F!Gathered.allRemove
         => "detect-invalid-pointer-cmp" \in c.flags
  BY <1>1, <1>2, <1>3, <1>5, <1>6, <1>7, <1>12, Twins
<1> QED
  BY <1>8, <1>9, <1>10, <1>11, <1>13, <1>14 DEF FlagsAs

LEMMA SettledSame ==
  ASSUME args' = args, parsed' = parsed, NEW s, SettledAs(s)
  PROVE  SettledAs(s)'
<1>1. F!Gathered' = F!Gathered
  BY SMTT(20) DEF F!Gathered, F!FoldRight, F!MapThenFoldSet, F!Turn, F!Min, F!Max, F!ParseArgValues,
         F!Refused, F!Added, F!ExpandGroups, F!Forbidden, F!Members, F!Groups, F!Named, F!Kinds,
         F!CFIKinds, F!UndefinedKinds, F!getSupportedSanitizers, F!ToolChainSupported, F!If,
         F!Arch, F!NotAllowedWithTrap, F!TrappingKinds, F!TrappingDefault, F!Has,
         F!NotAllowedWithMinimalRuntime
<1>2. F!RecoverableKinds' = F!RecoverableKinds
  BY DEF F!RecoverableKinds, F!Recover, F!Recovered, F!FoldLeft, F!MapThenFoldSet, F!Max,
         F!RecoverableByDefault, F!AlwaysRecoverable, F!Unrecoverable, F!ParseArgValues, F!Refused,
         F!ExpandGroups, F!Members, F!Groups, F!Named, F!Kinds, F!CFIKinds, F!UndefinedKinds
<1>3. F!Unsupporting' = F!Unsupporting
  BY <1>1 DEF F!Unsupporting, F!SetGroupBits, F!SupportsCoverage, F!Members, F!Groups, F!Kinds,
              F!CFIKinds, F!UndefinedKinds
<1>4. F!CoverageAsked' = F!CoverageAsked
  BY <1>3 DEF F!CoverageAsked, F!Covered, F!FoldLeft, F!MapThenFoldSet, F!Max, F!FuzzerFeatures
<1>5. F!Implied(F!CoverageAsked)' = F!Implied(F!CoverageAsked)
  BY <1>4 DEF F!Implied, F!InsertionPointTypes, F!InstrumentationTypes
<1>6. /\ \A k : F!Adds(k)' <=> F!Adds(k)
      /\ F!Adds("Memory")' = F!Adds("Memory") /\ F!Adds("Address")' = F!Adds("Address")
      /\ F!Adds("HWAddress")' = F!Adds("HWAddress")
      /\ F!AddsCFI' = F!AddsCFI
      /\ F!CfiCrossDso' = F!CfiCrossDso /\ F!Arch' = F!Arch
  BY DEF F!Adds, F!AddsCFI, F!CFIKinds, F!CfiCrossDso, F!Has, F!Arch, F!Max
<1>7. F!AddressFlags' = F!AddressFlags
  <2>1. F!InvalidPointerPairs' = F!InvalidPointerPairs
    BY <1>1 DEF F!InvalidPointerPairs
  <2>2. F!LastValue("use-after-return", None)' = F!LastValue("use-after-return", None)
    BY DEF F!LastValue, F!Max
  <2>3. F!Has("no-use-after-scope")' = F!Has("no-use-after-scope")
    BY DEF F!Has
  <2> QED
    BY <1>6, <2>1, <2>2, <2>3 DEF F!AddressFlags
<1>8. F!HwasanAbi' = F!HwasanAbi
  BY <1>6 DEF F!HwasanAbi, F!LastValue, F!Max
<1> QED
  BY <1>2, <1>4, <1>5, <1>6, <1>7, <1>8 DEF SettledAs

FlagsInv ==
  /\ ParsedInv /\ Shaped
  /\ settled # None => parsed # None /\ SettledAs(settled)
  /\ FlagProperties

LEMMA ShapedSame == ASSUME Shaped, args' = args PROVE Shaped'
BY DEF Shaped

LEMMA FlagsSame ==
  ASSUME FlagsInv, args' = args, parsed' = parsed, settled' = settled, cc1' = cc1
  PROVE  FlagsInv'
<1>1. ParsedInv' /\ Shaped' /\ FlagProperties'
  BY ParsedSame, ShapedSame, PropertiesSame DEF FlagsInv
<1>2. settled' # None => parsed' # None /\ SettledAs(settled)'
  <2>1. SettledAs(settled) => SettledAs(settled)'
    <3> SUFFICES ASSUME SettledAs(settled) PROVE SettledAs(settled)'
      OBVIOUS
    <3> QED
      BY SettledSame
  <2> QED
    BY <2>1 DEF FlagsInv
<1> QED
  BY <1>1, <1>2 DEF FlagsInv

(* Of a step of SanitizerFlags. *)
LEMMA FlagsStep ==
  ASSUME FlagsInv, None # "invalid", F!FlagNext
  PROVE  FlagsInv'
<1>0. ParsedInv /\ Shaped /\ FlagProperties
      /\ (settled # None => parsed # None /\ SettledAs(settled))
  BY DEF FlagsInv
<1>1. CASE F!Parse /\ UNCHANGED <<settled, cc1>>
  <2>1. D!Parse /\ args' = args /\ parsed = None /\ settled' = settled /\ cc1' = cc1
    BY <1>1, ParsesAlike DEF D!Parse
  <2>2. settled' = None
    BY <1>0, <2>1
  <2>3. ParsedInv' /\ Shaped' /\ FlagProperties'
    BY <1>0, <2>1, ParseTells, ShapedSame, PropertiesSame
  <2> QED
    BY <2>2, <2>3 DEF FlagsInv
<1>2. CASE F!Settle
  <2>1. args' = args /\ parsed' = parsed /\ cc1' = cc1 /\ parsed # None /\ SettledAs(settled')
    BY <1>2, SettleTells
  <2>2. ParsedInv' /\ Shaped' /\ FlagProperties'
    BY <1>0, <2>1, ParsedSame, ShapedSame, PropertiesSame
  <2>3. SettledAs(settled)'
    BY <2>1, SettledSame
  <2> QED
    BY <2>1, <2>2, <2>3 DEF FlagsInv
<1>3. CASE F!AddArgs
  <2>1. /\ args' = args /\ parsed' = parsed /\ settled' = settled /\ settled # None
        /\ parsed.pairs = {} /\ settled.errors = {} /\ CompiledAs(cc1')
    BY <1>3, AddArgsTells
  <2>2. parsed # None /\ SettledAs(settled)
    BY <1>0, <2>1
  <2>3. RecoversAs(cc1')
    BY <1>0, <2>1, <2>2, DoesRecover
  <2>4. CoversAs(cc1')
    BY <1>0, <2>1, <2>2, DoesCover
  <2>5. PieAs(cc1')
    BY <1>0, <2>1, <2>2, IsPie
  <2>6. FlagsAs(cc1')
    BY <1>0, <2>1, <2>2, FlagsAreAsked
  <2>7. FlagProperties'
    BY <2>1, <2>3, <2>4, <2>5, <2>6, AsPrimed
  <2>8. ParsedInv' /\ Shaped' /\ SettledAs(settled)'
    BY <1>0, <2>1, <2>2, ParsedSame, ShapedSame, SettledSame
  <2> QED
    BY <2>1, <2>2, <2>7, <2>8 DEF FlagsInv
<1> QED
  BY <1>1, <1>2, <1>3 DEF F!FlagNext

(* The bounds are numbers, and None is neither an option nor a value. *)
DriverConstants ==
  /\ MaxArgs \in Nat /\ MaxOptions \in Nat
  /\ None \notin L!PicOptions /\ None # "invalid"

DriverInv ==
  /\ part = "driver" => ParsedInv /\ LinkedInv
  /\ part = "flags" => FlagsInv
  /\ part = "link" => LinkNumbered /\ L!PicExact /\ L!LibsExact

LEMMA InitDriver == ASSUME DriverConstants, MCInit PROVE DriverInv
<1>1. ASSUME part = "driver" PROVE ParsedInv /\ LinkedInv
  <2>1. D!Init
    BY <1>1 DEF MCInit
  <2>2. PICK n \in 0..MaxArgs : args \in [1..n -> D!Arg]
    BY <2>1 DEF D!Init
  <2>3. n \in Nat /\ DOMAIN args = 1..n /\ parsed = None /\ linked = None
    BY <2>1, <2>2 DEF D!Init, DriverConstants
  <2> QED
    BY <2>3 DEF ParsedInv, Numbered, LinkedInv
<1>2. ASSUME part = "link" PROVE LinkNumbered /\ L!PicExact /\ L!LibsExact
  <2>1. L!Init
    BY <1>2 DEF MCInit
  <2>2. PICK n \in 0..MaxOptions : line \in [1..n -> L!Options]
    BY <2>1 DEF L!Init
  <2>3. n \in Nat /\ DOMAIN line = 1..n /\ pic = None /\ libs = None
    BY <2>1, <2>2 DEF L!Init, DriverConstants
  <2>4. target \in [platform : L!Platforms, pieDefault : BOOLEAN, picDefault : BOOLEAN,
                    forced : BOOLEAN]
    BY <2>1 DEF L!Init
  <2> QED
    BY <2>3, <2>4 DEF LinkNumbered, L!PicExact, L!LibsExact
<1>3. ASSUME part = "flags" PROVE FlagsInv
  <2>1. F!FlagInit
    BY <1>3 DEF MCInit
  <2>2. PICK n \in 0..MaxArgs : args \in [1..n -> F!FlagArg]
    BY <2>1 DEF F!FlagInit
  <2>3. n \in Nat /\ DOMAIN args = 1..n /\ parsed = None /\ settled = None /\ cc1 = None
    BY <2>1, <2>2 DEF F!FlagInit, DriverConstants
  <2>4. ASSUME NEW a \in F!FlagArg
        PROVE  /\ a = [opt |-> a.opt, value |-> a.value]
               /\ a.opt = "no-coverage" => a.value # "legacy"
    BY DEF F!FlagArg, F!Arg
  <2>5. Shaped
    BY <2>2, <2>4 DEF Shaped
  <2>6. FlagProperties
    BY <2>3 DEF FlagProperties, F!RecoverExact, F!CoverageExact, F!PieExact, F!FlagsExact
  <2> QED
    BY <2>3, <2>5, <2>6 DEF FlagsInv, ParsedInv, Numbered
<1> QED
  BY <1>1, <1>2, <1>3 DEF DriverInv

LEMMA StepDriver ==
  ASSUME DriverConstants, DriverInv, [MCNext]_<<part, runVars, buildVars>>
  PROVE  DriverInv'
<1>1. part' = part
  BY DEF MCNext, Running, Building
<1>2. NotAnOption
  BY DEF DriverConstants, NotAnOption
<1>3. \/ D!Next /\ part = "driver"
      \/ F!FlagNext /\ part = "flags"
      \/ UNCHANGED driverVars /\ part = "flags"
      \/ part \notin {"driver", "flags", "link"}
      \/ L!Next /\ part = "link"
      \/ UNCHANGED driverVars /\ part = "driver"
      \/ UNCHANGED linkVars /\ part = "link"
  BY DEF MCNext, Running, Building, buildVars
<1>4. part = "driver" => ParsedInv /\ LinkedInv
  BY DEF DriverInv
<1>5. part = "link" => LinkNumbered /\ L!PicExact /\ L!LibsExact
  BY DEF DriverInv
<1>6. ASSUME part = "driver" PROVE ParsedInv' /\ LinkedInv'
  <2>1. D!Next \/ UNCHANGED driverVars
    BY <1>3, <1>6
  <2> QED
    BY <1>4, <1>6, <2>1, DriverStep, DriverSame
<1>7. ASSUME part = "link" PROVE LinkNumbered' /\ L!PicExact' /\ L!LibsExact'
  <2>1. L!Next \/ UNCHANGED linkVars
    BY <1>3, <1>7
  <2>2. CASE UNCHANGED linkVars
    BY <1>5, <1>7, <2>2, LinkNumberedSame, PicSame, LibsSame DEF linkVars
  <2> QED
    BY <1>2, <1>5, <1>7, <2>1, <2>2, LinkFlagsStep
<1>8. ASSUME part = "flags" PROVE FlagsInv'
  <2>1. F!FlagNext \/ UNCHANGED driverVars
    BY <1>3, <1>8
  <2>2. FlagsInv /\ None # "invalid"
    BY <1>8 DEF DriverInv, DriverConstants
  <2> QED
    BY <2>1, <2>2, FlagsStep, FlagsSame DEF driverVars
<1> QED
  BY <1>1, <1>6, <1>7, <1>8 DEF DriverInv

LEMMA DriverAlways == ASSUME DriverConstants PROVE MCSpec => []DriverInv
<1>1. MCInit => DriverInv
  BY InitDriver
<1>2. DriverInv /\ [MCNext]_<<part, runVars, buildVars>> => DriverInv'
  BY StepDriver
<1> QED
  BY <1>1, <1>2, PTL DEF MCSpec

(* Whatever the command line says and wherever it is for: an executable has   *)
(* a runtime for each of its sanitizers and one malloc; code is position      *)
(* independent as the last option says, and the libraries of gcc come in the  *)
(* order of its own driver.                                                *)
THEOREM LinkExactAlways == ASSUME DriverConstants PROVE MCSpec => []LinkExact
<1>1. DriverInv => LinkExact
  BY RuntimesDoFit DEF DriverInv, LinkExact
<1> QED
  BY <1>1, DriverAlways, PTL

(* For every command line and every choice of values: what is enabled is what *)
(* the arguments ask for, the last of them deciding, although the driver      *)
(* reads them from the last to the first; what is recovered from, traced and  *)
(* told to the compiler is what the last argument about it says.             *)
THEOREM CommandLineExactAlways == ASSUME DriverConstants PROVE MCSpec => []CommandLineExact
<1>1. DriverInv => CommandLineExact
  BY ArgumentsWin DEF DriverInv, FlagsInv, FlagProperties, CommandLineExact
<1> QED
  BY <1>1, DriverAlways, PTL

==============================================================================
