----------------------------- MODULE ConsoleProofs -----------------------------
(* Proofs about Console, for every set of parameters, width of an integer    *)
(* and sequence of keys.                                                     *)
EXTENDS Console, SequenceTheorems, FiniteSetTheorems, FunctionTheorems,
        WellFoundedInduction, TLAPS

\* What a parameter may hold: a value of its type, a string with room for its
\* terminating zero.
Fits(p, v) ==
  /\ p.type = "uint32" => v \in UInt
  /\ p.type = "int32" => v \in SInt
  /\ p.type = "float" => v \in Floats \cup {NaN}
  /\ p.type = "string" =>
       v \in Seq(Keys) /\ p.max_val \in Nat /\ (p.max_val > 0 => Len(v) < p.max_val)

LEMMA ParameterOf ==
  ASSUME NEW name \in Names
  PROVE  /\ Parameter(name).name = name
         /\ Parameter(name).type \in {"uint32", "int32", "float", "string"}
         /\ Parameter(name).type # "string" =>
              /\ Parameter(name).min_val \in Int /\ Parameter(name).max_val \in Int
              /\ Parameter(name).min_val # Parameter(name).max_val =>
                   Parameter(name).init \in Parameter(name).min_val .. Parameter(name).max_val
         /\ Parameter(name).type = "float" =>
              Parameter(name).min_val \in Floats /\ Parameter(name).max_val \in Floats
         /\ Fits(Parameter(name), Parameter(name).init)
<1>1. \E p \in {Parameters[i] : i \in DOMAIN Parameters} : p.name = name BY DEF Names
<1>2. /\ Parameter(name) \in {Parameters[i] : i \in DOMAIN Parameters}
      /\ Parameter(name).name = name
  BY <1>1 DEF Parameter
<1>3. PICK i \in DOMAIN Parameters : Parameter(name) = Parameters[i] BY <1>2
<1>4. Fits(Parameter(name), Parameter(name).init)
  BY <1>3, ParametersAssumption DEF Fits
<1> QED BY <1>2, <1>3, <1>4, ParametersAssumption

----------------------------------------------------------------------------
(* Words.                                                                   *)

LEMMA LeastNumber ==
  ASSUME NEW N \in SUBSET Nat, N # {}
  PROVE  \E n \in N : \A m \in N : n <= m
<1>1. PICK n \in N : \A m \in N : <<m, n>> \notin OpToRel(<, Nat)
  BY NatLessThanWellFounded, WFMin
<1>2. ASSUME NEW m \in N PROVE m < n => <<m, n>> \in OpToRel(<, Nat)
  <2>1. <<m, n>> \in Nat \X Nat OBVIOUS
  <2> QED BY <2>1, Zenon DEF OpToRel
<1>3. \A m \in N : ~(m < n) BY <1>1, <1>2, Zenon
<1> QED BY <1>3

\* strtok: a word ends at the first blank behind its start.
LEMMA TokenIsText ==
  ASSUME NEW text \in Seq(Keys), NEW i \in 1 .. Len(text), ~Blank(text, i)
  PROVE  TokenAt(text, i) \in Seq(Keys)
<1>1. Len(text) \in Nat /\ DOMAIN text = 1 .. Len(text) BY LenProperties
<1> DEFINE Ends == {j \in i .. Len(text) : Blank(text, j + 1)}
           Is(j) == Blank(text, j + 1) /\ \A k \in i .. j : ~Blank(text, k)
           end == CHOOSE j \in i .. Len(text) : Is(j)
<1>2. Len(text) \in Ends
  <2>1. Len(text) \in i .. Len(text) BY <1>1
  <2>2. Len(text) + 1 \notin DOMAIN text BY <1>1
  <2> QED BY <2>1, <2>2, Zenon DEF Blank
<1>3. Ends \in SUBSET Nat BY <1>1
<1>4. PICK j \in Ends : \A m \in Ends : j <= m
  <2> HIDE DEF Ends
  <2> QED BY <1>2, <1>3, LeastNumber
<1>5. ASSUME NEW k \in i .. j PROVE ~Blank(text, k)
  <2>1. CASE k = i BY <2>1
  <2>2. CASE k # i
    <3>1. k - 1 \in i .. Len(text) /\ (k - 1) + 1 = k /\ ~(j <= k - 1) BY <1>1, <1>5, <2>2
    <3> QED BY <1>4, <3>1
  <2> QED BY <2>1, <2>2
<1>6. end \in i .. Len(text) BY <1>4, <1>5
<1>7. TokenAt(text, i) = SubSeq(text, i, end) BY Zenon DEF TokenAt
<1> HIDE DEF end
<1>8. \A k \in i .. end : text[k] \in Keys BY <1>1, <1>6, ElementOfSeq
<1>9. i \in Int /\ end \in Int BY <1>1, <1>6
<1> QED BY <1>7, <1>8, <1>9, SubSeqProperties

\* Numbers are counted in their order: each count up to the last is reached.
LEMMA Ranked ==
  ASSUME NEW S, NEW m \in Nat, S \subseteq 1 .. m, NEW n \in 1 .. Cardinality(S)
  PROVE  \E i \in S : Cardinality(S \cap 1 .. i) = n
<1> DEFINE rank == [i \in S |-> Cardinality(S \cap 1 .. i)]
<1>1. IsFiniteSet(S) /\ Cardinality(S) \in Nat
  <2>1. IsFiniteSet(1 .. m) BY FS_Interval
  <2>2. S \in SUBSET (1 .. m) OBVIOUS
  <2>3. IsFiniteSet(S) BY <2>1, <2>2, FS_Subset
  <2> QED BY <2>3, FS_CardinalityType
<1>2. ASSUME NEW i \in S PROVE rank[i] \in 1 .. Cardinality(S)
  <2>1. S \cap 1 .. i \in SUBSET S BY <1>2
  <2>2. IsFiniteSet(S \cap 1 .. i) /\ Cardinality(S \cap 1 .. i) <= Cardinality(S)
    BY <1>1, <2>1, FS_Subset
  <2>3. i \in S \cap 1 .. i BY <1>2
  <2>4. Cardinality(S \cap 1 .. i) \in Nat /\ Cardinality(S \cap 1 .. i) # 0
    BY <2>2, <2>3, FS_CardinalityType, FS_EmptySet
  <2> QED BY <1>1, <2>2, <2>4
<1>3. ASSUME NEW i \in S, NEW j \in S, i < j PROVE rank[i] # rank[j]
  <2>1. S \cap 1 .. i \in SUBSET (S \cap 1 .. j) BY <1>3
  <2>2. j \in S \cap 1 .. j /\ j \notin S \cap 1 .. i BY <1>3
  <2>3. IsFiniteSet(S \cap 1 .. j) BY <1>1, FS_Subset
  <2>4. Cardinality(S \cap 1 .. i) # Cardinality(S \cap 1 .. j) BY <2>1, <2>2, <2>3, FS_Subset
  <2> QED BY <2>4
<1>4. rank \in Injection(S, 1 .. Cardinality(S))
  <2>1. rank \in [S -> 1 .. Cardinality(S)] BY <1>2
  <2>2. ASSUME NEW i \in S, NEW j \in S, rank[i] = rank[j] PROVE i = j
    <3>1. i \in Int /\ j \in Int OBVIOUS
    <3>2. ~(i < j) BY <1>3, <2>2
    <3>3. ~(j < i) BY <1>3, <2>2
    <3> QED BY <3>1, <3>2, <3>3
  <2> HIDE DEF rank
  <2> QED BY <2>1, <2>2, Fun_IsInj
<1>5. IsFiniteSet(1 .. Cardinality(S)) /\ Cardinality(1 .. Cardinality(S)) = Cardinality(S)
  BY <1>1, FS_Interval
<1>6. rank \in Surjection(S, 1 .. Cardinality(S)) BY <1>4, <1>5, FS_Injection
<1>7. PICK i \in S : rank[i] = n
  <2> HIDE DEF rank
  <2> QED BY <1>6, Zenon DEF Surjection
<1> QED BY <1>7

\* The words of a line are texts of the keys it has.
LEMMA TokensAreText ==
  ASSUME NEW text \in Seq(Keys)
  PROVE  /\ Tokens(text) \in Seq(Seq(Keys))
         /\ \A n \in 1 .. Len(Tokens(text)) : Tokens(text)[n] \in Seq(Keys)
<1> DEFINE starts == {i \in DOMAIN text : ~Blank(text, i) /\ Blank(text, i - 1)}
           count == Cardinality(starts)
           nth(n) == CHOOSE i \in starts : Cardinality(starts \cap 1 .. i) = n
           last == IF count < MAX_CMD_TOKENS THEN count ELSE MAX_CMD_TOKENS
<1>1. Len(text) \in Nat /\ DOMAIN text = 1 .. Len(text) BY LenProperties
<1>2. starts \subseteq 1 .. Len(text) /\ \A i \in starts : ~Blank(text, i) BY <1>1
<1>3. Tokens(text) = [n \in 1 .. last |-> TokenAt(text, nth(n))] BY Zenon DEF Tokens
<1> HIDE DEF starts
<1>4. count \in Nat
  <2>1. IsFiniteSet(1 .. Len(text)) BY <1>1, FS_Interval
  <2>2. starts \in SUBSET (1 .. Len(text)) BY <1>2
  <2>3. IsFiniteSet(starts) BY <2>1, <2>2, FS_Subset
  <2> QED BY <2>3, FS_CardinalityType
<1>5. last \in Nat /\ last <= count BY <1>4, ConsoleAssumption
<1>6. ASSUME NEW n \in 1 .. last PROVE TokenAt(text, nth(n)) \in Seq(Keys)
  <2>1. n \in 1 .. count BY <1>4, <1>5, <1>6
  <2>2. \E i \in starts : Cardinality(starts \cap 1 .. i) = n BY <1>1, <1>2, <2>1, Ranked
  <2>3. nth(n) \in starts BY <2>2
  <2> HIDE DEF nth
  <2> QED BY <1>1, <1>2, <2>3, TokenIsText
<1> HIDE DEF last, nth
<1>7. Tokens(text) \in [1 .. last -> Seq(Keys)] BY <1>3, <1>6
<1>8. Tokens(text) \in Seq(Seq(Keys)) BY <1>5, <1>7, SeqDef
<1> QED BY <1>8, ElementOfSeq

----------------------------------------------------------------------------
(* What a number becomes before its range is checked.                       *)

Accepted(p, token) ==
  LET number == Numerals(p)[token[1]]
      v == set_parameter_value(p, token).val
  IN /\ v = Converted(p, number) /\ ~OutOfRange(p, v)
     /\ token[1] \in DOMAIN Numerals(p)

LEMMA SetChecks ==
  ASSUME NEW p, NEW token, p.type # "string", set_parameter_value(p, token).ok
  PROVE  Accepted(p, token)
<1> DEFINE v == Converted(p, Numerals(p)[token[1]])
<1>1. ~(Len(token) # 1 \/ token[1] \notin DOMAIN Numerals(p))
  <2> SUFFICES ASSUME Len(token) # 1 \/ token[1] \notin DOMAIN Numerals(p) PROVE FALSE OBVIOUS
  <2> QED BY DEF set_parameter_value
<1> HIDE DEF v
<1> DEFINE refused == [ok |-> FALSE, val |-> NULL]
<1>2. set_parameter_value(p, token) = IF OutOfRange(p, v) THEN refused ELSE [ok |-> TRUE, val |-> v]
  BY <1>1, Zenon DEF set_parameter_value, v
<1>3. ~OutOfRange(p, v)
  <2> SUFFICES ASSUME OutOfRange(p, v) PROVE FALSE OBVIOUS
  <2>1. set_parameter_value(p, token) = refused BY <1>2, Zenon
  <2>2. ~refused.ok OBVIOUS
  <2> QED BY <2>1, <2>2, Zenon
<1>4. set_parameter_value(p, token).val = v BY <1>2, <1>3
<1> QED BY <1>1, <1>3, <1>4, Zenon DEF Accepted, v

LEMMA ConvertedType ==
  /\ \A n \in Int : strtoul(n) \in 0 .. 2^WIDTH - 1
  /\ \A n \in Int : strtol(n) \in -(2^(WIDTH - 1)) .. 2^(WIDTH - 1) - 1
<1> DEFINE w == 2^WIDTH
           h == 2^(WIDTH - 1)
<1>1. h \in Nat /\ h > 0 /\ w = 2 * h BY PowerAssumption
<1> HIDE DEF w, h
<1>2. ASSUME NEW n \in Int
      PROVE  (IF n >= w \/ n <= -w THEN w - 1 ELSE n % w) \in 0 .. w - 1
  BY <1>1
<1>3. ASSUME NEW n \in Int
      PROVE  (IF n >= h THEN h - 1 ELSE IF n < -h THEN -h ELSE n) \in -h .. h - 1
  BY <1>1
<1> QED BY <1>2, <1>3, Zenon DEF strtoul, strtol, w, h

LEMMA FloatsAreInt == Floats \subseteq Int
BY FloatsAssumption

\* Some float is the nearest to a number.
LEMMA Nearest ==
  ASSUME NEW n \in Int
  PROVE  strtof(n) \in Floats /\ \A u \in Floats : Distance(strtof(n), n) <= Distance(u, n)
<1> DEFINE Ds == {Distance(u, n) : u \in Floats}
           Is(v) == \A u \in Floats : Distance(v, n) <= Distance(u, n)
<1>1. \A u \in Floats : Distance(u, n) \in Nat BY FloatsAssumption DEF Distance
<1>2. Ds \in SUBSET Nat /\ Ds # {} BY <1>1, FloatsAssumption
<1>3. PICK d \in Ds : \A m \in Ds : d <= m
  <2> HIDE DEF Ds
  <2> QED BY <1>2, LeastNumber
<1>4. \E v \in Floats : Is(v) BY <1>3
<1>5. strtof(n) = CHOOSE v \in Floats : Is(v) BY NumeralsAssumption, Zenon DEF strtof
<1> HIDE DEF Is
<1>6. strtof(n) \in Floats /\ Is(strtof(n)) BY <1>4, <1>5
<1> QED BY <1>6 DEF Is

\* Rounding does not leave a range whose limits are floats.
LEMMA NearestStays ==
  ASSUME NEW n \in Int, NEW a \in Floats, NEW b \in Floats, a <= n, n <= b
  PROVE  a <= strtof(n) /\ strtof(n) <= b
<1> DEFINE v == strtof(n)
<1>1. v \in Floats /\ Distance(v, n) <= Distance(a, n) /\ Distance(v, n) <= Distance(b, n)
  BY Nearest
<1>2. a \in Int /\ b \in Int /\ v \in Int BY <1>1, FloatsAreInt
<1> HIDE DEF v
<1>3. a <= v /\ v <= b BY <1>1, <1>2 DEF Distance
<1> QED BY <1>3 DEF v

LEMMA FloatType ==
  ASSUME NEW n \in Int \cup {NaN}
  PROVE  strtof(n) \in Floats \cup {NaN}
<1>1. CASE n \in Int BY <1>1, Nearest
<1>2. CASE n = NaN BY <1>2, Zenon DEF strtof
<1> QED BY <1>1, <1>2

\* A value that is accepted is in the range, or not a number.
LEMMA AcceptedInRange ==
  ASSUME NEW p, NEW token, Accepted(p, token),
         p.type \in {"uint32", "int32", "float"}, p.min_val \in Int, p.max_val \in Int,
         p.min_val # p.max_val
  PROVE  set_parameter_value(p, token).val \in {NaN} \cup p.min_val .. p.max_val
<1> DEFINE v == set_parameter_value(p, token).val
           number == Numerals(p)[token[1]]
<1>1. v = Converted(p, number) /\ ~OutOfRange(p, v) /\ token[1] \in DOMAIN Numerals(p)
  BY Zenon DEF Accepted
<1> HIDE DEF v
<1>2. v \in Int \cup {NaN}
  <2>1. CASE p.type = "uint32"
    <3>1. number \in Int BY <1>1, <2>1, NumeralsAssumption DEF Numerals
    <3>2. v = strtoul(number) BY <1>1, <2>1 DEF Converted
    <3> HIDE DEF number
    <3>3. v \in 0 .. 2^WIDTH - 1 BY <3>1, <3>2, ConvertedType
    <3> QED BY <3>3
  <2>2. CASE p.type = "int32"
    <3>1. number \in Int BY <1>1, <2>2, NumeralsAssumption DEF Numerals
    <3>2. v = strtol(number) BY <1>1, <2>2 DEF Converted
    <3> HIDE DEF number
    <3>3. v \in -(2^(WIDTH - 1)) .. 2^(WIDTH - 1) - 1 BY <3>1, <3>2, ConvertedType
    <3> QED BY <3>3
  <2>3. CASE p.type = "float"
    <3>1. number \in Int \cup {NaN} BY <1>1, <2>3, NumeralsAssumption DEF Numerals
    <3>2. v = strtof(number) BY <1>1, <2>3 DEF Converted
    <3> HIDE DEF number
    <3>3. v \in Floats \cup {NaN} BY <3>1, <3>2, FloatType
    <3> QED BY <3>3, FloatsAssumption
  <2> QED BY <2>1, <2>2, <2>3
<1>3. v = NaN \/ (v \in Int /\ ~(v < p.min_val) /\ ~(p.max_val < v))
  BY <1>1, <1>2, NumeralsAssumption DEF OutOfRange, Less
<1>4. v \in {NaN} \cup p.min_val .. p.max_val BY <1>3
<1> QED BY <1>4 DEF v

----------------------------------------------------------------------------
(* What a command changes.                                                  *)

Effect(done, tokens) ==
  \/ done.name = NULL
  \/ /\ done.name \in Names /\ Len(tokens) = 3
     /\ set_parameter_value(Parameter(done.name), tokens[3]).ok
     /\ done.val = set_parameter_value(Parameter(done.name), tokens[3]).val

LEMMA CommandEffect ==
  ASSUME NEW command
  PROVE  Effect(console_execute_command(command), Tokens(strcopy(command, BUFFER)))
<1> DEFINE tokens == Tokens(strcopy(command, BUFFER))
           done == console_execute_command(command)
           name == find_parameter(tokens[2])
           result == set_parameter_value(Parameter(name), tokens[3])
           changed == [out |-> Answer, name |-> name, val |-> result.val]
<1> HIDE DEF tokens
<1>1. Says.name = NULL /\ [Says EXCEPT !.out = <<>>].name = NULL BY DEF Says
<1>2. name = NULL \/ name \in Names BY Zenon DEF find_parameter
<1>3. \/ set(tokens) = Says
      \/ name # NULL /\ result.ok /\ Len(tokens) = 3 /\ set(tokens) = changed
  BY Zenon DEF set
<1>4. changed.name = name /\ changed.val = result.val OBVIOUS
<1>5. done = [Says EXCEPT !.out = <<>>] \/ done = Says \/ done = set(tokens)
  BY Zenon DEF console_execute_command, tokens
<1> HIDE DEF name, changed, done
<1>6. Effect(set(tokens), tokens) BY <1>1, <1>2, <1>3, <1>4, Zenon DEF Effect, name
<1>7. Effect(done, tokens) BY <1>1, <1>5, <1>6, Zenon DEF Effect
<1> QED BY <1>7 DEF done, tokens

\* Enter, in terms of what the command does.
Entered ==
  LET done == console_execute_command(line) IN
  /\ value' = IF done.name = NULL THEN value ELSE [value EXCEPT ![done.name] = done.val]
  /\ typed' = IF done.name = NULL THEN NULL
              ELSE [name |-> done.name, token |-> Tokens(strcopy(line, BUFFER))[3], old |-> value]
  /\ line' = <<>>

LEMMA EnterIs == Enter => Entered
BY Zenon DEF Enter, Entered

\* Every other step leaves the values alone.
LEMMA OtherSteps == [Next]_vars => Enter \/ (UNCHANGED value /\ (typed' = NULL \/ UNCHANGED typed))
BY Zenon DEF Next, Backspace, Type, vars

----------------------------------------------------------------------------
(* The ranges.                                                              *)

ValuesInRange == DOMAIN value = Names /\ InListedRange

LEMMA InitInRange == Init => ValuesInRange
<1> SUFFICES ASSUME Init PROVE ValuesInRange OBVIOUS
<1>1. value = [name \in Names |-> Parameter(name).init] BY DEF Init
<1>2. ASSUME NEW name \in Names, Parameter(name).type # "string",
             Parameter(name).min_val # Parameter(name).max_val
      PROVE  value[name] \in Parameter(name).min_val .. Parameter(name).max_val
  BY <1>1, <1>2, ParameterOf
<1> QED BY <1>1, <1>2 DEF ValuesInRange, InListedRange

LEMMA NextInRange == ValuesInRange /\ [Next]_vars => ValuesInRange'
<1> SUFFICES ASSUME ValuesInRange, [Next]_vars PROVE ValuesInRange' OBVIOUS
<1>1. CASE UNCHANGED value
  BY <1>1, Zenon DEF ValuesInRange, InListedRange
<1>2. CASE Enter
  <2> DEFINE done == console_execute_command(line)
             tokens == Tokens(strcopy(line, BUFFER))
             n == done.name
             p == Parameter(n)
  <2>1. Effect(done, tokens) BY CommandEffect
  <2>2. value' = IF n = NULL THEN value ELSE [value EXCEPT ![n] = done.val]
    BY <1>2, EnterIs, Zenon DEF Entered
  <2> HIDE DEF done, tokens
  <2>3. CASE n = NULL BY <1>1, <2>2, <2>3
  <2>4. CASE n # NULL
    <3>1. /\ n \in Names /\ set_parameter_value(p, tokens[3]).ok
          /\ done.val = set_parameter_value(p, tokens[3]).val
      BY <2>1, <2>4, Zenon DEF Effect
    <3>2. p.type # "string" /\ p.min_val # p.max_val => done.val \in {NaN} \cup p.min_val .. p.max_val
      <4> HAVE p.type # "string" /\ p.min_val # p.max_val
      <4> HIDE DEF n
      <4>1. /\ p.type \in {"uint32", "int32", "float"}
            /\ p.min_val \in Int /\ p.max_val \in Int
        BY <3>1, ParameterOf
      <4> HIDE DEF p
      <4>2. Accepted(p, tokens[3]) BY <3>1, SetChecks
      <4>3. set_parameter_value(p, tokens[3]).val \in {NaN} \cup p.min_val .. p.max_val
        BY <4>1, <4>2, AcceptedInRange
      <4> QED BY <3>1, <4>3
    <3> HIDE DEF n
    <3>3. DOMAIN value' = Names /\ value'[n] = done.val
          /\ \A name \in Names \ {n} : value'[name] = value[name]
      BY <2>2, <2>4, <3>1 DEF ValuesInRange
    <3>4. ASSUME NEW name \in Names, Parameter(name).type # "string",
                 Parameter(name).min_val # Parameter(name).max_val
          PROVE  value'[name] \in {NaN} \cup Parameter(name).min_val .. Parameter(name).max_val
      <4>1. CASE name = n
        <5>1. p = Parameter(name) BY <4>1
        <5> HIDE DEF p
        <5> QED BY <3>2, <3>3, <3>4, <4>1, <5>1
      <4>2. CASE name # n BY <3>3, <3>4, <4>2, Zenon DEF ValuesInRange, InListedRange
      <4> QED BY <4>1, <4>2
    <3> QED BY <3>3, <3>4, Zenon DEF ValuesInRange, InListedRange
  <2> QED BY <2>3, <2>4
<1> QED BY <1>1, <1>2, OtherSteps

\* The ranges that list prints hold at all times, for all parameters and
\* whatever is typed; set_parameter_value lets in nothing else but NaN.
THEOREM RangesHold == Spec => []InListedRange
<1>1. ValuesInRange => InListedRange BY DEF ValuesInRange
<1> QED BY <1>1, InitInRange, NextInRange, PTL DEF Spec

----------------------------------------------------------------------------
(* No number is taken for another.                                          *)

\* The line never fills its buffer.
LineFits == line \in Seq(Keys) /\ Len(line) < BUFFER /\ plain \in BOOLEAN

LEMMA InitFits == Init => LineFits
BY ConsoleAssumption DEF Init, LineFits

LEMMA NextFits == LineFits /\ [Next]_vars => LineFits'
<1> SUFFICES ASSUME LineFits, [Next]_vars PROVE LineFits' OBVIOUS
<1>0. plain' \in BOOLEAN BY Zenon DEF LineFits, Next, Backspace, Enter, Type, vars
<1>1. line \in Seq(Keys) /\ Len(line) \in Nat /\ Len(line) < BUFFER /\ BUFFER \in Nat /\ BUFFER > 1
  BY LenProperties, ConsoleAssumption DEF LineFits
<1>2. CASE Backspace
  <2>1. CASE line = <<>> BY <1>0, <1>1, <1>2, <2>1 DEF Backspace, LineFits
  <2>2. CASE line # <<>>
    <3>1. line' = SubSeq(line, 1, Len(line) - 1) BY <1>2, <2>2, Zenon DEF Backspace
    <3>2. Len(line) # 0 BY <1>1, <2>2, EmptySeq
    <3>3. \A i \in 1 .. Len(line) - 1 : line[i] \in Keys BY <1>1, ElementOfSeq
    <3>4. 1 \in Int /\ Len(line) - 1 \in Int BY <1>1
    <3>5. /\ line' \in Seq(Keys)
          /\ Len(line') = IF 1 <= Len(line) - 1 THEN Len(line) - 1 - 1 + 1 ELSE 0
      BY <3>1, <3>3, <3>4, SubSeqProperties
    <3> QED BY <1>0, <1>1, <3>2, <3>5 DEF LineFits
  <2> QED BY <2>1, <2>2
<1>3. CASE Enter
  <2>1. line' = <<>> BY <1>3, EnterIs, Zenon DEF Entered
  <2> QED BY <1>0, <1>1, <2>1 DEF LineFits
<1>4. ASSUME NEW k \in Keys, Type(k) PROVE LineFits'
  <2>1. CASE Len(line) < BUFFER - 1
    <3>1. line' = Append(line, k) BY <1>4, <2>1, Zenon DEF Type
    <3>2. line' \in Seq(Keys) /\ Len(line') = Len(line) + 1 BY <1>1, <3>1, AppendProperties
    <3> QED BY <1>0, <1>1, <2>1, <3>2 DEF LineFits
  <2>2. CASE ~(Len(line) < BUFFER - 1)
    <3>1. UNCHANGED line BY <1>4, <2>2, Zenon DEF Type
    <3> QED BY <1>0, <1>1, <3>1 DEF LineFits
  <2> QED BY <2>1, <2>2
<1>5. CASE UNCHANGED vars BY <1>0, <1>1, <1>5 DEF vars, LineFits
<1> QED BY <1>2, <1>3, <1>4, <1>5, Zenon DEF Next

\* Saturating leads out of such a range; wrapping does for numbers that are not
\* negative.
LEMMA SameNumber ==
  ASSUME NEW p, NEW token, Accepted(p, token), p.min_val \in Int, p.max_val \in Int,
         p.min_val < p.max_val,
         \/ /\ p.type = "int32"
            /\ -(2^(WIDTH - 1)) < p.min_val /\ p.max_val < 2^(WIDTH - 1) - 1
         \/ /\ p.type = "uint32"
            /\ p.max_val < 2 * 2^(WIDTH - 1) - 1 /\ IntegerText[token[1]] >= 0
  PROVE  set_parameter_value(p, token).val = IntegerText[token[1]]
<1> DEFINE w == 2^WIDTH
           h == 2^(WIDTH - 1)
           n == IntegerText[token[1]]
           v == set_parameter_value(p, token).val
<1>1. h \in Nat /\ h > 0 /\ w = 2 * h BY PowerAssumption
<1>2. Numerals(p) = IntegerText BY DEF Numerals
<1>3. v = Converted(p, n) /\ ~OutOfRange(p, v) /\ token[1] \in DOMAIN IntegerText
  BY <1>2, Zenon DEF Accepted
<1>4. n \in Int BY <1>3, NumeralsAssumption
<1>5. p.type = "uint32" => v = strtoul(n) BY <1>3 DEF Converted
<1>6. p.type = "int32" => v = strtol(n) BY <1>3 DEF Converted
<1>7. strtoul(n) = IF n >= w \/ n <= -w THEN w - 1 ELSE n % w BY DEF strtoul
<1>8. strtol(n) = IF n >= h THEN h - 1 ELSE IF n < -h THEN -h ELSE n BY DEF strtol
<1> HIDE DEF n, v
<1>9. v \in Int
  <2>1. strtoul(n) \in Int /\ strtol(n) \in Int BY <1>1, <1>4, ConvertedType DEF w, h
  <2> QED BY <1>5, <1>6, <2>1
<1>10. p.min_val <= v /\ v <= p.max_val BY <1>3, <1>9, NumeralsAssumption DEF OutOfRange, Less
<1>11. CASE p.type = "uint32" /\ p.max_val < 2 * h - 1 /\ n >= 0
  <2> HIDE DEF w, h
  <2>1. n < w BY <1>1, <1>4, <1>5, <1>7, <1>9, <1>10, <1>11
  <2>2. n % w = n BY <1>1, <1>4, <1>11, <2>1
  <2> QED BY <1>1, <1>4, <1>5, <1>7, <1>11, <2>1, <2>2 DEF n, v
<1>12. CASE p.type = "int32" /\ -h < p.min_val /\ p.max_val < h - 1
  <2> HIDE DEF w, h
  <2>1. v = n BY <1>1, <1>4, <1>6, <1>8, <1>9, <1>10, <1>12
  <2> QED BY <2>1 DEF n, v
<1> QED BY <1>11, <1>12 DEF n

LEMMA NextAccepted == ValuesInRange /\ AcceptedAsTyped /\ [Next]_vars => AcceptedAsTyped'
<1> SUFFICES ASSUME ValuesInRange, AcceptedAsTyped, [Next]_vars PROVE AcceptedAsTyped'
  OBVIOUS
<1>1. CASE UNCHANGED value /\ typed' = NULL BY <1>1, Zenon DEF AcceptedAsTyped
<1>2. CASE UNCHANGED value /\ UNCHANGED typed BY <1>2, Zenon DEF AcceptedAsTyped
<1>3. CASE Enter
  <2> DEFINE done == console_execute_command(line)
             tokens == Tokens(strcopy(line, BUFFER))
             name == done.name
             p == Parameter(name)
             now == [name |-> name, token |-> tokens[3], old |-> value]
  <2>1. Effect(done, tokens) BY CommandEffect
  <2>2. /\ value' = IF name = NULL THEN value ELSE [value EXCEPT ![name] = done.val]
        /\ typed' = IF name = NULL THEN NULL ELSE now
    BY <1>3, EnterIs, Zenon DEF Entered
  <2> HIDE DEF done, tokens
  <2>3. CASE name = NULL BY <2>2, <2>3, Zenon DEF AcceptedAsTyped
  <2>4. CASE name # NULL
    <3>1. /\ name \in Names /\ set_parameter_value(p, tokens[3]).ok
          /\ done.val = set_parameter_value(p, tokens[3]).val
      BY <2>1, <2>4, Zenon DEF Effect
    <3> HIDE DEF name
    <3>2. typed' = now /\ now.name = name /\ now.token = tokens[3] /\ now.old = value
      BY <2>2, <2>4
    <3>3. typed'.name = name /\ typed'.token = tokens[3] /\ typed'.old = value BY <3>2, Zenon
    <3>4. value'[name] = done.val /\ \A other \in Names \ {name} : value'[other] = value[other]
      BY <2>2, <2>4, <3>1 DEF ValuesInRange
    <3> DEFINE h == 2^(WIDTH - 1)
               n == IntegerText[tokens[3][1]]
    <3>5. ASSUME \/ /\ p.type = "int32" /\ -h < p.min_val /\ p.min_val < p.max_val
                    /\ p.max_val < h - 1
                 \/ /\ p.type = "uint32" /\ p.min_val < p.max_val
                    /\ p.max_val < 2 * h - 1 /\ n >= 0
          PROVE  value'[name] = n
      <4>1. p.type # "string" /\ p.min_val < p.max_val BY <3>5
      <4>2. p.min_val \in Int /\ p.max_val \in Int BY <3>1, <4>1, ParameterOf
      <4> HIDE DEF p
      <4>3. Accepted(p, tokens[3]) BY <3>1, <4>1, SetChecks
      <4>4. set_parameter_value(p, tokens[3]).val = n BY <3>5, <4>1, <4>2, <4>3, SameNumber
      <4> QED BY <3>1, <3>4, <4>4
    <3> HIDE DEF h, n
    <3> QED BY <3>3, <3>4, <3>5, Zenon DEF AcceptedAsTyped, h, n
  <2> QED BY <2>3, <2>4
<1> QED BY <1>1, <1>2, <1>3, OtherSteps

\* A number that set accepts is the number that was typed, whatever the width
\* of an integer, for an int32 whose range leaves out the least and the greatest
\* value, and for a uint32 whose range leaves out the greatest if the number is
\* not negative: strtoul and strtol saturate to what set_parameter_value then
\* refuses. And no command sets two parameters.
THEOREM NoNumberForAnother == Spec => []AcceptedAsTyped
<1>1. Init => ValuesInRange /\ AcceptedAsTyped
  <2>1. Init => AcceptedAsTyped BY Zenon DEF Init, AcceptedAsTyped
  <2> QED BY <2>1, InitInRange
<1>2. ValuesInRange /\ AcceptedAsTyped /\ [Next]_vars => (ValuesInRange /\ AcceptedAsTyped)'
  BY NextInRange, NextAccepted
<1> QED BY <1>1, <1>2, PTL DEF Spec

----------------------------------------------------------------------------
(* The values of a type.                                                    *)

ValuesFit ==
  /\ DOMAIN value = Names
  /\ \A name \in Names : Fits(Parameter(name), value[name])

LEMMA Prefix ==
  ASSUME NEW K, NEW text \in Seq(K), NEW m \in 0 .. Len(text)
  PROVE  SubSeq(text, 1, m) \in Seq(K) /\ Len(SubSeq(text, 1, m)) = m
<1>1. Len(text) \in Nat BY LenProperties
<1>2. \A i \in 1 .. m : text[i] \in K
  <2>1. \A i \in 1 .. m : i \in 1 .. Len(text) BY <1>1
  <2> QED BY <2>1, ElementOfSeq
<1>3. /\ SubSeq(text, 1, m) \in Seq(K)
      /\ Len(SubSeq(text, 1, m)) = IF 1 <= m THEN m - 1 + 1 ELSE 0
  <2>1. 1 \in Int /\ m \in Int BY <1>1
  <2> QED BY <1>2, <2>1, SubSeqProperties
<1> QED BY <1>1, <1>3

\* What comes before the first zero byte is no longer than the text.
LEMMA CStringIsText ==
  ASSUME NEW K, NEW text \in Seq(K)
  PROVE  CString(text) \in Seq(K)
<1> DEFINE S == {i \in DOMAIN text : \A j \in 1 .. i : text[j] # NUL}
<1>1. Len(text) \in Nat /\ DOMAIN text = 1 .. Len(text) BY LenProperties
<1>2. S \in SUBSET (1 .. Len(text)) BY <1>1
<1>3. IsFiniteSet(1 .. Len(text)) /\ Cardinality(1 .. Len(text)) = Len(text) BY <1>1, FS_Interval
<1>4. CString(text) = SubSeq(text, 1, Cardinality(S)) BY Zenon DEF CString
<1> HIDE DEF S
<1>5. Cardinality(S) \in 0 .. Len(text)
  <2>1. IsFiniteSet(S) /\ Cardinality(S) <= Cardinality(1 .. Len(text)) BY <1>2, <1>3, FS_Subset
  <2>2. Cardinality(S) \in Nat BY <2>1, FS_CardinalityType
  <2> QED BY <1>1, <1>3, <2>1, <2>2
<1> QED BY <1>4, <1>5, Prefix

\* strcopy: as much of a text as there is room for.
LEMMA CopyFits ==
  ASSUME NEW text \in Seq(Keys), NEW n \in Nat, n > 0
  PROVE  strcopy(text, n) \in Seq(Keys) /\ Len(strcopy(text, n)) < n
<1> DEFINE s == CString(text)
           m == IF Len(s) < n THEN Len(s) ELSE n - 1
<1>1. strcopy(text, n) = SubSeq(s, 1, m) BY Zenon DEF strcopy
<1>2. s \in Seq(Keys) BY CStringIsText
<1> HIDE DEF s
<1>3. Len(s) \in Nat BY <1>2, LenProperties
<1>4. m \in 0 .. Len(s) /\ m < n BY <1>3
<1> HIDE DEF m
<1> QED BY <1>1, <1>2, <1>4, Prefix

\* A line without a control key is copied whole.
LEMMA PlainCopied ==
  ASSUME NEW text \in Seq(Keys \ Controls), NEW n \in Nat, Len(text) < n
  PROVE  strcopy(text, n) = text
<1> DEFINE S == {i \in DOMAIN text : \A j \in 1 .. i : text[j] # NUL}
<1>1. Len(text) \in Nat /\ DOMAIN text = 1 .. Len(text) BY LenProperties
<1>2. \A j \in 1 .. Len(text) : text[j] # NUL
  <2>1. NUL \notin Keys \ Controls BY DEF Controls
  <2> QED BY <2>1, ElementOfSeq
<1>3. S = 1 .. Len(text)
  <2>1. ASSUME NEW i \in 1 .. Len(text), NEW j \in 1 .. i PROVE text[j] # NUL
    <3>1. j \in 1 .. Len(text) BY <1>1
    <3> QED BY <1>2, <3>1
  <2> QED BY <1>1, <2>1
<1>4. Cardinality(1 .. Len(text)) = Len(text)
  <2> DEFINE m == Len(text)
  <2>1. m \in Nat BY <1>1
  <2> HIDE DEF m, S
  <2>2. Cardinality(1 .. m) = IF 1 > m THEN 0 ELSE m - 1 + 1 BY <2>1, FS_Interval
  <2> QED BY <2>1, <2>2 DEF m
<1>5. CString(text) = SubSeq(text, 1, Cardinality(S)) BY Zenon DEF CString
<1> HIDE DEF S
<1>6. SubSeq(text, 1, Len(text)) = text BY SubSeqFull
<1>7. CString(text) = text BY <1>3, <1>4, <1>5, <1>6
<1>8. strcopy(text, n) = SubSeq(text, 1, IF Len(text) < n THEN Len(text) ELSE n - 1)
  BY <1>7, Zenon DEF strcopy
<1> QED BY <1>6, <1>8

\* What set_parameter_value stores is a value of the type.
LEMMA SetFits ==
  ASSUME NEW name \in Names, NEW token \in Seq(Keys),
         set_parameter_value(Parameter(name), token).ok
  PROVE  Fits(Parameter(name), set_parameter_value(Parameter(name), token).val)
<1> DEFINE p == Parameter(name)
           v == set_parameter_value(p, token).val
           number == Numerals(p)[token[1]]
<1>1. p.type \in {"uint32", "int32", "float", "string"} /\ Fits(p, p.init) BY ParameterOf
<1>2. CASE p.type = "string"
  <2>1. p.max_val \in Nat BY <1>1, <1>2 DEF Fits
  <2> DEFINE refused == [ok |-> FALSE, val |-> NULL]
             copied == [ok |-> TRUE, val |-> strcopy(token, p.max_val)]
  <2>2. set_parameter_value(p, token) = IF p.max_val = 0 THEN refused ELSE copied
    BY <1>2, Zenon DEF set_parameter_value
  <2>3. ~refused.ok /\ copied.val = strcopy(token, p.max_val) OBVIOUS
  <2> HIDE DEF refused, copied, p
  <2>4. p.max_val # 0 /\ set_parameter_value(p, token) = copied BY <2>2, <2>3 DEF p
  <2>5. strcopy(token, p.max_val) \in Seq(Keys) /\ Len(strcopy(token, p.max_val)) < p.max_val
    BY <2>1, <2>4, CopyFits
  <2>6. v = strcopy(token, p.max_val) BY <2>3, <2>4
  <2> HIDE DEF v
  <2> QED BY <1>2, <2>1, <2>5, <2>6 DEF Fits, p, v
<1>3. CASE p.type # "string"
  <2>1. Accepted(p, token) BY <1>3, SetChecks
  <2>2. v = Converted(p, number) /\ token[1] \in DOMAIN Numerals(p) BY <2>1, Zenon DEF Accepted
  <2> HIDE DEF v
  <2>3. CASE p.type = "uint32"
    <3>1. number \in Int BY <2>2, <2>3, NumeralsAssumption DEF Numerals
    <3>2. v = strtoul(number) BY <2>2, <2>3 DEF Converted
    <3> HIDE DEF number, p
    <3>3. v \in UInt BY <3>1, <3>2, ConvertedType DEF UInt
    <3> QED BY <2>3, <3>3 DEF Fits, p, v
  <2>4. CASE p.type = "int32"
    <3>1. number \in Int BY <2>2, <2>4, NumeralsAssumption DEF Numerals
    <3>2. v = strtol(number) BY <2>2, <2>4 DEF Converted
    <3> HIDE DEF number, p
    <3>3. v \in SInt BY <3>1, <3>2, ConvertedType DEF SInt
    <3> QED BY <2>4, <3>3 DEF Fits, p, v
  <2>5. CASE p.type = "float"
    <3>1. number \in Int \cup {NaN} BY <2>2, <2>5, NumeralsAssumption DEF Numerals
    <3>2. v = strtof(number) BY <2>2, <2>5 DEF Converted
    <3> HIDE DEF number, p
    <3>3. v \in Floats \cup {NaN} BY <3>1, <3>2, FloatType
    <3> QED BY <2>5, <3>3 DEF Fits, p, v
  <2> QED BY <1>1, <1>3, <2>3, <2>4, <2>5
<1> QED BY <1>2, <1>3

LEMMA InitValuesFit == Init => ValuesFit
<1> SUFFICES ASSUME Init PROVE ValuesFit OBVIOUS
<1>1. value = [name \in Names |-> Parameter(name).init] BY DEF Init
<1>2. \A name \in Names : Fits(Parameter(name), Parameter(name).init) BY ParameterOf
<1>3. \A name \in Names : value[name] = Parameter(name).init BY <1>1
<1> QED BY <1>1, <1>2, <1>3, Zenon DEF ValuesFit

LEMMA NextValuesFit == LineFits /\ ValuesFit /\ [Next]_vars => ValuesFit'
<1> SUFFICES ASSUME LineFits, ValuesFit, [Next]_vars PROVE ValuesFit' OBVIOUS
<1>1. CASE UNCHANGED value BY <1>1, Zenon DEF ValuesFit
<1>2. CASE Enter
  <2> DEFINE done == console_execute_command(line)
             tokens == Tokens(strcopy(line, BUFFER))
             n == done.name
  <2>1. Effect(done, tokens) BY CommandEffect
  <2>2. value' = IF n = NULL THEN value ELSE [value EXCEPT ![n] = done.val]
    BY <1>2, EnterIs, Zenon DEF Entered
  <2>3. \A i \in 1 .. Len(tokens) : tokens[i] \in Seq(Keys)
    <3>1. strcopy(line, BUFFER) \in Seq(Keys) BY CopyFits, ConsoleAssumption DEF LineFits
    <3> QED BY <3>1, TokensAreText
  <2> HIDE DEF done, tokens
  <2>4. CASE n = NULL BY <1>1, <2>2, <2>4
  <2>5. CASE n # NULL
    <3>1. /\ n \in Names /\ set_parameter_value(Parameter(n), tokens[3]).ok
          /\ done.val = set_parameter_value(Parameter(n), tokens[3]).val
          /\ Len(tokens) = 3
      BY <2>1, <2>5, Zenon DEF Effect
    <3>2. tokens[3] \in Seq(Keys) BY <2>3, <3>1
    <3>3. Fits(Parameter(n), done.val) BY <3>1, <3>2, SetFits
    <3> HIDE DEF n
    <3>4. DOMAIN value' = Names /\ value'[n] = done.val
          /\ \A name \in Names \ {n} : value'[name] = value[name]
      BY <2>2, <2>5, <3>1 DEF ValuesFit
    <3> QED BY <3>3, <3>4, Zenon DEF ValuesFit
  <2> QED BY <2>4, <2>5
<1> QED BY <1>1, <1>2, OtherSteps

LEMMA FitTypes == LineFits /\ ValuesFit => TypeOK
<1> SUFFICES ASSUME LineFits, ValuesFit PROVE TypeOK OBVIOUS
<1> DEFINE Typed(p, v) ==
      CASE p.type = "uint32" -> v \in UInt
        [] p.type = "int32" -> v \in SInt
        [] p.type = "float" -> v \in Floats \cup {NaN}
        [] p.type = "string" -> v \in Seq(Keys)
<1>1. ASSUME NEW p, NEW v, Fits(p, v), p.type \in {"uint32", "int32", "float", "string"}
      PROVE  Typed(p, v)
  BY <1>1 DEF Fits
<1>2. ASSUME NEW name \in Names PROVE Typed(Parameter(name), value[name])
  BY <1>1, ParameterOf, Zenon DEF ValuesFit
<1> QED BY <1>2, Zenon DEF TypeOK, LineFits

\* For every set of parameters, whatever the user types: the line stays within
\* its buffer (console_process), and set_parameter_value stores values of the
\* type of the parameter only.
THEOREM TypeCorrect == Spec => []TypeOK
<1>1. Init => LineFits /\ ValuesFit BY InitFits, InitValuesFit
<1>2. LineFits /\ ValuesFit /\ [Next]_vars => (LineFits /\ ValuesFit)'
  BY NextFits, NextValuesFit
<1> QED BY <1>1, <1>2, FitTypes, PTL DEF Spec

\* strcopy leaves room for the terminating zero of every string, whatever the
\* length of its parameter and of the text.
THEOREM StringsFit == Spec => []StringFits
<1>1. ValuesFit => StringFits BY DEF ValuesFit, StringFits, Fits
<1>2. Init => LineFits /\ ValuesFit BY InitFits, InitValuesFit
<1>3. LineFits /\ ValuesFit /\ [Next]_vars => (LineFits /\ ValuesFit)'
  BY NextFits, NextValuesFit
<1> QED BY <1>1, <1>2, <1>3, PTL DEF Spec

----------------------------------------------------------------------------
(* Printing a value and setting it.                                         *)

LEMMA UnsignedBack ==
  ASSUME NEW v \in UInt, v < 2^(WIDTH - 1)
  PROVE  strtoul(Shortened(Signed(v))) = v
<1> DEFINE w == 2^WIDTH
           h == 2^(WIDTH - 1)
<1>1. h \in Nat /\ h > 0 /\ w = 2 * h /\ DIGITS \in Nat /\ v \in 0 .. w - 1 /\ v < h
  BY PowerAssumption, ConsoleAssumption DEF UInt
<1>2. Signed(v) = IF v >= h THEN v - w ELSE v BY DEF Signed
<1>3. Shortened(v) = IF v < -DIGITS THEN -((-v) \div 10) ELSE v BY Zenon DEF Shortened
<1>4. strtoul(v) = IF v >= w \/ v <= -w THEN w - 1 ELSE v % w BY Zenon DEF strtoul
<1> HIDE DEF w, h
<1>5. Signed(v) = v BY <1>1, <1>2
<1>6. Shortened(v) = v BY <1>1, <1>3
<1>7. v % w = v /\ ~(v >= w \/ v <= -w) BY <1>1
<1> QED BY <1>4, <1>5, <1>6, <1>7

LEMMA SignedBack ==
  ASSUME NEW v \in SInt PROVE strtol(Signed(v)) = v
<1> DEFINE w == 2^WIDTH
           h == 2^(WIDTH - 1)
<1>1. h \in Nat /\ h > 0 /\ v \in -h .. h - 1 BY PowerAssumption DEF SInt
<1>2. Signed(v) = IF v >= h THEN v - w ELSE v BY DEF Signed
<1>3. strtol(v) = IF v >= h THEN h - 1 ELSE IF v < -h THEN -h ELSE v BY DEF strtol
<1> HIDE DEF w, h
<1> QED BY <1>1, <1>2, <1>3

LEMMA FloatBack ==
  ASSUME NEW p, p.min_val \in Floats, p.max_val \in Floats,
         NEW v \in Floats, v # INFINITY, v # -INFINITY,
         p.min_val # p.max_val => v \in p.min_val .. p.max_val
  PROVE  LET back == strtof(WithoutLastDigit(v)) IN
         /\ v - back \in -18 .. 18
         /\ p.min_val % 10 = 0 /\ p.max_val % 10 = 0 => ~OutOfRange(p, back)
<1> DEFINE shown == IF v < 0 THEN -((-v) \div 10) * 10 ELSE (v \div 10) * 10
           back == strtof(WithoutLastDigit(v))
           a == p.min_val
           b == p.max_val
<1>0. v \in Int /\ a \in Int /\ b \in Int BY FloatsAreInt
<1>1. WithoutLastDigit(v) = shown BY <1>0, NumeralsAssumption DEF WithoutLastDigit
<1>2. /\ v >= 0 => shown \in Int /\ shown <= v /\ v - shown <= 9 /\ shown >= 0
      /\ v < 0 => shown \in Int /\ shown >= v /\ v - shown >= -9 /\ shown <= 0
  <2>1. CASE v >= 0 BY <1>0, <2>1
  <2>2. CASE v < 0 BY <1>0, <2>2
  <2> QED BY <1>0, <2>1, <2>2
<1>3. ASSUME a % 10 = 0, b % 10 = 0, a # b PROVE a <= shown /\ shown <= b
  <2>1. a <= v /\ v <= b BY <1>0, <1>3
  <2>2. a = 10 * (a \div 10) /\ b = 10 * (b \div 10) BY <1>0, <1>3
  <2>3. \E k \in Int : shown = 10 * k
    <3>1. CASE v >= 0 BY <1>0, <3>1
    <3>2. CASE v < 0
      <4>1. -((-v) \div 10) \in Int /\ shown = 10 * (-((-v) \div 10)) BY <1>0, <3>2
      <4> QED BY <4>1, Zenon
    <3> QED BY <1>0, <3>1, <3>2
  <2>4. PICK k \in Int : shown = 10 * k BY <2>3
  <2> HIDE DEF shown
  <2> QED BY <1>0, <1>2, <2>1, <2>2, <2>4
<1>4. shown \in Int BY <1>0, <1>2
<1> HIDE DEF shown
<1>5. back \in Floats /\ Distance(back, shown) <= Distance(v, shown) BY <1>1, <1>4, Nearest
<1>6. back \in Int BY <1>5, FloatsAreInt
<1>7. a % 10 = 0 /\ b % 10 = 0 /\ a # b => a <= back /\ back <= b
  BY <1>1, <1>3, <1>4, NearestStays
<1> HIDE DEF back
<1>8. v - back \in -18 .. 18
  <2>1. Distance(v, shown) <= 9 BY <1>0, <1>2 DEF Distance
  <2>2. v - shown \in -9 .. 9 BY <1>0, <1>2
  <2>3. Distance(back, shown) <= 9 BY <1>0, <1>4, <1>5, <1>6, <2>1 DEF Distance
  <2>4. back - shown \in -9 .. 9 BY <1>4, <1>6, <2>3 DEF Distance
  <2> QED BY <1>0, <1>4, <1>6, <2>2, <2>4
<1>9. a % 10 = 0 /\ b % 10 = 0 => ~OutOfRange(p, back)
  BY <1>0, <1>6, <1>7, NumeralsAssumption DEF OutOfRange, Less
<1> QED BY <1>8, <1>9 DEF back

LEMMA ShownBack == ValuesFit /\ InListedRange => ShownSetsBack
<1> SUFFICES ASSUME ValuesFit, InListedRange PROVE ShownSetsBack OBVIOUS
<1> DEFINE Back(p, v) ==
      LET shown == Printed(p, v) IN
      CASE p.type = "uint32" /\ v < 2^(WIDTH - 1) -> strtoul(shown) = v
        [] p.type = "int32" -> strtol(shown) = v
        [] p.type = "float" /\ v \notin {NaN, INFINITY, -INFINITY} ->
             /\ v - strtof(shown) \in -18 .. 18
             /\ p.min_val % 10 = 0 /\ p.max_val % 10 = 0 => ~OutOfRange(p, strtof(shown))
        [] OTHER -> TRUE
<1>1. ASSUME NEW name \in Names PROVE Back(Parameter(name), value[name])
  <2> DEFINE p == Parameter(name)
             v == value[name]
  <2>1. Fits(p, v) BY DEF ValuesFit
  <2>2. /\ p.type \in {"uint32", "int32", "float", "string"}
        /\ p.type = "float" => p.min_val \in Floats /\ p.max_val \in Floats
    BY ParameterOf
  <2>3. p.type # "string" /\ p.min_val # p.max_val => v \in {NaN} \cup p.min_val .. p.max_val
    BY Zenon DEF InListedRange
  <2> HIDE DEF p, v
  <2>4. ASSUME p.type = "uint32", v < 2^(WIDTH - 1) PROVE strtoul(Printed(p, v)) = v
    <3>1. Printed(p, v) = Shortened(Signed(v)) BY <2>4 DEF Printed
    <3> QED BY <2>1, <2>4, <3>1, UnsignedBack DEF Fits
  <2>5. ASSUME p.type = "int32" PROVE strtol(Printed(p, v)) = v
    <3>1. Printed(p, v) = Signed(v) BY <2>5 DEF Printed
    <3> QED BY <2>1, <2>5, <3>1, SignedBack DEF Fits
  <2>6. ASSUME p.type = "float", v \notin {NaN, INFINITY, -INFINITY}
        PROVE  LET back == strtof(Printed(p, v)) IN
               /\ v - back \in -18 .. 18
               /\ p.min_val % 10 = 0 /\ p.max_val % 10 = 0 => ~OutOfRange(p, back)
    <3>1. Printed(p, v) = WithoutLastDigit(v) BY <2>6 DEF Printed
    <3>2. v \in Floats /\ (p.min_val # p.max_val => v \in p.min_val .. p.max_val)
      BY <2>1, <2>3, <2>6 DEF Fits
    <3> QED BY <2>2, <2>6, <3>1, <3>2, FloatBack
  <2>7. Back(p, v)
    <3> HIDE DEF ShownSetsBack
    <3> QED BY <2>2, <2>4, <2>5, <2>6
  <2> QED BY <2>7 DEF p, v
<1> QED BY <1>1, Zenon DEF ShownSetsBack

\* For every set of parameters, width of an integer and set of floats: what
\* print_parameter_value shows is what set_parameter_value takes it for, for
\* every int32, every uint32 below 2^(WIDTH-1) and, but for the digit that is
\* cut, every finite float.
THEOREM ShownIsSetBack == Spec => []ShownSetsBack
<1>1. ValuesInRange => InListedRange BY DEF ValuesInRange
<1>2. Init => LineFits /\ ValuesFit BY InitFits, InitValuesFit
<1>3. LineFits /\ ValuesFit /\ [Next]_vars => (LineFits /\ ValuesFit)'
  BY NextFits, NextValuesFit
<1> QED BY <1>1, <1>2, <1>3, InitInRange, NextInRange, ShownBack, PTL DEF Spec

----------------------------------------------------------------------------
(* Recursion over a text: there is a function as write defines one, found by *)
(* looking at the least place where there would not be.                      *)

Continues(f, n, S, s, g) ==
  f \in [0 .. n -> S] /\ f[0] = s /\ \A i \in 1 .. n : f[i] = g[<<f[i - 1], i>>]

LEMMA RecursionExists ==
  ASSUME NEW S, NEW s \in S, NEW n \in Nat, NEW g \in [S \X (1 .. n) -> S]
  PROVE  \E f : Continues(f, n, S, s, g)
<1> DEFINE P(m) == \E f : Continues(f, m, S, s, g)
           Bad == {m \in 0 .. n : ~P(m)}
<1>1. P(0)
  <2> DEFINE f == [i \in 0 .. 0 |-> s]
  <2>1. f \in [0 .. 0 -> S] /\ f[0] = s /\ \A i \in 1 .. 0 : FALSE OBVIOUS
  <2>2. Continues(f, 0, S, s, g) BY <2>1, Zenon DEF Continues
  <2> QED BY <2>2
<1>2. ASSUME NEW m \in 1 .. n, P(m - 1) PROVE P(m)
  <2>1. PICK h : Continues(h, m - 1, S, s, g) BY <1>2
  <2> DEFINE last == g[<<h[m - 1], m>>]
             f == [i \in 0 .. m |-> IF i = m THEN last ELSE h[i]]
  <2>2. /\ h \in [0 .. m - 1 -> S] /\ h[0] = s
        /\ \A i \in 1 .. m - 1 : h[i] = g[<<h[i - 1], i>>]
    BY <2>1 DEF Continues
  <2>3. m \in Nat /\ m > 0 /\ m - 1 \in 0 .. m - 1 BY <1>2
  <2>4. last \in S
    <3>1. h[m - 1] \in S BY <2>2, <2>3
    <3>2. <<h[m - 1], m>> \in S \X (1 .. n) BY <3>1
    <3> QED BY <3>2
  <2>5. f \in [0 .. m -> S]
    <3>1. \A i \in 0 .. m : i = m \/ i \in 0 .. m - 1 BY <2>3
    <3> HIDE DEF last
    <3> QED BY <2>2, <2>4, <3>1
  <2>6. f[0] = s BY <2>2, <2>3
  <2>7. ASSUME NEW i \in 1 .. m PROVE f[i] = g[<<f[i - 1], i>>]
    <3>1. i - 1 \in 0 .. m /\ i - 1 # m /\ i \in 0 .. m BY <2>3
    <3>2. f[i - 1] = h[i - 1] BY <3>1
    <3>3. CASE i = m BY <3>1, <3>2, <3>3
    <3>4. CASE i # m
      <4>1. i \in 1 .. m - 1 BY <2>3, <3>4
      <4>2. f[i] = h[i] BY <3>1, <3>4
      <4> QED BY <2>2, <3>2, <4>1, <4>2
    <3> QED BY <3>3, <3>4
  <2>8. Continues(f, m, S, s, g)
    <3> HIDE DEF f
    <3> QED BY <2>5, <2>6, <2>7, Zenon DEF Continues
  <2> QED BY <2>8
<1>3. Bad = {}
  <2> SUFFICES ASSUME Bad # {} PROVE FALSE OBVIOUS
  <2>1. Bad \in SUBSET Nat BY DEF Bad
  <2>2. PICK m \in Bad : \A k \in Bad : m <= k
    <3> HIDE DEF Bad
    <3> QED BY <2>1, LeastNumber
  <2> HIDE DEF P
  <2>3. m # 0 BY <1>1
  <2>4. m \in 1 .. n /\ m - 1 \in 0 .. n /\ ~(m <= m - 1) BY <2>3
  <2>5. P(m - 1) BY <2>2, <2>4
  <2> QED BY <1>2, <2>4, <2>5
<1> HIDE DEF P
<1>4. P(n) BY <1>3
<1> QED BY <1>4 DEF P

----------------------------------------------------------------------------
(* The terminal.                                                            *)

\* Screens of the characters of K, with the cursor at most behind the row.
Screens(K) == {s \in [row : Seq(K), col : Nat] : s.col <= Len(s.row)}

Cleared == [row |-> <<>>, col |-> 0]

Tabbed(s) ==
  LET stop == (s.col \div TABSTOP + 1) * TABSTOP
  IN IF stop > COLUMNS THEN s
     ELSE [row |-> s.row \o [i \in 1 .. stop - Len(s.row) |-> " "], col |-> stop]

\* (Names for two characters: the provers reason less about strings.)
Sign == ">"
Space == " "

\* A character takes the place of the one under the cursor.
Overwritten(s, k, r) ==
  /\ r.col = s.col + 1
  /\ Len(r.row) = IF s.col < Len(s.row) THEN Len(s.row) ELSE s.col + 1
  /\ \A i \in 1 .. Len(r.row) : r.row[i] = IF i = s.col + 1 THEN k ELSE s.row[i]

\* No control key is another one.
LEMMA ControlKeys ==
  /\ CRLF # BS /\ CRLF \notin Controls /\ BS \notin Controls
  /\ TAB \in Controls /\ Space \notin Controls \cup {CRLF, BS}
  /\ Sign \notin Controls \cup {CRLF, BS}
BY DEF CRLF, BS, Controls, TAB, NUL, Space, Sign

LEMMA WriteKeyCases ==
  ASSUME NEW t, NEW k
  PROVE  /\ k = CRLF => WriteKey(t, k) = Cleared
         /\ k = BS => WriteKey(t, k) = [t EXCEPT !.col = IF @ = 0 THEN 0 ELSE @ - 1]
         /\ k = TAB => WriteKey(t, k) = Tabbed(t)
         /\ k \in Controls \ {TAB} => WriteKey(t, k) = t
         /\ k \notin Controls \cup {CRLF, BS} =>
              WriteKey(t, k) = [row |-> SubSeq(t.row, 1, t.col) \o <<k>>
                                          \o SubSeq(t.row, t.col + 2, Len(t.row)),
                                col |-> t.col + 1]
<1> DEFINE a == Cleared
           b == [t EXCEPT !.col = IF @ = 0 THEN 0 ELSE @ - 1]
           c == Tabbed(t)
           d == [row |-> SubSeq(t.row, 1, t.col) \o <<k>> \o SubSeq(t.row, t.col + 2, Len(t.row)),
                 col |-> t.col + 1]
<1>1. WriteKey(t, k) = CASE k = CRLF -> a [] k = BS -> b [] k = TAB -> c
                         [] k \in Controls \ {TAB} -> t [] OTHER -> d
  BY DEF WriteKey, Tabbed, Cleared
<1> HIDE DEF a, b, c, d
<1>2. /\ k = CRLF => WriteKey(t, k) = a
      /\ k = BS => WriteKey(t, k) = b
      /\ k = TAB => WriteKey(t, k) = c
      /\ k \in Controls \ {TAB} => WriteKey(t, k) = t
      /\ k \notin Controls \cup {CRLF, BS} => WriteKey(t, k) = d
  BY <1>1, ControlKeys
<1> QED BY <1>2 DEF a, b, c, d

LEMMA WriteCharacter ==
  ASSUME NEW K, NEW s \in Screens(K), NEW k \in K, k \notin Controls \cup {CRLF, BS}
  PROVE  WriteKey(s, k) \in Screens(K) /\ Overwritten(s, k, WriteKey(s, k))
<1> DEFINE before == SubSeq(s.row, 1, s.col)
           behind == SubSeq(s.row, s.col + 2, Len(s.row))
           n == Len(s.row)
           c == s.col
<1>1. WriteKey(s, k) = [row |-> before \o <<k>> \o behind, col |-> c + 1]
  BY WriteKeyCases
<1>2. s.row \in Seq(K) /\ c \in Nat /\ n \in Nat /\ c <= n
  <2>1. s.row \in Seq(K) /\ c \in Nat /\ c <= n BY DEF Screens
  <2> QED BY <2>1, LenProperties
<1>3. \A i \in 1 .. n : s.row[i] \in K BY <1>2, ElementOfSeq
<1>4. /\ before \in Seq(K) /\ Len(before) = c
      /\ \A i \in 1 .. c : before[i] = s.row[i]
  <2>1. 1 \in Int /\ c \in Int /\ \A i \in 1 .. c : s.row[i] \in K BY <1>2, <1>3
  <2>2. /\ before \in Seq(K) /\ Len(before) = IF 1 <= c THEN c - 1 + 1 ELSE 0
        /\ \A i \in 1 .. c - 1 + 1 : before[i] = s.row[1 + i - 1]
    BY <2>1, SubSeqProperties
  <2> HIDE DEF before, c
  <2> QED BY <1>2, <2>2
<1>5. /\ behind \in Seq(K) /\ Len(behind) = IF c < n THEN n - c - 1 ELSE 0
      /\ \A i \in 1 .. Len(behind) : behind[i] = s.row[c + 1 + i]
  <2> DEFINE a == c + 2
  <2>1. a \in Int /\ n \in Int /\ \A i \in a .. n : s.row[i] \in K BY <1>2, <1>3
  <2>2. behind = SubSeq(s.row, a, n) OBVIOUS
  <2> HIDE DEF behind, a, n
  <2>3. /\ behind \in Seq(K) /\ Len(behind) = IF a <= n THEN n - a + 1 ELSE 0
        /\ \A i \in 1 .. n - a + 1 : behind[i] = s.row[a + i - 1]
    BY <2>1, <2>2, SubSeqProperties
  <2> HIDE DEF c
  <2>4. a = c + 2 BY DEF a
  <2>5. Len(behind) = IF c < n THEN n - c - 1 ELSE 0 BY <1>2, <2>3, <2>4
  <2>6. ASSUME NEW i \in 1 .. Len(behind) PROVE behind[i] = s.row[c + 1 + i]
    <3>1. i \in 1 .. n - a + 1 /\ a + i - 1 = c + 1 + i BY <1>2, <2>4, <2>5, <2>6
    <3> QED BY <2>3, <3>1
  <2> QED BY <2>3, <2>5, <2>6
<1> HIDE DEF before, behind
<1>6. <<k>> \in Seq(K) /\ Len(<<k>>) = 1 /\ <<k>>[1] = k OBVIOUS
<1> DEFINE q == before \o <<k>>
<1>7. /\ q \in Seq(K) /\ Len(q) = c + 1
      /\ \A i \in 1 .. c + 1 : q[i] = IF i <= c THEN before[i] ELSE <<k>>[i - c]
  BY <1>2, <1>4, <1>6, ConcatProperties
<1>8. \A i \in 1 .. c + 1 : q[i] = IF i = c + 1 THEN k ELSE s.row[i]
  <2> SUFFICES ASSUME NEW i \in 1 .. c + 1 PROVE q[i] = IF i = c + 1 THEN k ELSE s.row[i]
    OBVIOUS
  <2> HIDE DEF q, c
  <2>1. CASE i = c + 1
    <3>1. ~(i <= c) /\ i - c = 1 BY <1>2, <2>1
    <3> QED BY <1>6, <1>7, <2>1, <3>1
  <2>2. CASE i # c + 1
    <3>1. i <= c /\ i \in 1 .. c BY <1>2, <2>2
    <3> QED BY <1>4, <1>7, <2>2, <3>1
  <2> QED BY <2>1, <2>2
<1> DEFINE row == q \o behind
<1> HIDE DEF q
<1>9. /\ row \in Seq(K) /\ Len(row) = c + 1 + Len(behind)
      /\ \A i \in 1 .. c + 1 + Len(behind) :
           row[i] = IF i <= c + 1 THEN q[i] ELSE behind[i - (c + 1)]
  BY <1>5, <1>7, ConcatProperties
<1>10. WriteKey(s, k) = [row |-> row, col |-> c + 1] BY <1>1 DEF q
<1> HIDE DEF row, c, n
<1>11. Len(row) = IF c < n THEN n ELSE c + 1 BY <1>2, <1>5, <1>9
<1>12. ASSUME NEW i \in 1 .. Len(row) PROVE row[i] = IF i = c + 1 THEN k ELSE s.row[i]
  <2>1. CASE i <= c + 1
    <3>1. i \in 1 .. c + 1 BY <1>2, <2>1
    <3> QED BY <1>8, <1>9, <1>12, <2>1, <3>1
  <2>2. CASE ~(i <= c + 1)
    <3>1. i - (c + 1) \in 1 .. Len(behind) /\ c + 1 + (i - (c + 1)) = i
      BY <1>2, <1>5, <1>9, <1>12, <2>2
    <3>2. row[i] = behind[i - (c + 1)] BY <1>9, <1>12, <2>2
    <3> QED BY <1>2, <1>5, <2>2, <3>1, <3>2
  <2> QED BY <2>1, <2>2
<1>13. c + 1 \in Nat /\ c + 1 <= Len(row) BY <1>2, <1>11
<1> QED BY <1>9, <1>10, <1>11, <1>12, <1>13 DEF Screens, Overwritten, c, n

LEMMA WriteControl ==
  ASSUME NEW K, NEW s \in Screens(K)
  PROVE  /\ WriteKey(s, CRLF) = Cleared
         /\ WriteKey(s, BS) = [s EXCEPT !.col = IF @ = 0 THEN 0 ELSE @ - 1]
BY WriteKeyCases

\* A tab fills the row with blanks up to the stop.
LEMMA TabStays ==
  ASSUME NEW K, Space \in K, NEW s \in Screens(K)
  PROVE  Tabbed(s) \in Screens(K)
<1> DEFINE stop == (s.col \div TABSTOP + 1) * TABSTOP
           m == stop - Len(s.row)
           blanks == [i \in 1 .. m |-> " "]
<1>1. s.row \in Seq(K) /\ s.col \in Nat /\ s.col <= Len(s.row) /\ Len(s.row) \in Nat
  <2>1. s.row \in Seq(K) /\ s.col \in Nat /\ s.col <= Len(s.row) BY DEF Screens
  <2> QED BY <2>1, LenProperties
<1>2. stop \in Nat
  <2>1. TABSTOP \in Nat /\ TABSTOP > 0 BY ConsoleAssumption
  <2>2. s.col \div TABSTOP \in Nat BY <1>1, <2>1
  <2> DEFINE q == s.col \div TABSTOP + 1
  <2>3. q \in Nat BY <2>2
  <2> HIDE DEF q
  <2>4. q * TABSTOP \in Nat BY <2>1, <2>3
  <2> QED BY <2>4 DEF q
<1>3. Tabbed(s) = IF stop > COLUMNS THEN s ELSE [row |-> s.row \o blanks, col |-> stop]
  BY Zenon DEF Tabbed
<1> HIDE DEF stop
<1> DEFINE n == IF m > 0 THEN m ELSE 0
<1>4. blanks \in Seq(K) /\ Len(blanks) = n
  <2>1. n \in Nat /\ 1 .. m = 1 .. n BY <1>1, <1>2
  <2>2. blanks \in [1 .. n -> K]
    <3> HIDE DEF m, n
    <3> QED BY <2>1 DEF Space
  <2> HIDE DEF blanks, n
  <2>3. blanks \in Seq(K) BY <2>1, <2>2, SeqDef
  <2>4. DOMAIN blanks = 1 .. n /\ DOMAIN blanks = 1 .. Len(blanks) /\ Len(blanks) \in Nat
    BY <2>2, <2>3, LenProperties
  <2> QED BY <2>1, <2>3, <2>4
<1>5. CASE stop > COLUMNS BY <1>3, <1>5
<1>6. CASE ~(stop > COLUMNS)
  <2> DEFINE row == s.row \o blanks
  <2>1. row \in Seq(K) /\ stop <= Len(row)
    <3> HIDE DEF blanks, n
    <3>1. row \in Seq(K) /\ Len(row) = Len(s.row) + Len(blanks) BY <1>1, <1>4, ConcatProperties
    <3>2. Len(blanks) = IF stop - Len(s.row) > 0 THEN stop - Len(s.row) ELSE 0 BY <1>4 DEF n
    <3> DEFINE a == Len(s.row)
               b == Len(blanks)
    <3>3. a \in Nat /\ b = (IF stop - a > 0 THEN stop - a ELSE 0) BY <1>1, <3>2
    <3> HIDE DEF a, b, row
    <3>4. stop <= a + b BY <1>2, <3>3
    <3> QED BY <3>1, <3>4 DEF a, b
  <2>2. Tabbed(s) = [row |-> row, col |-> stop] BY <1>3, <1>6
  <2> HIDE DEF row
  <2> QED BY <1>2, <2>1, <2>2 DEF Screens
<1> QED BY <1>5, <1>6

LEMMA ClearedIsAScreen == \A K : Cleared \in Screens(K)
BY EmptySeq DEF Cleared, Screens

LEMMA BackStays ==
  ASSUME NEW K, NEW s \in Screens(K)
  PROVE  WriteKey(s, BS) \in Screens(K)
<1>1. WriteKey(s, BS) = [s EXCEPT !.col = IF @ = 0 THEN 0 ELSE @ - 1] BY WriteControl
<1>2. s.col \in Nat /\ s.row \in Seq(K) /\ s.col <= Len(s.row) /\ Len(s.row) \in Nat
  <2>1. s.col \in Nat /\ s.row \in Seq(K) /\ s.col <= Len(s.row) BY DEF Screens
  <2> QED BY <2>1, LenProperties
<1>3. s \in [row : Seq(K), col : Nat] BY DEF Screens
<1> QED BY <1>1, <1>2, <1>3 DEF Screens

LEMMA WriteStays ==
  ASSUME NEW K, Space \in K, NEW s \in Screens(K), NEW k \in K
  PROVE  WriteKey(s, k) \in Screens(K)
<1>1. CASE k = CRLF BY <1>1, WriteControl, ClearedIsAScreen
<1>2. CASE k = BS BY <1>2, BackStays
<1>3. CASE k = TAB
  <2>1. WriteKey(s, k) = Tabbed(s) BY <1>3, WriteKeyCases
  <2> QED BY <2>1, TabStays
<1>4. CASE k \in Controls \ {TAB} BY <1>4, WriteKeyCases
<1>5. CASE k \notin Controls \cup {CRLF, BS} BY <1>5, WriteCharacter
<1> QED BY <1>1, <1>2, <1>3, <1>4, <1>5

\* write: one key after the other.
LEMMA WriteUnrolled ==
  ASSUME NEW K, Space \in K, NEW s \in Screens(K), NEW text \in Seq(K)
  PROVE  \E f : /\ f[0] = s /\ write(s, text) = f[Len(text)]
                /\ \A i \in 1 .. Len(text) : f[i] = WriteKey(f[i - 1], text[i])
<1> DEFINE n == Len(text)
           g == [x \in Screens(K) \X (1 .. n) |-> WriteKey(x[1], text[x[2]])]
<1>1. n \in Nat BY LenProperties
<1>2. g \in [Screens(K) \X (1 .. n) -> Screens(K)]
  <2>1. ASSUME NEW x \in Screens(K) \X (1 .. n) PROVE WriteKey(x[1], text[x[2]]) \in Screens(K)
    <3>1. x[1] \in Screens(K) /\ x[2] \in 1 .. n OBVIOUS
    <3>2. text[x[2]] \in K BY <3>1, ElementOfSeq
    <3> QED BY <3>1, <3>2, WriteStays
  <2> QED BY <2>1
<1> HIDE DEF n
<1>3. PICK h : Continues(h, n, Screens(K), s, g)
  <2> HIDE DEF g
  <2> QED BY <1>1, <1>2, RecursionExists
<1>4. \A i \in 1 .. n : h[i] = WriteKey(h[i - 1], text[i])
  <2> SUFFICES ASSUME NEW i \in 1 .. n PROVE h[i] = WriteKey(h[i - 1], text[i]) OBVIOUS
  <2>1. h \in [0 .. n -> Screens(K)] /\ h[i] = g[<<h[i - 1], i>>] BY <1>3 DEF Continues
  <2>2. i - 1 \in 0 .. n BY <1>1
  <2>3. <<h[i - 1], i>> \in Screens(K) \X (1 .. n) BY <2>1, <2>2
  <2> QED BY <2>1, <2>3
<1>5. h = [i \in 0 .. n |-> IF i = 0 THEN s ELSE WriteKey(h[i - 1], text[i])]
  <2>1. h \in [0 .. n -> Screens(K)] /\ h[0] = s BY <1>3 DEF Continues
  <2>2. \A i \in 0 .. n : i = 0 \/ i \in 1 .. n BY <1>1
  <2>3. ASSUME NEW i \in 0 .. n
        PROVE  h[i] = IF i = 0 THEN s ELSE WriteKey(h[i - 1], text[i])
    BY <1>4, <2>1, <2>2
  <2> QED BY <2>1, <2>3
<1> DEFINE f == CHOOSE after : after = [i \in 0 .. n |-> IF i = 0 THEN s
                                                   ELSE WriteKey(after[i - 1], text[i])]
<1>6. f = [i \in 0 .. n |-> IF i = 0 THEN s ELSE WriteKey(f[i - 1], text[i])]
  BY <1>5, Zenon
<1>7. write(s, text) = f[n] BY Zenon DEF write, n
<1> HIDE DEF f
<1>8. f[0] = s /\ \A i \in 1 .. n : f[i] = WriteKey(f[i - 1], text[i])
  <2>1. 0 \in 0 .. n BY <1>1
  <2>2. \A i \in 1 .. n : i \in 0 .. n /\ i # 0 BY <1>1
  <2> QED BY <1>6, <2>1, <2>2
<1> QED BY <1>7, <1>8 DEF n

LEMMA WriteScreens ==
  ASSUME NEW K, Space \in K, NEW s \in Screens(K), NEW text \in Seq(K)
  PROVE  write(s, text) \in Screens(K)
<1> DEFINE n == Len(text)
<1>1. n \in Nat BY LenProperties
<1>2. PICK f : /\ f[0] = s /\ write(s, text) = f[Len(text)]
               /\ \A i \in 1 .. Len(text) : f[i] = WriteKey(f[i - 1], text[i])
  BY WriteUnrolled
<1>3. f[n] \in Screens(K)
  <2> DEFINE Bad == {i \in 0 .. n : f[i] \notin Screens(K)}
  <2>1. Bad = {}
    <3> SUFFICES ASSUME Bad # {} PROVE FALSE OBVIOUS
    <3>1. Bad \in SUBSET Nat OBVIOUS
    <3>2. PICK m \in Bad : \A i \in Bad : m <= i
      <4> HIDE DEF Bad
      <4> QED BY <3>1, LeastNumber
    <3>3. m # 0 BY <1>2, <3>2
    <3>4. m \in 1 .. n /\ m - 1 \in 0 .. n /\ ~(m <= m - 1) BY <1>1, <3>3
    <3>5. f[m - 1] \in Screens(K) BY <3>2, <3>4
    <3>6. text[m] \in K BY <3>4, ElementOfSeq DEF n
    <3>7. f[m] \in Screens(K) BY <1>2, <3>4, <3>5, <3>6, WriteStays
    <3> QED BY <3>2, <3>7
  <2>2. n \in 0 .. n BY <1>1
  <2> QED BY <2>1, <2>2
<1> QED BY <1>2, <1>3 DEF n

----------------------------------------------------------------------------
(* What the commands write ends with the end of a line.                     *)

Text(q) == q \in Seq({q[i] : i \in DOMAIN q})
EndsLine(q) == Text(q) /\ Len(q) > 0 /\ q[Len(q)] = CRLF

LEMMA SeqIsText ==
  ASSUME NEW K, NEW q \in Seq(K)
  PROVE  Text(q) /\ Len(q) \in Nat
<1>1. Len(q) \in Nat /\ DOMAIN q = 1 .. Len(q) /\ q \in [1 .. Len(q) -> K] BY LenProperties
<1> DEFINE S == {q[i] : i \in DOMAIN q}
<1>2. q \in [1 .. Len(q) -> S] BY <1>1
<1> HIDE DEF S
<1>3. q \in Seq(S) BY <1>1, <1>2, SeqDef
<1> QED BY <1>1, <1>3 DEF Text, S

\* Two texts make one, of the keys of both.
LEMMA JoinedTexts ==
  ASSUME NEW a, NEW b, Text(a), Text(b)
  PROVE  /\ Text(a \o b) /\ Len(a \o b) = Len(a) + Len(b)
         /\ Len(a) \in Nat /\ Len(b) \in Nat
         /\ \A i \in 1 .. Len(a) + Len(b) :
              (a \o b)[i] = IF i <= Len(a) THEN a[i] ELSE b[i - Len(a)]
<1> DEFINE A == {a[i] : i \in DOMAIN a}
           B == {b[i] : i \in DOMAIN b}
<1>1. a \in Seq(A) /\ b \in Seq(B) BY DEF Text
<1> HIDE DEF A, B
<1>2. A \subseteq A \cup B /\ B \subseteq A \cup B OBVIOUS
<1>3. a \in Seq(A \cup B) /\ b \in Seq(A \cup B) BY <1>1, <1>2, SeqMonotonic
<1>4. /\ a \o b \in Seq(A \cup B) /\ Len(a \o b) = Len(a) + Len(b)
      /\ \A i \in 1 .. Len(a) + Len(b) :
           (a \o b)[i] = IF i <= Len(a) THEN a[i] ELSE b[i - Len(a)]
  BY <1>3, ConcatProperties
<1> QED BY <1>1, <1>4, SeqIsText

LEMMA JoinedEnds ==
  ASSUME NEW a, NEW b, Text(a), EndsLine(b)
  PROVE  EndsLine(a \o b)
<1>1. Text(b) /\ Len(b) > 0 /\ b[Len(b)] = CRLF BY DEF EndsLine
<1>2. /\ Text(a \o b) /\ Len(a \o b) = Len(a) + Len(b)
      /\ Len(a) \in Nat /\ Len(b) \in Nat
      /\ \A i \in 1 .. Len(a) + Len(b) :
           (a \o b)[i] = IF i <= Len(a) THEN a[i] ELSE b[i - Len(a)]
  BY <1>1, JoinedTexts
<1> DEFINE m == Len(a) + Len(b)
<1>3. m \in 1 .. Len(a) + Len(b) /\ ~(m <= Len(a)) /\ m - Len(a) = Len(b) BY <1>1, <1>2
<1>4. (a \o b)[m] = b[Len(b)] BY <1>2, <1>3
<1> QED BY <1>1, <1>2, <1>3, <1>4 DEF EndsLine

LEMMA ShortLines == EndsLine(<<CRLF>>) /\ EndsLine(Answer)
<1>1. EndsLine(<<CRLF>>)
  <2> DEFINE q == <<CRLF>>
  <2>1. q \in Seq({CRLF}) /\ Len(q) = 1 /\ q[1] = CRLF OBVIOUS
  <2> HIDE DEF q
  <2>2. EndsLine(q) BY <2>1, SeqIsText DEF EndsLine
  <2> QED BY <2>2 DEF q
<1>2. EndsLine(Answer)
  <2>1. Answer \in Seq({"text", CRLF}) /\ Len(Answer) = 2 /\ Answer[2] = CRLF BY DEF Answer
  <2> QED BY <2>1, SeqIsText DEF EndsLine
<1> QED BY <1>1, <1>2

\* Whole lines, or nothing for a line without a word.
LEMMA CommandOutput ==
  ASSUME NEW command
  PROVE  \/ console_execute_command(command).out = <<>>
         \/ EndsLine(console_execute_command(command).out)
<1> DEFINE tokens == Tokens(strcopy(command, BUFFER))
           name == find_parameter(tokens[2])
           result == set_parameter_value(Parameter(name), tokens[3])
           changed == [out |-> Answer, name |-> name, val |-> result.val]
           done == console_execute_command(command)
<1>1. Says.out = Answer /\ [Says EXCEPT !.out = <<>>].out = <<>> BY DEF Says
<1> HIDE DEF tokens
<1>2. set(tokens) = Says \/ set(tokens) = changed BY Zenon DEF set
<1>3. changed.out = Answer OBVIOUS
<1>4. done = [Says EXCEPT !.out = <<>>] \/ done = Says \/ done = set(tokens)
  BY Zenon DEF console_execute_command, tokens
<1> HIDE DEF changed, done
<1>5. done.out = <<>> \/ done.out = Answer BY <1>1, <1>2, <1>3, <1>4, Zenon
<1> QED BY <1>5, ShortLines, Zenon DEF done

----------------------------------------------------------------------------
(* What the terminal shows.                                                 *)

\* What has a place in the row: keys of one column, and what the console writes
\* itself. Other keys may be shown by a terminal as it likes.
Glyphs == (Keys \ Controls) \cup {Sign, Space}
Drawn == Keys \cup {Sign, Space}

\* The screen shows the prompt and the line l, the cursor behind them, and
\* nothing else.
Shows(s, l) ==
  /\ s \in Screens(Glyphs) /\ s.col = Len(l) + 2
  /\ s.row[1] = Sign /\ s.row[2] = Space
  /\ \A i \in 1 .. Len(l) : s.row[i + 2] = l[i]
  /\ \A i \in s.col + 1 .. Len(s.row) : s.row[i] = Space

\* No glyph is a control key: it takes its place on the screen.
LEMMA GlyphsAreCharacters == \A k \in Glyphs : k \notin Controls \cup {CRLF, BS}
BY KeysAssumption, ControlKeys DEF Glyphs

LEMMA GlyphsAreDrawn == Glyphs \subseteq Drawn /\ Space \in Glyphs /\ Sign \in Glyphs
BY DEF Glyphs, Drawn

LEMMA PromptKeys ==
  /\ Prompt \in Seq(Glyphs) /\ Len(Prompt) = 2 /\ Prompt[1] = Sign /\ Prompt[2] = Space
<1>1. Prompt = <<Sign, Space>> BY DEF Prompt, Sign, Space
<1>2. Sign \in Glyphs /\ Space \in Glyphs BY DEF Glyphs
<1> HIDE DEF Glyphs
<1> QED BY <1>1, <1>2

LEMMA MoreScreens ==
  ASSUME NEW K, NEW L, K \subseteq L
  PROVE  Screens(K) \subseteq Screens(L)
<1>1. Seq(K) \subseteq Seq(L) BY SeqMonotonic
<1> QED BY <1>1 DEF Screens

LEMMA ScreenParts ==
  ASSUME NEW K, NEW s \in Screens(K)
  PROVE  /\ s.row \in Seq(K) /\ s.col \in Nat /\ Len(s.row) \in Nat /\ s.col <= Len(s.row)
         /\ s = [row |-> s.row, col |-> s.col]
<1>1. s.row \in Seq(K) /\ s.col \in Nat /\ s.col <= Len(s.row) BY DEF Screens
<1>2. s \in [row : Seq(K), col : Nat] BY DEF Screens
<1> QED BY <1>1, <1>2, LenProperties

\* The prompt on an empty row.
LEMMA PromptOnEmptyRow ==
  Shows(WriteKey(WriteKey(Cleared, Sign), Space), <<>>)
<1> DEFINE a == WriteKey(Cleared, Sign)
           b == WriteKey(a, Space)
<1>1. Sign \in Glyphs /\ Space \in Glyphs BY DEF Glyphs
<1>2. /\ Sign \notin Controls \cup {CRLF, BS} /\ Space \notin Controls \cup {CRLF, BS}
  BY ControlKeys
<1>3. Cleared \in Screens(Glyphs) BY ClearedIsAScreen
<1>4. a \in Screens(Glyphs) /\ Overwritten(Cleared, Sign, a) BY <1>1, <1>2, <1>3, WriteCharacter
<1> HIDE DEF a
<1>5. b \in Screens(Glyphs) /\ Overwritten(a, Space, b) BY <1>1, <1>2, <1>4, WriteCharacter
<1> HIDE DEF b
<1>6. Cleared.col = 0 /\ Len(Cleared.row) = 0 BY DEF Cleared
<1>7. a.col = 1 /\ Len(a.row) = 1 /\ a.row[1] = Sign BY <1>4, <1>6 DEF Overwritten
<1>8. /\ b.col = 2 /\ Len(b.row) = 2 /\ b.row[1] = Sign /\ b.row[2] = Space
  BY <1>5, <1>7 DEF Overwritten
<1>9. Shows(b, <<>>) BY <1>5, <1>8 DEF Shows
<1> QED BY <1>9 DEF a, b

\* A key of one column is echoed (console_process).
LEMMA TypeShows ==
  ASSUME NEW k \in Keys \ Controls, LineFits, Shows(screen, line), Type(k)
  PROVE  Shows(screen', line')
<1>1. line \in Seq(Keys) /\ Len(line) \in Nat BY LenProperties DEF LineFits
<1>2. CASE Len(line) < BUFFER - 1
  <2>1. line' = Append(line, k) /\ screen' = write(screen, <<k>>) BY <1>2, Zenon DEF Type
  <2>2. /\ Len(line') = Len(line) + 1 /\ line'[Len(line) + 1] = k
        /\ \A i \in 1 .. Len(line) : line'[i] = line[i]
    BY <1>1, <2>1, AppendProperties
  <2>3. k \in Glyphs /\ k \notin Controls \cup {CRLF, BS} BY GlyphsAreCharacters DEF Glyphs
  <2>4. screen \in Screens(Glyphs) BY DEF Shows
  <2> DEFINE text == <<k>>
  <2>5. text \in Seq(Glyphs) /\ Len(text) = 1 /\ text[1] = k BY <2>3
  <2> HIDE DEF text
  <2>6. write(screen, text) = WriteKey(screen, k)
    <3>1. PICK f : /\ f[0] = screen /\ write(screen, text) = f[Len(text)]
                   /\ \A i \in 1 .. Len(text) : f[i] = WriteKey(f[i - 1], text[i])
      BY <2>4, <2>5, WriteUnrolled, GlyphsAreDrawn
    <3>2. f[1] = WriteKey(f[1 - 1], text[1]) BY <2>5, <3>1
    <3> QED BY <2>5, <3>1, <3>2
  <2>7. screen' = WriteKey(screen, k) BY <2>1, <2>6 DEF text
  <2>8. screen' \in Screens(Glyphs) /\ Overwritten(screen, k, screen')
    BY <2>3, <2>4, <2>7, WriteCharacter
  <2>9. screen.col = Len(line) + 2 /\ screen.col <= Len(screen.row) /\ Len(screen.row) \in Nat
    BY <2>4, ScreenParts DEF Shows
  <2> DEFINE c == screen.col
             n == Len(screen.row)
             n2 == Len(screen'.row)
  <2>10. screen'.col = c + 1 /\ n2 \in Nat /\ n2 >= c + 1
         /\ (c < n => n2 = n) /\ (c = n => n2 = n + 1)
         /\ \A i \in 1 .. n2 : screen'.row[i] = IF i = c + 1 THEN k ELSE screen.row[i]
    BY <2>8, <2>9 DEF Overwritten
  <2>11. screen'.col = Len(line') + 2 BY <1>1, <2>2, <2>9, <2>10
  <2>12. screen'.row[1] = Sign /\ screen'.row[2] = Space
    <3>1. 1 \in 1 .. n2 /\ 2 \in 1 .. n2 /\ c + 1 # 1 /\ c + 1 # 2 BY <1>1, <2>9, <2>10
    <3> QED BY <2>10, <3>1 DEF Shows
  <2>13. ASSUME NEW i \in 1 .. Len(line') PROVE screen'.row[i + 2] = line'[i]
    <3>1. i + 2 \in 1 .. n2 BY <1>1, <2>2, <2>9, <2>10, <2>13
    <3>2. CASE i = Len(line) + 1
      <4>1. i + 2 = c + 1 BY <1>1, <2>9, <3>2
      <4> QED BY <2>2, <2>10, <3>1, <3>2, <4>1
    <3>3. CASE i # Len(line) + 1
      <4>1. i \in 1 .. Len(line) /\ i + 2 # c + 1 BY <1>1, <2>2, <2>9, <3>3
      <4> QED BY <2>2, <2>10, <3>1, <4>1 DEF Shows
    <3> QED BY <3>2, <3>3
  <2>14. ASSUME NEW i \in screen'.col + 1 .. Len(screen'.row) PROVE screen'.row[i] = Space
    <3>1. i \in 1 .. n2 /\ i # c + 1 /\ i \in c + 1 .. n BY <1>1, <2>9, <2>10, <2>14
    <3> QED BY <2>10, <3>1 DEF Shows
  <2> QED BY <2>8, <2>11, <2>12, <2>13, <2>14 DEF Shows
<1>3. CASE ~(Len(line) < BUFFER - 1)
  <2>1. UNCHANGED <<line, screen>> BY <1>3, Zenon DEF Type
  <2> QED BY <2>1
<1> QED BY <1>2, <1>3

\* Backspace, blank and backspace again take away the last key, if there is
\* one: the prompt stays (console_process).
LEMMA BackspaceShows ==
  ASSUME LineFits, Shows(screen, line), Backspace
  PROVE  Shows(screen', line')
<1>1. line \in Seq(Keys) /\ Len(line) \in Nat BY LenProperties DEF LineFits
<1>2. CASE line = <<>>
  <2>1. UNCHANGED <<line, screen>> BY <1>2, Zenon DEF Backspace
  <2> QED BY <2>1
<1>3. CASE line # <<>>
  <2>1. /\ line' = SubSeq(line, 1, Len(line) - 1)
        /\ screen' = write(screen, <<BS, Space, BS>>)
    BY <1>3, Zenon DEF Backspace, Space
  <2>2. Len(line) >= 1 BY <1>1, <1>3, EmptySeq
  <2>3. /\ Len(line') = Len(line) - 1
        /\ \A i \in 1 .. Len(line) - 1 : line'[i] = line[i]
    <3> DEFINE m == Len(line) - 1
    <3>1. \A i \in 1 .. m : i \in 1 .. Len(line) BY <1>1
    <3>2. 1 \in Int /\ m \in Int /\ m >= 0 /\ \A i \in 1 .. m : line[i] \in Keys
      BY <1>1, <2>2, <3>1, ElementOfSeq
    <3> HIDE DEF m
    <3>3. /\ Len(SubSeq(line, 1, m)) = IF 1 <= m THEN m - 1 + 1 ELSE 0
          /\ \A i \in 1 .. m - 1 + 1 : SubSeq(line, 1, m)[i] = line[1 + i - 1]
      BY <3>2, SubSeqProperties
    <3>4. line' = SubSeq(line, 1, m) BY <2>1 DEF m
    <3>5. Len(line') = m BY <3>2, <3>3, <3>4
    <3>6. ASSUME NEW i \in 1 .. m PROVE line'[i] = line[i]
      <4>1. i \in 1 .. m - 1 + 1 /\ 1 + i - 1 = i BY <3>2
      <4> QED BY <3>3, <3>4, <4>1
    <3> QED BY <3>5, <3>6 DEF m
  <2>4. screen \in Screens(Glyphs) BY DEF Shows
  <2> DEFINE K == Glyphs \cup {BS}
             text == <<BS, Space, BS>>
             left == [screen EXCEPT !.col = @ - 1]
             blanked == WriteKey(left, Space)
  <2>5. text \in Seq(K) /\ Len(text) = 3 /\ text[1] = BS /\ text[2] = Space /\ text[3] = BS
    BY GlyphsAreDrawn
  <2>0. Space \in K BY GlyphsAreDrawn
  <2> HIDE DEF text
  <2>6. screen \in Screens(K)
    <3>1. Glyphs \subseteq K OBVIOUS
    <3> HIDE DEF K
    <3> QED BY <2>4, <3>1, MoreScreens
  <2> HIDE DEF K
  <2>7. PICK f : /\ f[0] = screen /\ write(screen, text) = f[Len(text)]
                 /\ \A i \in 1 .. Len(text) : f[i] = WriteKey(f[i - 1], text[i])
    BY <2>0, <2>5, <2>6, WriteUnrolled
  <2>8. f[1] = WriteKey(screen, BS) /\ f[2] = WriteKey(f[1], Space) /\ f[3] = WriteKey(f[2], BS)
    <3>1. /\ f[1] = WriteKey(f[1 - 1], text[1]) /\ f[2] = WriteKey(f[2 - 1], text[2])
          /\ f[3] = WriteKey(f[3 - 1], text[3])
      BY <2>5, <2>7
    <3> QED BY <2>5, <2>7, <3>1
  <2>9. /\ screen.row \in Seq(Glyphs) /\ screen.col \in Nat /\ Len(screen.row) \in Nat
        /\ screen.col <= Len(screen.row) /\ screen.col = Len(line) + 2
        /\ screen = [row |-> screen.row, col |-> screen.col]
    BY <2>4, ScreenParts DEF Shows
  <2> DEFINE c == screen.col
             n == Len(screen.row)
  <2>10. c >= 3 BY <1>1, <2>2, <2>9
  <2>11. f[1] = left
    <3>1. f[1] = [screen EXCEPT !.col = IF @ = 0 THEN 0 ELSE @ - 1] BY <2>4, <2>8, WriteControl
    <3> QED BY <2>9, <2>10, <3>1
  <2>12. left.row = screen.row /\ left.col = c - 1 /\ left \in Screens(Glyphs)
    BY <2>4, <2>9, <2>10 DEF Screens
  <2> HIDE DEF left
  <2>13. blanked \in Screens(Glyphs) /\ Overwritten(left, Space, blanked)
    <3>1. Space \in Glyphs BY DEF Glyphs
    <3>2. Space \notin Controls \cup {CRLF, BS} BY ControlKeys
    <3> QED BY <2>12, <3>1, <3>2, WriteCharacter
  <2>14. f[2] = blanked BY <2>8, <2>11
  <2> HIDE DEF blanked
  <2>15. /\ blanked.col = c /\ Len(blanked.row) = n
         /\ \A i \in 1 .. n : blanked.row[i] = IF i = c THEN Space ELSE screen.row[i]
    BY <2>9, <2>10, <2>12, <2>13 DEF Overwritten
  <2>16. screen' = [blanked EXCEPT !.col = IF @ = 0 THEN 0 ELSE @ - 1]
    <3>1. screen' = f[3] BY <2>1, <2>5, <2>7 DEF text
    <3>2. f[3] = [blanked EXCEPT !.col = IF @ = 0 THEN 0 ELSE @ - 1]
      BY <2>8, <2>13, <2>14, WriteControl
    <3> QED BY <3>1, <3>2
  <2>17. /\ blanked.row \in Seq(Glyphs) /\ blanked = [row |-> blanked.row, col |-> blanked.col]
    BY <2>13, ScreenParts
  <2>18. screen' = [row |-> blanked.row, col |-> c - 1] BY <2>9, <2>10, <2>15, <2>16, <2>17
  <2>19. screen'.row = blanked.row /\ screen'.col = c - 1 BY <2>18
  <2>20. screen' \in Screens(Glyphs) BY <2>9, <2>10, <2>15, <2>17, <2>18 DEF Screens
  <2>21. screen'.col = Len(line') + 2 BY <1>1, <2>3, <2>9, <2>19
  <2>22. screen'.row[1] = Sign /\ screen'.row[2] = Space
    <3>1. 1 \in 1 .. n /\ 2 \in 1 .. n /\ c # 1 /\ c # 2 BY <2>9, <2>10
    <3> QED BY <2>15, <2>19, <3>1 DEF Shows
  <2>23. ASSUME NEW i \in 1 .. Len(line') PROVE screen'.row[i + 2] = line'[i]
    <3>1. i + 2 \in 1 .. n /\ i + 2 # c /\ i \in 1 .. Len(line) - 1 /\ i \in 1 .. Len(line)
      BY <1>1, <2>3, <2>9, <2>23
    <3> QED BY <2>3, <2>15, <2>19, <3>1 DEF Shows
  <2>24. ASSUME NEW i \in screen'.col + 1 .. Len(screen'.row) PROVE screen'.row[i] = Space
    <3>1. i \in 1 .. n /\ (i = c \/ i \in c + 1 .. n) BY <2>9, <2>10, <2>15, <2>19, <2>24
    <3> QED BY <2>15, <2>19, <3>1 DEF Shows
  <2> QED BY <2>20, <2>21, <2>22, <2>23, <2>24 DEF Shows
<1> QED BY <1>2, <1>3

\* Whatever a command writes, the row is empty when the prompt is written.
LEMMA PromptShows ==
  ASSUME NEW s \in Screens(Drawn), NEW q, EndsLine(q)
  PROVE  Shows(write(s, q \o Prompt), <<>>)
<1> DEFINE n == Len(q)
           Q == {q[i] : i \in DOMAIN q}
           K == Q \cup Drawn
           text == q \o Prompt
<1>1. q \in Seq(Q) /\ n > 0 /\ q[n] = CRLF BY DEF EndsLine, Text
<1>2. Prompt \in Seq(Glyphs) /\ Len(Prompt) = 2 /\ Prompt[1] = Sign /\ Prompt[2] = Space
  BY PromptKeys
<1>3. n \in Nat BY <1>1, LenProperties
<1>4. Q \subseteq K /\ Drawn \subseteq K /\ Glyphs \subseteq K /\ Space \in K
  BY GlyphsAreDrawn
<1> HIDE DEF Q, K
<1>5. q \in Seq(K) /\ Prompt \in Seq(K) BY <1>1, <1>2, <1>4, SeqMonotonic
<1>6. s \in Screens(K) BY <1>4, MoreScreens
<1> HIDE DEF n
<1>7. /\ text \in Seq(K) /\ Len(text) = n + 2
      /\ \A i \in 1 .. n + 2 : text[i] = IF i <= n THEN q[i] ELSE Prompt[i - n]
  <2>1. /\ text \in Seq(K) /\ Len(text) = Len(q) + Len(Prompt)
        /\ \A i \in 1 .. Len(q) + Len(Prompt) :
             text[i] = IF i <= Len(q) THEN q[i] ELSE Prompt[i - Len(q)]
    <3> HIDE DEF K
    <3> QED BY <1>5, ConcatProperties
  <2>2. Len(q) = n /\ Len(Prompt) = 2 BY <1>2 DEF n
  <2> HIDE DEF text
  <2> QED BY <2>1, <2>2
<1> HIDE DEF text
<1>8. text[n] = CRLF /\ text[n + 1] = Sign /\ text[n + 2] = Space
  <2>1. n \in 1 .. n + 2 /\ n + 1 \in 1 .. n + 2 /\ n + 2 \in 1 .. n + 2
        /\ ~(n + 1 <= n) /\ ~(n + 2 <= n) /\ (n + 1) - n = 1 /\ (n + 2) - n = 2
    BY <1>1, <1>3
  <2>2. text[n] = q[n] /\ text[n + 1] = Prompt[1] /\ text[n + 2] = Prompt[2] BY <1>7, <2>1
  <2> QED BY <1>1, <1>2, <2>2, Zenon
<1>9. PICK f : /\ f[0] = s /\ write(s, text) = f[Len(text)]
               /\ \A i \in 1 .. Len(text) : f[i] = WriteKey(f[i - 1], text[i])
  BY <1>4, <1>6, <1>7, WriteUnrolled
<1>10. /\ f[n] = WriteKey(f[n - 1], CRLF) /\ f[n + 1] = WriteKey(f[n], Sign)
       /\ f[n + 2] = WriteKey(f[n + 1], Space)
  <2>1. n \in 1 .. n + 2 /\ n + 1 \in 1 .. n + 2 /\ n + 2 \in 1 .. n + 2
        /\ n + 1 - 1 = n /\ n + 2 - 1 = n + 1
    BY <1>1, <1>3
  <2> QED BY <1>7, <1>8, <1>9, <2>1
<1>11. f[n] = Cleared
  <2>1. WriteKey(f[n - 1], CRLF) = Cleared BY WriteKeyCases
  <2> QED BY <1>10, <2>1
<1>12. write(s, text) = WriteKey(WriteKey(Cleared, Sign), Space) BY <1>7, <1>9, <1>10, <1>11
<1> QED BY <1>12, PromptOnEmptyRow DEF text

LEMMA EnterShows ==
  ASSUME screen \in Screens(Drawn), Enter
  PROVE  Shows(screen', line') /\ line' = <<>>
<1> DEFINE done == console_execute_command(line)
           q == <<CRLF>> \o done.out
<1>1. done.out = <<>> \/ EndsLine(done.out) BY CommandOutput
<1>2. screen' = write(screen, q \o Prompt) /\ line' = <<>> BY Zenon DEF Enter
<1> HIDE DEF done
<1>3. EndsLine(q)
  <2>1. EndsLine(<<CRLF>>) /\ Text(<<CRLF>>) BY ShortLines DEF EndsLine
  <2>2. CASE done.out = <<>>
    <3>1. <<CRLF>> \in Seq({CRLF}) OBVIOUS
    <3>2. <<CRLF>> \o <<>> = <<CRLF>> BY <3>1, ConcatEmptySeq
    <3> QED BY <2>1, <2>2, <3>2
  <2>3. CASE EndsLine(done.out) BY <2>1, <2>3, JoinedEnds
  <2> QED BY <1>1, <2>2, <2>3
<1> HIDE DEF q
<1>4. Shows(write(screen, q \o Prompt), <<>>) BY <1>3, PromptShows
<1> QED BY <1>2, <1>4

LEMMA InitShows == Init => Shows(screen, line)
<1> SUFFICES ASSUME Init PROVE Shows(screen, line) OBVIOUS
<1>1. line = <<>> /\ screen = write(Cleared, Prompt)
  BY Zenon DEF Init, console_init, Cleared
<1>2. Prompt \in Seq(Glyphs) /\ Len(Prompt) = 2 /\ Prompt[1] = Sign /\ Prompt[2] = Space
  BY PromptKeys
<1>3. Cleared \in Screens(Glyphs) BY ClearedIsAScreen
<1>4. PICK f : /\ f[0] = Cleared /\ write(Cleared, Prompt) = f[Len(Prompt)]
               /\ \A i \in 1 .. Len(Prompt) : f[i] = WriteKey(f[i - 1], Prompt[i])
  BY <1>2, <1>3, WriteUnrolled, GlyphsAreDrawn
<1>5. f[1] = WriteKey(f[1 - 1], Prompt[1]) /\ f[2] = WriteKey(f[2 - 1], Prompt[2])
  BY <1>2, <1>4
<1>6. write(Cleared, Prompt) = WriteKey(WriteKey(Cleared, Sign), Space) BY <1>2, <1>4, <1>5
<1> QED BY <1>1, <1>6, PromptOnEmptyRow

\* Keys that a terminal shows in its own way are forgotten at the next prompt.
Displayed ==
  /\ screen \in Screens(Drawn)
  /\ plain => line \in Seq(Keys \ Controls) /\ Shows(screen, line)

LEMMA ShowsDrawn == ASSUME NEW s, NEW l, Shows(s, l) PROVE s \in Screens(Drawn)
<1>1. Screens(Glyphs) \subseteq Screens(Drawn) BY GlyphsAreDrawn, MoreScreens
<1> QED BY <1>1 DEF Shows

LEMMA NextShows == LineFits /\ Displayed /\ [Next]_vars => Displayed'
<1> SUFFICES ASSUME LineFits, Displayed, [Next]_vars PROVE Displayed' OBVIOUS
<1>1. /\ line \in Seq(Keys) /\ Len(line) \in Nat /\ screen \in Screens(Drawn)
      /\ plain => line \in Seq(Keys \ Controls) /\ Shows(screen, line)
  BY LenProperties DEF LineFits, Displayed
<1>2. CASE Backspace
  <2>1. plain' = plain BY <1>2, Zenon DEF Backspace
  <2>2. CASE line = <<>>
    <3>1. UNCHANGED <<line, screen>> BY <1>2, <2>2, Zenon DEF Backspace
    <3> QED BY <1>1, <2>1, <3>1 DEF Displayed
  <2>3. CASE line # <<>>
    <3>1. /\ line' = SubSeq(line, 1, Len(line) - 1)
          /\ screen' = write(screen, <<BS, Space, BS>>)
      BY <1>2, <2>3, Zenon DEF Backspace, Space
    <3>2. screen' \in Screens(Drawn)
      <4> DEFINE text == <<BS, Space, BS>>
                 K == Drawn \cup {BS}
      <4>1. text \in Seq(K) /\ Len(text) = 3 /\ text[1] = BS /\ text[2] = Space /\ text[3] = BS
        BY GlyphsAreDrawn
      <4> HIDE DEF text
      <4>2. Drawn \subseteq K /\ Space \in K BY GlyphsAreDrawn
      <4> HIDE DEF K
      <4>3. screen \in Screens(K) BY <1>1, <4>2, MoreScreens
      <4>4. PICK f : /\ f[0] = screen /\ write(screen, text) = f[Len(text)]
                     /\ \A i \in 1 .. Len(text) : f[i] = WriteKey(f[i - 1], text[i])
        <5>1. \E f : /\ f[0] = screen /\ write(screen, text) = f[Len(text)]
                     /\ \A i \in 1 .. Len(text) : f[i] = WriteKey(f[i - 1], text[i])
          <6>1. text \in Seq(K) BY <4>1
          <6>2. Space \in K BY <4>2
          <6> QED BY <4>3, <6>1, <6>2, WriteUnrolled
        <5> QED BY <5>1
      <4>5. /\ f[1] = WriteKey(screen, BS) /\ f[2] = WriteKey(f[1], Space)
            /\ f[3] = WriteKey(f[2], BS)
        <5>1. /\ f[1] = WriteKey(f[1 - 1], text[1]) /\ f[2] = WriteKey(f[2 - 1], text[2])
              /\ f[3] = WriteKey(f[3 - 1], text[3])
          BY <4>1, <4>4
        <5> QED BY <4>1, <4>4, <5>1
      <4>6. f[1] \in Screens(Drawn) BY <1>1, <4>5, BackStays
      <4>7. f[2] \in Screens(Drawn)
        <5>1. Space \in Drawn BY GlyphsAreDrawn
        <5> QED BY <4>5, <4>6, <5>1, WriteStays
      <4>8. f[3] \in Screens(Drawn) BY <4>5, <4>7, BackStays
      <4> QED BY <3>1, <4>1, <4>4, <4>8 DEF text
    <3>3. ASSUME plain PROVE line' \in Seq(Keys \ Controls) /\ Shows(screen', line')
      <4>1. line \in Seq(Keys \ Controls) /\ Shows(screen, line) BY <1>1, <3>3
      <4>2. Len(line) # 0 BY <1>1, <2>3, EmptySeq
      <4>3. Len(line) - 1 \in 0 .. Len(line) BY <1>1, <4>2
      <4>4. line' \in Seq(Keys \ Controls) BY <3>1, <4>1, <4>3, Prefix
      <4> QED BY <1>2, <4>1, <4>4, BackspaceShows
    <3> QED BY <2>1, <3>2, <3>3 DEF Displayed
  <2> QED BY <2>2, <2>3
<1>3. CASE Enter
  <2>1. Shows(screen', line') /\ line' = <<>> BY <1>1, <1>3, EnterShows
  <2>2. screen' \in Screens(Drawn) BY <2>1, ShowsDrawn
  <2>3. line' \in Seq(Keys \ Controls) BY <2>1
  <2> QED BY <2>1, <2>2, <2>3 DEF Displayed
<1>4. ASSUME NEW k \in Keys, Type(k) PROVE Displayed'
  <2>1. CASE ~(Len(line) < BUFFER - 1)
    <3>1. UNCHANGED <<line, screen, plain>> BY <1>4, <2>1, Zenon DEF Type
    <3> QED BY <1>1, <3>1 DEF Displayed
  <2>2. CASE Len(line) < BUFFER - 1
    <3>1. /\ line' = Append(line, k) /\ screen' = write(screen, <<k>>)
          /\ plain' = (plain /\ k \notin Controls)
      BY <1>4, <2>2, Zenon DEF Type
    <3>2. screen' \in Screens(Drawn)
      <4>1. k \in Drawn /\ Space \in Drawn BY GlyphsAreDrawn DEF Drawn
      <4>2. <<k>> \in Seq(Drawn) BY <4>1
      <4> QED BY <1>1, <3>1, <4>1, <4>2, WriteScreens
    <3>3. ASSUME plain' PROVE line' \in Seq(Keys \ Controls) /\ Shows(screen', line')
      <4>1. plain /\ k \in Keys \ Controls BY <3>1, <3>3, Zenon
      <4>2. line \in Seq(Keys \ Controls) /\ Shows(screen, line) BY <1>1, <4>1
      <4>3. line' \in Seq(Keys \ Controls) BY <3>1, <4>1, <4>2, AppendProperties
      <4> QED BY <1>4, <4>1, <4>2, <4>3, TypeShows
    <3> QED BY <3>2, <3>3, Zenon DEF Displayed
  <2> QED BY <2>1, <2>2
<1>5. CASE UNCHANGED vars BY <1>1, <1>5 DEF vars, Displayed
<1> QED BY <1>2, <1>3, <1>4, <1>5, Zenon DEF Next

LEMMA ShowsLine ==
  ASSUME LineFits, Shows(screen, line) PROVE RowShows(line)
<1> DEFINE shown == Prompt \o line
           c == screen.col
<1>1. line \in Seq(Keys) /\ Len(line) \in Nat BY LenProperties DEF LineFits
<1>2. Prompt \in Seq(Glyphs) /\ Len(Prompt) = 2 /\ Prompt[1] = Sign /\ Prompt[2] = Space
  BY PromptKeys
<1>3. line \in Seq(Drawn) /\ Prompt \in Seq(Drawn)
  <2>1. Keys \subseteq Drawn BY DEF Drawn
  <2> QED BY <1>1, <1>2, <2>1, GlyphsAreDrawn, SeqMonotonic
<1>4. /\ shown \in Seq(Drawn) /\ Len(shown) = 2 + Len(line)
      /\ \A i \in 1 .. 2 + Len(line) : shown[i] = IF i <= 2 THEN Prompt[i] ELSE line[i - 2]
  <2>1. /\ shown \in Seq(Drawn) /\ Len(shown) = Len(Prompt) + Len(line)
        /\ \A i \in 1 .. Len(Prompt) + Len(line) :
             shown[i] = IF i <= Len(Prompt) THEN Prompt[i] ELSE line[i - Len(Prompt)]
    BY <1>3, ConcatProperties
  <2>2. Len(Prompt) = 2 BY <1>2
  <2> HIDE DEF shown
  <2> QED BY <2>1, <2>2
<1> HIDE DEF shown
<1>5. screen.row \in Seq(Glyphs) /\ c \in Nat /\ c <= Len(screen.row) /\ Len(screen.row) \in Nat
      /\ c = Len(line) + 2
  BY ScreenParts DEF Shows
<1> HIDE DEF c
<1>6. \A i \in 1 .. c : screen.row[i] \in Glyphs
  <2>1. \A i \in 1 .. c : i \in 1 .. Len(screen.row) BY <1>5
  <2> QED BY <1>5, <2>1, ElementOfSeq
<1> DEFINE read == SubSeq(screen.row, 1, c)
<1>7. /\ read \in Seq(Glyphs) /\ Len(read) = c
      /\ \A i \in 1 .. c : read[i] = screen.row[i]
  <2>1. 1 \in Int /\ c \in Int BY <1>5
  <2>2. /\ read \in Seq(Glyphs) /\ Len(read) = IF 1 <= c THEN c - 1 + 1 ELSE 0
        /\ \A i \in 1 .. c - 1 + 1 : read[i] = screen.row[1 + i - 1]
    BY <1>6, <2>1, SubSeqProperties
  <2> HIDE DEF read
  <2>3. Len(read) = c BY <1>5, <2>2
  <2>4. ASSUME NEW i \in 1 .. c PROVE read[i] = screen.row[i]
    <3>1. i \in 1 .. c - 1 + 1 /\ 1 + i - 1 = i BY <1>5
    <3> QED BY <2>2, <3>1
  <2> QED BY <2>2, <2>3, <2>4
<1> HIDE DEF read
<1>8. ASSUME NEW i \in 1 .. c PROVE screen.row[i] = shown[i]
  <2>1. i \in 1 .. 2 + Len(line) BY <1>1, <1>5
  <2>2. CASE i <= 2
    <3>1. i = 1 \/ i = 2 BY <1>5, <2>2
    <3> QED BY <1>2, <1>4, <2>1, <2>2, <3>1 DEF Shows
  <2>3. CASE ~(i <= 2)
    <3>1. i - 2 \in 1 .. Len(line) /\ (i - 2) + 2 = i BY <1>1, <1>5, <2>3
    <3>2. screen.row[(i - 2) + 2] = line[i - 2] BY <3>1 DEF Shows
    <3> QED BY <1>4, <2>1, <2>3, <3>1, <3>2
  <2> QED BY <2>2, <2>3
<1>9. read = shown
  <2>1. Len(read) = Len(shown) BY <1>4, <1>5, <1>7, <1>1
  <2>2. \A i \in 1 .. Len(read) : read[i] = shown[i] BY <1>7, <1>8
  <2> QED BY <1>4, <1>7, <2>1, <2>2, SeqEqual
<1>10. c = Len(shown) BY <1>1, <1>4, <1>5
<1>11. \A i \in c + 1 .. Len(screen.row) : screen.row[i] = Space BY DEF Shows, c
<1> QED BY <1>9, <1>10, <1>11, Zenon DEF RowShows, Space, shown, read, c

\* For every set of parameters, lines and every length of the buffer: as long
\* as only keys of one column are typed, the row of the terminal shows what
\* Enter will execute, whatever was corrected, typed in excess or written by the
\* commands before; after Enter it does so whatever was typed before
\* (console_process).
THEOREM TerminalShowsLine == Spec => []ScreenShowsLine
<1>1. Init => LineFits /\ Displayed
  <2> SUFFICES ASSUME Init PROVE LineFits /\ Displayed OBVIOUS
  <2>1. LineFits /\ Shows(screen, line) BY InitFits, InitShows
  <2>2. line \in Seq(Keys \ Controls) BY DEF Init
  <2> QED BY <2>1, <2>2, ShowsDrawn DEF Displayed
<1>2. LineFits /\ Displayed /\ [Next]_vars => (LineFits /\ Displayed)' BY NextFits, NextShows
<1>3. LineFits /\ Displayed => ScreenShowsLine
  <2> SUFFICES ASSUME LineFits, Displayed, plain PROVE RowShows(strcopy(line, BUFFER))
    BY DEF ScreenShowsLine
  <2>1. line \in Seq(Keys \ Controls) /\ Shows(screen, line) BY DEF Displayed
  <2>2. strcopy(line, BUFFER) = line BY <2>1, PlainCopied, ConsoleAssumption DEF LineFits
  <2> QED BY <2>1, <2>2, ShowsLine
<1> QED BY <1>1, <1>2, <1>3, PTL DEF Spec
==============================================================================
