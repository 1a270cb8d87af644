--------------------------- MODULE StartupProofs ---------------------------
(***************************************************************************)
(* Theorems of Startup, for every command line, every set of files, every  *)
(* size of the buffers and every width of the numbers.                     *)
(***************************************************************************)
EXTENDS Startup, SequenceTheorems, Arithmetic

-----------------------------------------------------------------------------
(* Cutting text. *)

(* A set of places has a last one. *)
LEMMA Greatest ==
  ASSUME NEW n \in Nat, NEW S \in SUBSET (1 .. n), S # {}
  PROVE  \E x \in S : \A y \in S : y <= x
<1> DEFINE D == {n - i : i \in S}
<1>1. D \in SUBSET Nat /\ D # {}
  <2>1. \A i \in S : n - i \in Nat
    OBVIOUS
  <2> QED
    BY <2>1
<1>2. PICK d \in D : \A y \in D : d <= y
  <2> HIDE DEF D
  <2> QED
    BY <1>1, Least
<1>3. PICK x \in S : d = n - x
  BY <1>2
<1>4. \A y \in S : n - x <= n - y
  BY <1>2, <1>3
<1> QED
  BY <1>4

(* FirstIn finds a place of the set, or the end. *)
LEMMA FirstPlace ==
  ASSUME NEW s, Len(s) \in Nat, NEW S \in SUBSET (1 .. Len(s))
  PROVE  /\ FirstIn(s, S) \in 1 .. Len(s) + 1
         /\ S # {} => FirstIn(s, S) \in S
<1>1. CASE S = {}
  BY <1>1 DEF FirstIn
<1>2. CASE S # {}
  <2>1. \E x \in S : \A y \in S : x <= y
    BY <1>2, Least
  <2>2. FirstIn(s, S) \in S
    BY <1>2, <2>1 DEF FirstIn
  <2>3. S \subseteq 1 .. Len(s) + 1
    OBVIOUS
  <2> QED
    BY <1>2, <2>2, <2>3
<1> QED
  BY <1>1, <1>2

(* A part of a text is a text, and no longer. *)
LEMMA PartOf ==
  ASSUME NEW T, NEW s \in Seq(T), NEW m \in Nat \ {0}
  PROVE  /\ SubSeq(s, m, Len(s)) \in Seq(T)
         /\ m > 1 /\ s # <<>> => Len(SubSeq(s, m, Len(s))) < Len(s)
  OBVIOUS

-----------------------------------------------------------------------------
(* Text laid end to end. *)

IsFlat(s, f) == f = [i \in 1 .. Len(s) |-> IF i = 1 THEN s[i] ELSE f[i - 1] \o s[i]]
Flat(s) == CHOOSE f : IsFlat(s, f)

(* The recursion of FlattenSeq defines a function. *)
LEMMA FlatDefined ==
  ASSUME NEW T, NEW s \in Seq(Seq(T))
  PROVE  IsFlat(s, Flat(s)) /\ Flat(s) \in [1 .. Len(s) -> Seq(T)]
<1>1. PICK n \in Nat : n = Len(s)
  OBVIOUS
<1>2. \A i \in 1 .. n : s[i] \in Seq(T)
  BY <1>1
<1> DEFINE Step(g, i) == IF i = 1 THEN s[i] ELSE g[i - 1] \o s[i]
           UpTo(m, g) == g \in [1 .. m -> Seq(T)] /\ \A i \in 1 .. m : g[i] = Step(g, i)
           S == {m \in Nat : m <= n => \E g : UpTo(m, g)}
<1>3. 0 \in S
  <2>1. UpTo(0, [i \in 1 .. 0 |-> <<>>])
    OBVIOUS
  <2> HIDE DEF UpTo
  <2> QED BY <2>1
<1>4. ASSUME NEW m \in Nat, m \in S PROVE m + 1 \in S
  <2> HIDE DEF UpTo
  <2> SUFFICES ASSUME m + 1 <= n PROVE \E g : UpTo(m + 1, g)
    OBVIOUS
  <2>1. m <= n /\ m + 1 \in 1 .. n
    BY <1>1
  <2>2. PICK g : UpTo(m, g)
    BY <1>4, <2>1
  <2> USE DEF UpTo
  <2>3. PICK new : new = IF m = 0 THEN s[1] ELSE g[m] \o s[m + 1]
    OBVIOUS
  <2>4. new \in Seq(T)
    <3>1. CASE m = 0
      BY ONLY <1>2, <2>1, <2>3, <3>1
    <3>2. CASE m # 0
      <4>1. g[m] \in Seq(T) /\ s[m + 1] \in Seq(T)
        BY <1>2, <2>1, <2>2, <3>2
      <4>2. g[m] \o s[m + 1] \in Seq(T)
        BY ONLY <4>1, ConcatProperties
      <4> QED BY ONLY <2>3, <3>2, <4>2
    <3> QED BY <3>1, <3>2
  <2>5. PICK h : h = [i \in 1 .. m + 1 |-> IF i <= m THEN g[i] ELSE new]
    OBVIOUS
  <2>6. h \in [1 .. m + 1 -> Seq(T)]
    BY <2>2, <2>4, <2>5
  <2>7. ASSUME NEW i \in 1 .. m + 1 PROVE h[i] = Step(h, i)
    <3>1. CASE i <= m
      <4>1. i \in 1 .. m /\ (i # 1 => i - 1 \in 1 .. m)
        BY ONLY <2>7, <3>1, m \in Nat
      <4>2. h[i] = g[i] /\ (i # 1 => h[i - 1] = g[i - 1])
        BY ONLY <2>5, <2>7, <4>1, m \in Nat
      <4>3. g[i] = Step(g, i)
        BY <2>2, <4>1
      <4> QED BY ONLY <4>2, <4>3, Zenon
    <3>2. CASE i = m + 1
      <4>1. h[i] = new /\ (m # 0 => h[m] = g[m])
        BY ONLY <2>5, <3>2, m \in Nat
      <4>2. i - 1 = m /\ (i = 1 <=> m = 0)
        BY ONLY <3>2, m \in Nat
      <4>3. CASE m = 0
        BY ONLY <2>3, <3>2, <4>1, <4>2, <4>3
      <4>4. CASE m # 0
        <5>1. Step(h, i) = h[m] \o s[m + 1]
          BY ONLY <3>2, <4>2, <4>4
        <5> HIDE DEF Step
        <5> QED BY ONLY <2>3, <4>1, <4>4, <5>1
      <4> QED BY <4>3, <4>4
    <3> QED BY <3>1, <3>2
  <2> QED BY <2>6, <2>7
<1>5. Nat \subseteq S
  <2> HIDE DEF S
  <2> QED BY <1>3, <1>4, Induction
<1>6. PICK g : UpTo(n, g)
  <2> HIDE DEF UpTo
  <2> QED BY <1>5
\* One function satisfies the recursion, and only one.
<1>7. IsFlat(s, g)
  <2>1. g = [i \in 1 .. n |-> Step(g, i)]
    <3>1. g = [i \in 1 .. n |-> g[i]] /\ \A i \in 1 .. n : g[i] = Step(g, i)
      BY <1>6
    <3> HIDE DEF Step
    <3> QED BY ONLY <3>1
  <2> QED BY <1>1, <2>1 DEF IsFlat
<1>8. IsFlat(s, Flat(s))
  BY <1>7, Zenon DEF Flat
<1>9. ASSUME NEW h, IsFlat(s, h) PROVE h = g
  <2>1. h = [i \in 1 .. n |-> Step(h, i)]
    BY <1>1, <1>9 DEF IsFlat
  <2>2. DOMAIN h = 1 .. n /\ h = [i \in 1 .. n |-> h[i]] /\ \A i \in 1 .. n : h[i] = Step(h, i)
    <3> HIDE DEF Step
    <3> QED BY ONLY <2>1
  <2>3. g = [i \in 1 .. n |-> g[i]] /\ \A i \in 1 .. n : g[i] = Step(g, i)
    BY <1>6
  <2> DEFINE A == {m \in Nat : m + 1 <= n => h[m + 1] = g[m + 1]}
  <2>4. 0 \in A
    <3> SUFFICES ASSUME 1 <= n PROVE h[1] = g[1]
      OBVIOUS
    <3>1. 1 \in 1 .. n
      OBVIOUS
    <3>2. Step(h, 1) = s[1] /\ Step(g, 1) = s[1]
      OBVIOUS
    <3> HIDE DEF Step
    <3> QED BY ONLY <2>2, <2>3, <3>1, <3>2
  <2>5. ASSUME NEW m \in Nat, m \in A PROVE m + 1 \in A
    <3> SUFFICES ASSUME (m + 1) + 1 <= n PROVE h[(m + 1) + 1] = g[(m + 1) + 1]
      OBVIOUS
    <3>1. PICK i \in 1 .. n : i = (m + 1) + 1 /\ i - 1 = m + 1 /\ i # 1
      BY <1>1
    <3>2. h[m + 1] = g[m + 1]
      BY <2>5
    <3>3. h[i] = Step(h, i) /\ g[i] = Step(g, i)
      BY <2>2, <2>3
    <3>4. Step(h, i) = Step(g, i)
      BY ONLY <3>1, <3>2, Zenon
    <3> HIDE DEF Step
    <3> QED BY ONLY <3>1, <3>3, <3>4
  <2>6. Nat \subseteq A
    <3> HIDE DEF A
    <3> QED BY <2>4, <2>5, Induction
  <2>7. ASSUME NEW i \in 1 .. n PROVE h[i] = g[i]
    <3>1. i - 1 \in Nat /\ (i - 1) + 1 = i /\ i <= n
      BY <1>1
    <3> QED BY <2>6, <3>1
  <2> HIDE DEF Step
  <2> QED BY ONLY <2>2, <2>3, <2>7
<1>10. g \in [1 .. Len(s) -> Seq(T)]
  BY <1>1, <1>6
<1> QED BY ONLY <1>7, <1>8, <1>9, <1>10

(* FlattenSeq is what the recursion yields at its end. *)
LEMMA FlattenIsFlat ==
  ASSUME NEW T, NEW s \in Seq(Seq(T))
  PROVE  FlattenSeq(s) = IF Len(s) = 0 THEN <<>> ELSE Flat(s)[Len(s)]
<1>1. FlattenSeq(s) = IF Len(s) = 0 THEN s ELSE Flat(s)[Len(s)]
  BY Zenon DEF FlattenSeq, Flat, IsFlat
<1>2. Len(s) = 0 => s = <<>>
  OBVIOUS
<1> QED BY <1>1, <1>2

LEMMA Regroup ==
  ASSUME NEW T, NEW a \in Seq(T), NEW b \in Seq(T), NEW c \in Seq(T)
  PROVE  (a \o b) \o c = a \o (b \o c) /\ b \o c \in Seq(T)
<1>1. (a \o b) \o c = a \o (b \o c)
  BY ONLY ConcatAssociative
<1>2. b \o c \in Seq(T)
  BY ONLY ConcatProperties
<1> QED
  BY <1>1, <1>2, Zenon

(* The parts of a text laid end to end can be taken off its front, one after *)
(* the other.                                                                *)
TakesOff(s, h) ==
  /\ h[0] = FlattenSeq(s) /\ h[Len(s)] = <<>>
  /\ \A k \in 0 .. Len(s) - 1 : h[k] = s[k + 1] \o h[k + 1]

LEMMA TakenOff ==
  ASSUME NEW T, NEW s \in Seq(Seq(T))
  PROVE  \E h \in [0 .. Len(s) -> Seq(T)] : TakesOff(s, h)
<1>0. ASSUME NEW a \in Seq(T), NEW b \in Seq(T), NEW c \in Seq(T)
      PROVE  (a \o b) \o c = a \o (b \o c) /\ b \o c \in Seq(T)
  BY ONLY Regroup
<1>1. PICK n \in Nat : n = Len(s)
  OBVIOUS
<1>2. PICK g : g = [i \in 0 .. n |-> IF i = 0 THEN <<>> ELSE Flat(s)[i]]
  OBVIOUS
<1>3. \A i \in 1 .. n : s[i] \in Seq(T)
  BY <1>1
<1>4. \A i \in 0 .. n : g[i] \in Seq(T)
  <2>1. \A i \in 1 .. n : Flat(s)[i] \in Seq(T)
    BY <1>1, FlatDefined
  <2>2. <<>> \in Seq(T)
    OBVIOUS
  <2> QED BY <1>2, <2>1, <2>2
<1>5. ASSUME NEW k \in 0 .. n - 1 PROVE g[k + 1] = g[k] \o s[k + 1]
  <2>0. IsFlat(s, Flat(s))
    BY ONLY s \in Seq(Seq(T)), FlatDefined
  <2>1. PICK F : F = Flat(s)
    OBVIOUS
  <2>2. k + 1 \in 1 .. n /\ k + 1 \in 0 .. n /\ k + 1 # 0 /\ (k + 1) - 1 = k /\ k \in 0 .. n
    OBVIOUS
  <2>3. F[k + 1] = IF k + 1 = 1 THEN s[k + 1] ELSE F[(k + 1) - 1] \o s[k + 1]
    BY ONLY <1>1, <2>0, <2>1, <2>2, Zenon DEF IsFlat
  <2>4. g[k + 1] = F[k + 1]
    BY ONLY <1>2, <2>1, <2>2
  <2>5. CASE k = 0
    <3>1. g[k] = <<>> /\ s[k + 1] \in Seq(T) /\ k + 1 = 1
      BY <1>2, <1>3, <2>2, <2>5
    <3>2. <<>> \o s[k + 1] = s[k + 1]
      BY ONLY <3>1, ConcatEmptySeq
    <3> QED BY ONLY <2>3, <2>4, <3>1, <3>2
  <2>6. CASE k # 0
    <3>1. g[k] = F[k] /\ k + 1 # 1
      BY ONLY <1>2, <2>1, <2>2, <2>6
    <3> QED BY ONLY <2>2, <2>3, <2>4, <3>1, Zenon
  <2> QED BY <2>5, <2>6
<1>6. g[0] = <<>> /\ g[n] = FlattenSeq(s)
  BY <1>1, <1>2, FlattenIsFlat
<1>7. PICK F \in Seq(T) : F = g[n]
  BY <1>4
\* Each g[k] is its beginning.
<1> DEFINE Rests(k) == {r \in Seq(T) : F = g[k] \o r}
<1>8. ASSUME NEW k \in 0 .. n - 1, NEW r \in Rests(k + 1) PROVE s[k + 1] \o r \in Rests(k)
  <2>1. g[k] \in Seq(T) /\ s[k + 1] \in Seq(T) /\ r \in Seq(T)
    <3>1. k \in 0 .. n /\ k + 1 \in 1 .. n
      OBVIOUS
    <3> QED BY ONLY <1>3, <1>4, <1>8, <3>1
  <2>2. F = (g[k] \o s[k + 1]) \o r
    BY ONLY <1>5, <1>8, Zenon
  <2>3. s[k + 1] \o r \in Seq(T)
    BY ONLY <1>0, <2>1, Zenon
  <2>4. (g[k] \o s[k + 1]) \o r = g[k] \o (s[k + 1] \o r)
    BY ONLY <1>0, <2>1, Zenon
  <2> QED BY ONLY <2>2, <2>3, <2>4, Zenon
<1>9. <<>> \in Rests(n)
  <2>1. F \o <<>> = F /\ <<>> \in Seq(T)
    BY ONLY F \in Seq(T), ConcatEmptySeq, EmptySeq
  <2> QED BY ONLY <1>7, <2>1, Zenon
<1>10. \A k \in 0 .. n : Rests(k) # {}
  <2> HIDE DEF Rests
  <2> DEFINE S == {d \in Nat : d <= n => Rests(n - d) # {}}
  <2>1. 0 \in S
    BY <1>9
  <2>2. ASSUME NEW d \in Nat, d \in S PROVE d + 1 \in S
    <3> SUFFICES ASSUME d + 1 <= n PROVE Rests(n - (d + 1)) # {}
      OBVIOUS
    <3>1. PICK k \in 0 .. n - 1 : k = n - (d + 1) /\ k + 1 = n - d
      OBVIOUS
    <3>2. Rests(k + 1) # {}
      BY <2>2, <3>1
    <3> QED BY <1>8, <3>1, <3>2
  <2>3. Nat \subseteq S
    <3> HIDE DEF S
    <3> QED BY <2>1, <2>2, Induction
  <2>4. ASSUME NEW k \in 0 .. n PROVE Rests(k) # {}
    <3>1. n - k \in Nat /\ n - (n - k) = k /\ n - k <= n
      OBVIOUS
    <3>2. n - k \in S
      BY <2>3, <3>1
    <3> QED BY <3>1, <3>2
  <2> QED BY <2>4
<1>11. \A k \in 0 .. n : \A r, q \in Rests(k) : r = q
  <2> TAKE k \in 0 .. n
  <2> TAKE r, q \in Rests(k)
  <2>1. g[k] \in Seq(T) /\ r \in Seq(T) /\ q \in Seq(T) /\ g[k] \o r = g[k] \o q
    BY <1>4
  <2> QED BY ONLY <2>1, ConcatSimplifications, Zenon
<1>12. PICK h : h = [k \in 0 .. n |-> CHOOSE r : r \in Rests(k)]
  OBVIOUS
<1>13. \A k \in 0 .. n : h[k] \in Rests(k)
  <2> HIDE DEF Rests
  <2> QED BY ONLY <1>10, <1>12
<1>14. h \in [0 .. n -> Seq(T)]
  BY ONLY <1>12, <1>13
<1>15. h[0] = FlattenSeq(s)
  <2>1. F \in Rests(0)
    BY ONLY <1>6, F \in Seq(T), ConcatEmptySeq
  <2>2. 0 \in 0 .. n /\ F = FlattenSeq(s)
    BY <1>6, <1>7
  <2> HIDE DEF Rests
  <2> QED BY ONLY <1>11, <1>13, <2>1, <2>2
<1>16. h[n] = <<>>
  <2>1. n \in 0 .. n
    OBVIOUS
  <2> HIDE DEF Rests
  <2> QED BY ONLY <1>9, <1>11, <1>13, <2>1
<1>17. ASSUME NEW k \in 0 .. n - 1 PROVE h[k] = s[k + 1] \o h[k + 1]
  <2>1. k \in 0 .. n /\ k + 1 \in 0 .. n
    OBVIOUS
  <2> HIDE DEF Rests
  <2>2. h[k] \in Rests(k) /\ h[k + 1] \in Rests(k + 1)
    BY ONLY <1>13, <2>1
  <2>3. s[k + 1] \o h[k + 1] \in Rests(k)
    BY ONLY <1>8, <1>17, <2>2, Zenon
  <2> QED BY ONLY <1>11, <2>1, <2>2, <2>3, Zenon
<1> QED BY ONLY <1>1, <1>14, <1>15, <1>16, <1>17 DEF TakesOff

(* What is put together of text is text. *)
LEMMA WholeTexts ==
  ASSUME NEW s \in Starts
  PROVE  /\ ArgvOf(s.args) \in Seq(Seq(STRING))
         /\ \A path \in DOMAIN s.disk : Contents(s.disk[path]) \in Seq(STRING)
<1>1. ASSUME NEW T, NEW t \in Seq(Seq(T)) PROVE FlattenSeq(t) \in Seq(T)
  <2>1. PICK h \in [0 .. Len(t) -> Seq(T)] : h[0] = FlattenSeq(t)
    BY TakenOff DEF TakesOff
  <2>2. 0 \in 0 .. Len(t)
    OBVIOUS
  <2> QED
    BY ONLY <2>1, <2>2
<1>2. ChunksOf(s.args) \in Seq(Seq(Seq(STRING)))
  BY TextAssumption
<1>3. \A path \in DOMAIN s.disk : TextsOf(s.disk[path]) \in Seq(Seq(STRING))
  BY TextAssumption
<1> QED
  BY ONLY <1>1, <1>2, <1>3 DEF ArgvOf, Contents

-----------------------------------------------------------------------------
(* What is left to read. *)

TextInv == start \in Starts /\ argv \in Seq(Seq(STRING)) /\ stream \in Seq(STRING)

(* A piece is not empty. *)
LEMMA PieceRead ==
  ASSUME TextInv, ReadPiece
  PROVE  /\ stream' \in Seq(STRING) /\ Len(stream') < Len(stream)
         /\ PieceEnd \in 1 .. Len(stream)
<1> DEFINE S == {i \in 1 .. Len(stream) :
                   stream[i] = "\n" \/ i = MaxLine - 1 \/ i = Len(stream)}
<1>1. stream \in Seq(STRING) /\ stream # <<>> /\ Len(stream) \in Nat
  BY DEF TextInv, ReadPiece
<1>2. PieceEnd = FirstIn(stream, S)
  BY DEF PieceEnd
<1>3. PieceEnd \in 1 .. Len(stream)
  <2>1. S \in SUBSET (1 .. Len(stream)) /\ Len(stream) \in S
    BY <1>1
  <2> HIDE DEF S
  <2> QED
    BY <1>1, <1>2, <2>1, FirstPlace
<1>4. stream' = SubSeq(stream, PieceEnd + 1, Len(stream))
  BY DEF ReadPiece, After
<1>5. PieceEnd + 1 \in Nat \ {0} /\ PieceEnd + 1 > 1
  BY <1>3
<1> QED
  BY <1>1, <1>3, <1>4, <1>5, PartOf

(* An argument, or two, is taken off the line. *)
LEMMA ArgumentRead ==
  ASSUME TextInv, ParseCLI
  PROVE  /\ argv' \in Seq(Seq(STRING)) /\ cli = "parsing"
         /\ Len(argv') < Len(argv) \/ cli' # "parsing"
<1>1. CASE argv' = argv /\ cli = "parsing" /\ cli' # "parsing"
  BY <1>1 DEF TextInv
<1>2. CASE cli = "parsing" /\ argv # <<>> /\ argv' = Tail(argv)
  BY <1>2 DEF TextInv
<1>3. CASE cli = "parsing" /\ argv # <<>> /\ argv' = SubSeq(argv, 3, Len(argv))
  BY <1>3, PartOf DEF TextInv
<1> QED
  BY <1>1, <1>2, <1>3
  DEF ParseCLI, Terminate, AskForHelp, Refuse, EndOfArguments, FlagWithValue, FlagThenValue, More

(* Every step leaves text behind. *)
LEMMA TextStep == TextInv /\ [Next]_vars => TextInv'
<1> SUFFICES ASSUME TextInv, [Next]_vars PROVE TextInv'
  OBVIOUS
<1>1. CASE ParseArguments
  BY <1>1, ArgumentRead DEF ParseArguments, iniVars, TextInv
<1>2. CASE OpenConfig
  <2>1. CASE option.config \in DOMAIN start.disk
    <3>1. stream' = Contents(start.disk[option.config]) /\ UNCHANGED <<argv, start>>
      BY <1>2, <2>1 DEF OpenConfig, OpenFile, cliVars
    <3> QED
      BY <2>1, <3>1, WholeTexts DEF TextInv
  <2>2. CASE option.config \notin DOMAIN start.disk
    BY <1>2, <2>2 DEF OpenConfig, OpenMissing, cliVars, TextInv
  <2> QED
    BY <2>1, <2>2
<1>3. CASE ReadConfig
  BY <1>3, PieceRead DEF ReadConfig, ParseStream, ParseLine, EndOfFile, cliVars, TextInv
<1>4. CASE UNCHANGED <<cliVars, iniVars, start>>
  BY <1>4 DEF cliVars, iniVars, TextInv
<1> QED
  BY <1>1, <1>2, <1>3, <1>4
  DEF Next, Leave, CannotLoad, InitParams, Configure, GeneratorFails, MakeGenerator, Finished,
      vars

(* What is left to read is text, in every reachable state. *)
LEMMA TextKept == Spec => []TextInv
<1>1. Init => TextInv
  BY WholeTexts DEF Init, CliInit, IniInit, TextInv
<1> QED
  BY <1>1, TextStep, PTL DEF Spec

(* Every step of the start-up takes something off the arguments, or off the   *)
(* file, or leads to a later stage (ParseArgs, ini_parse_stream, main).       *)
THEOREM StartupProgresses == Spec => InputConsumed
<1> DEFINE Progressed ==
      \/ StageOf(status') < StageOf(status)
      \/ /\ status = "arguments" /\ status' = status /\ cli = "parsing"
         /\ Len(argv') < Len(argv) \/ cli' # "parsing"
      \/ /\ status = "reading" /\ status' = status /\ ini = "parsing"
         /\ Len(stream') < Len(stream) \/ ini' = "parsed"
<1>1. TextInv /\ [Next]_vars => [Progressed]_vars
  <2> SUFFICES ASSUME TextInv, Next, vars' # vars PROVE Progressed
    OBVIOUS
  <2>1. CASE ParseArguments
    BY <2>1, ArgumentRead DEF ParseArguments
  <2>2. CASE ReadConfig
    <3>1. CASE ReadPiece
      BY <2>2, <3>1, PieceRead DEF ReadConfig, ReadPiece
    <3>2. CASE EndOfFile
      BY <2>2, <3>2 DEF ReadConfig, EndOfFile
    <3> QED
      BY <2>2, <3>1, <3>2 DEF ReadConfig, ParseStream, ParseLine
  <2>3. ASSUME StageOf(status') < StageOf(status) PROVE Progressed
    BY <2>3
  <2>4. CASE Leave \/ OpenConfig
    <3>1. status = "arguments" /\ status' \in {"exit 0", "exit 1", "reading"}
      BY <2>4 DEF Leave, OpenConfig
    <3>2. StageOf(status) = 4
      BY <3>1 DEF StageOf, Stage
    <3>3. StageOf(status') \in {0, 3}
      <4>1. DOMAIN Stage = {"arguments", "reading", "parsed", "ready"} /\ Stage["reading"] = 3
        BY DEF Stage
      <4>2. CASE status' = "reading"
        BY <4>1, <4>2 DEF StageOf
      <4>3. CASE status' = "exit 0" \/ status' = "exit 1"
        BY <4>1, <4>3 DEF StageOf
      <4> QED
        BY <3>1, <4>2, <4>3
    <3> QED
      BY <2>3, <3>2, <3>3
  <2>5. CASE CannotLoad \/ InitParams
    <3>1. status = "reading" /\ status' \in {"aborted", "parsed"}
      BY <2>5 DEF CannotLoad, InitParams
    <3> QED
      BY <2>3, <3>1 DEF StageOf, Stage
  <2>6. CASE Configure
    <3>1. status = "parsed" /\ status' \in {"crashed", "aborted", "ready"}
      BY <2>6 DEF Configure, Layout!Configure
    <3> QED
      BY <2>3, <3>1 DEF StageOf, Stage
  <2>7. CASE GeneratorFails \/ MakeGenerator
    <3>1. status = "ready" /\ status' \in {"aborted", "running"}
      BY <2>7 DEF GeneratorFails, MakeGenerator
    <3> QED
      BY <2>3, <3>1 DEF StageOf, Stage
  <2> QED
    BY <2>1, <2>2, <2>4, <2>5, <2>6, <2>7 DEF Next, Finished
<1> QED
  BY <1>1, TextKept, PTL DEF Spec, InputConsumed

-----------------------------------------------------------------------------
(* Types. *)

(* What the scanners cut out of a text is text. *)
LEMMA Cut ==
  ASSUME NEW s \in Seq(STRING)
  PROVE  /\ LSkip(s) \in Seq(STRING) /\ RStrip(s) \in Seq(STRING)
         /\ \A n \in 1 .. Len(s) + 1 : Before(s, n) \in Seq(STRING)
         /\ \A chars : FindCharsOrComment(s, chars) \in 1 .. Len(s) + 1
<1>1. Len(s) \in Nat /\ Words(s) \in SUBSET (1 .. Len(s))
  BY DEF Words
<1>2. LSkip(s) \in Seq(STRING)
  BY <1>1, FirstPlace, PartOf DEF LSkip
<1>3. RStrip(s) \in Seq(STRING)
  <2>1. CASE Words(s) = {}
    BY <2>1 DEF RStrip
  <2>2. CASE Words(s) # {}
    <3> DEFINE last == CHOOSE i \in Words(s) : \A j \in Words(s) : j <= i
    <3>1. last \in Words(s)
      BY <1>1, <2>2, Greatest
    <3>2. RStrip(s) = SubSeq(s, 1, last)
      BY <2>2 DEF RStrip
    <3> HIDE DEF last
    <3>3. last \in 1 .. Len(s)
      BY <1>1, <3>1
    <3> QED
      BY <3>2, <3>3
  <2> QED
    BY <2>1, <2>2
<1>4. ASSUME NEW n \in 1 .. Len(s) + 1 PROVE Before(s, n) \in Seq(STRING)
  BY <1>1 DEF Before
<1>5. ASSUME NEW chars PROVE FindCharsOrComment(s, chars) \in 1 .. Len(s) + 1
  <2> DEFINE S == {i \in 1 .. Len(s) : s[i] \in chars \/ InlineComment(s, i)}
  <2>1. FindCharsOrComment(s, chars) = FirstIn(s, S) /\ S \in SUBSET (1 .. Len(s))
    BY DEF FindCharsOrComment
  <2> HIDE DEF S
  <2> QED
    BY <1>1, <2>1, FirstPlace
<1> QED
  BY <1>2, <1>3, <1>4, <1>5

(* The buffer is not overrun. *)
LEMMA Fits0 ==
  ASSUME NEW s \in Seq(STRING), NEW n \in Nat \ {0}
  PROVE  Len(Strncpy0(s, n)) < n
<1>1. CASE Len(s) < n
  BY <1>1 DEF Strncpy0
<1>2. CASE ~(Len(s) < n)
  BY <1>2 DEF Strncpy0
<1> QED
  BY <1>1, <1>2

(* The line looked at is text. *)
LEMMA LineIsText ==
  ASSUME TextInv, ReadPiece
  PROVE  Scanned.text \in Seq(STRING)
<1> DEFINE piece == SubSeq(stream, 1, PieceEnd)
           unmarked == IF lineno = 0 /\ Head(piece) = "BOM" THEN Tail(piece) ELSE piece
<1>1. piece \in Seq(STRING) /\ piece # <<>>
  BY PieceRead DEF TextInv
<1>2. unmarked \in Seq(STRING)
  <2>1. Tail(piece) \in Seq(STRING)
    BY <1>1
  <2> QED
    BY <1>1, <2>1
<1>3. Scanned.text = LSkip(RStrip(unmarked))
  BY DEF Scanned
<1> HIDE DEF piece, unmarked
<1> QED
  BY <1>2, <1>3, Cut

\* The part of StartTypeOK each parser answers for.
OptionTypes ==
  /\ DOMAIN option = Flags
  /\ option.num_request \in 0 .. UIntMax
  /\ option.repeat \in -IntMax - 1 .. IntMax /\ option.start \in -IntMax - 1 .. IntMax
  /\ cli \in {"parsing", "parsed", "help", "error"}
  /\ terminated \in BOOLEAN
FileTypes ==
  /\ ini \in {"closed", "parsing", "parsed"}
  /\ lineno \in Nat /\ error \in -1 .. lineno
  /\ Len(section) < MaxSection /\ Len(prev_name) < MaxName

(* Numbers are taken at the width of their type. *)
LEMMA NumberInRange ==
  ASSUME OptionTypes, NEW f \in Numeric, NEW v \in Seq(STRING), Readable(f, v)
  PROVE  /\ f = "num_request" => ValueRead(f, v) \in 0 .. UIntMax
         /\ f # "num_request" => ValueRead(f, v) \in -IntMax - 1 .. IntMax
<1> DEFINE w == LSkip(v)
<1>1. CASE w = <<>>
  BY <1>1 DEF ValueRead, OptionTypes, Numeric
<1>2. CASE w # <<>>
  <2>1. IsNumber(w)
    BY <1>2 DEF Readable
  <2>2. ValueRead(f, v) = ReadNumber(f, Number(w))
    BY <1>2 DEF ValueRead
  <2> HIDE DEF w
  <2>3. Number(w) \in Int
    BY <2>1, NumeralAssumption DEF IsNumber, Number, BeginsNumber, Integer
  <2> DEFINE n == Number(w)
  <2> HIDE DEF n
  <2>4. n \in Int /\ UIntMax \in Nat /\ IntMax \in Nat
    BY <2>3, WidthAssumption DEF n
  <2>5. ReadNumber("num_request", n) \in 0 .. UIntMax
    <3>1. (n % (UIntMax + 1)) \in 0 .. UIntMax
      <4> DEFINE m == UIntMax + 1
      <4>1. m \in Nat /\ m > 0 /\ UIntMax = m - 1
        BY <2>4
      <4> HIDE DEF m
      <4>2. (n % m) \in 0 .. m - 1
        BY <2>4, <4>1, SMTT(30)
      <4> QED
        BY <4>1, <4>2 DEF m
    <3> QED
      BY <2>4, <3>1 DEF ReadNumber
  <2>6. f # "num_request" => ReadNumber(f, n) \in -IntMax - 1 .. IntMax
    BY <2>4 DEF ReadNumber
  <2> QED
    BY <2>2, <2>5, <2>6 DEF n
<1> QED
  BY <1>1, <1>2

(* A step of the parser keeps the options within their types. *)
LEMMA OptionStep ==
  ASSUME TextInv, OptionTypes, ParseCLI
  PROVE  OptionTypes'
<1>1. ASSUME NEW f \in Flags, NEW v \in Seq(STRING), ParseValue(f, v)
      PROVE  OptionTypes'
  <2>1. CASE Readable(f, v)
    <3> DEFINE x == ValueRead(f, v)
    <3>1. option' = [option EXCEPT ![f] = x] /\ UNCHANGED <<cli, terminated>>
      BY <1>1, <2>1 DEF ParseValue
    <3>2. /\ f = "num_request" => x \in 0 .. UIntMax
          /\ f \in {"repeat", "start"} => x \in -IntMax - 1 .. IntMax
      BY <2>1, NumberInRange DEF Numeric
    <3> HIDE DEF x
    <3>3. {"num_request", "repeat", "start"} \subseteq Flags
      BY DEF Flags, ShortName
    <3> QED
      BY <3>1, <3>2, <3>3 DEF OptionTypes
  <2>2. CASE ~Readable(f, v)
    BY <1>1, <2>2 DEF ParseValue, OptionTypes
  <2> QED
    BY <2>1, <2>2
<1>2. ASSUME NEW f \in Flags, FlagWithValue(f) PROVE OptionTypes'
  <2>1. Head(argv) \in Seq(STRING)
    BY <1>2 DEF FlagWithValue, More, TextInv
  <2>2. JoinedValue(Head(argv)) \in Seq(STRING)
    <3> DEFINE a == Head(argv)
    <3>1. Separator(a) + 1 \in Nat \ {0}
      <4>1. CASE \E i \in 2 .. Len(a) : a[i] = "="
        <5> DEFINE S == {i \in 2 .. Len(a) : a[i] = "="}
        <5>1. \E x \in S : \A y \in S : x <= y
          <6>1. S \in SUBSET Nat /\ S # {}
            BY <4>1
          <6> HIDE DEF S
          <6> QED
            BY <6>1, Least
        <5>2. \E i \in 2 .. Len(a) : a[i] = "=" /\ \A j \in 2 .. i - 1 : a[j] # "="
          <6>1. PICK x \in S : \A y \in S : x <= y
            BY <5>1
          <6>2. \A j \in 2 .. x - 1 : a[j] # "="
            BY <2>1, <6>1
          <6> QED
            BY <6>1, <6>2
        <5> QED
          BY <4>1, <5>2 DEF Separator
      <4>2. CASE ~\E i \in 2 .. Len(a) : a[i] = "="
        BY <2>1, <4>2 DEF Separator
      <4> QED
        BY <4>1, <4>2
    <3> HIDE DEF a
    <3>2. a \in Seq(STRING)
      BY <2>1 DEF a
    <3>3. /\ SubSeq(a, Separator(a) + 1, Len(a)) \in Seq(STRING)
          /\ SubSeq(a, 3, Len(a)) \in Seq(STRING)
      BY <3>1, <3>2, PartOf
    <3> QED
      BY <3>3 DEF JoinedValue, a
  <2> QED
    BY <1>1, <1>2, <2>2 DEF FlagWithValue
<1>3. ASSUME NEW f \in Flags, FlagThenValue(f) PROVE OptionTypes'
  <2>1. argv[2] \in Seq(STRING)
    BY <1>3 DEF FlagThenValue, TextInv
  <2> QED
    BY <1>1, <1>3, <2>1 DEF FlagThenValue
<1>4. CASE Terminate \/ AskForHelp \/ Refuse \/ EndOfArguments
  BY <1>4 DEF Terminate, AskForHelp, Refuse, EndOfArguments, OptionTypes
<1> QED
  BY <1>2, <1>3, <1>4 DEF ParseCLI

(* A step of the reader keeps its buffers within their sizes. *)
LEMMA FileStep ==
  ASSUME TextInv, FileTypes, ParseStream
  PROVE  FileTypes'
<1> USE DEF FileTypes
<1>1. CASE EndOfFile
  BY <1>1 DEF EndOfFile
<1>2. CASE ParseLine
  <2> DEFINE t == Scanned.text
  <2>1. /\ lineno' = lineno + 1 /\ UNCHANGED ini /\ t \in Seq(STRING)
        /\ MaxSection \in Nat \ {0} /\ MaxName \in Nat \ {0}
    BY <1>2, LineIsText, BufferAssumption DEF ParseLine, ReadPiece
  <2>2. FirstError \in -1 .. lineno + 1 /\ error \in -1 .. lineno + 1
    BY DEF FirstError
  <2>3. CASE BlankOrComment(Scanned) \/ Continuation(Scanned)
    BY <2>1, <2>2, <2>3 DEF BlankOrComment, Continuation
  <2>4. CASE Heading(Scanned)
    <3> DEFINE inner == Tail(t)
               n == FindCharsOrComment(inner, {"]"})
    <3>1. inner \in Seq(STRING)
      <4>1. t # <<>>
        BY <2>4 DEF Heading, OpensBracket
      <4> HIDE DEF t
      <4> QED
        BY <2>1, <4>1
    <3>2. Before(inner, n) \in Seq(STRING)
      BY <3>1, Cut
    <3>3. Len(Strncpy0(Before(inner, n), MaxSection)) < MaxSection
      BY <2>1, <3>2, Fits0
    <3>4. \/ section' = Strncpy0(Before(inner, n), MaxSection) /\ prev_name' = <<>>
             /\ error' = error
          \/ error' = FirstError /\ UNCHANGED <<section, prev_name>>
      BY <2>4 DEF Heading
    <3>5. Len(<<>>) < MaxName
      BY <2>1
    <3> QED
      BY <2>1, <2>2, <3>3, <3>4, <3>5
  <2>5. CASE Pair(Scanned)
    <3> DEFINE n == FindCharsOrComment(t, {"=", ":"})
               name == RStrip(Before(t, n))
    <3>1. name \in Seq(STRING)
      BY <2>1, Cut
    <3>2. Len(Strncpy0(name, MaxName)) < MaxName
      BY <2>1, <3>1, Fits0
    <3>3. \/ prev_name' = Strncpy0(name, MaxName) /\ error' = error
          \/ error' = FirstError /\ UNCHANGED prev_name
      BY <2>5 DEF Pair
    <3>4. UNCHANGED section
      BY <2>5 DEF Pair
    <3> QED
      BY <2>1, <2>2, <3>2, <3>3, <3>4
  <2> QED
    BY <1>2, <2>3, <2>4, <2>5 DEF ParseLine
<1> QED
  BY <1>1, <1>2 DEF ParseStream

(* From the first argument to the first round every variable keeps its type:  *)
(* numbers have the width ValueReader gives them, and no heading and no key   *)
(* overruns ini_parse_stream's buffers.                                       *)
THEOREM StartupTypeCorrect == Spec => []StartTypeOK
<1> DEFINE Stages == Ended \cup {"arguments", "reading", "parsed", "ready"}
           Types  == OptionTypes /\ FileTypes /\ status \in Stages
<1>1. Init => Types
  <2> SUFFICES ASSUME Init PROVE Types
    OBVIOUS
  <2>1. OptionTypes
    <3>1. option = DefaultOption /\ cli = "parsing" /\ terminated = FALSE
      BY DEF Init, CliInit
    <3>2. DOMAIN DefaultOption = Flags
      BY DEF DefaultOption, Flags, ShortName
    <3>3. /\ DefaultOption.num_request = 10 /\ DefaultOption.repeat = 1
          /\ DefaultOption.start = 0
      BY DEF DefaultOption
    <3>4. 10 \in 0 .. UIntMax /\ 1 \in -IntMax - 1 .. IntMax /\ 0 \in -IntMax - 1 .. IntMax
      BY WidthAssumption
    <3>5. DOMAIN option = Flags /\ option.num_request = 10 /\ option.repeat = 1 /\ option.start = 0
      BY <3>1, <3>2, <3>3
    <3> QED
      BY <3>1, <3>4, <3>5 DEF OptionTypes
  <2>2. FileTypes
    BY BufferAssumption DEF Init, IniInit, FileTypes
  <2> QED
    BY <2>1, <2>2 DEF Init
<1>2. TextInv /\ Types /\ [Next]_vars => Types'
  <2> SUFFICES ASSUME TextInv, Types, [Next]_vars PROVE Types'
    OBVIOUS
  <2>1. CASE ParseArguments
    BY <2>1, OptionStep DEF ParseArguments, iniVars, FileTypes
  <2>2. CASE ReadConfig
    BY <2>2, FileStep DEF ReadConfig, cliVars, OptionTypes
  <2>3. CASE OpenConfig
    BY <2>3 DEF OpenConfig, OpenFile, OpenMissing, cliVars, OptionTypes, FileTypes
  <2>4. ASSUME UNCHANGED <<cliVars, iniVars>>, status' \in Stages PROVE Types'
    BY <2>4 DEF cliVars, iniVars, OptionTypes, FileTypes
  <2>5. CASE Leave \/ CannotLoad \/ InitParams
    BY <2>4, <2>5 DEF Leave, CannotLoad, InitParams, Ended
  <2>6. CASE Configure \/ GeneratorFails \/ MakeGenerator
    BY <2>4, <2>6 DEF Configure, GeneratorFails, MakeGenerator, Layout!Configure, Ended
  <2>7. CASE UNCHANGED vars
    BY <2>4, <2>7 DEF vars
  <2> QED
    BY <2>1, <2>2, <2>3, <2>5, <2>6, <2>7 DEF Next, Finished
<1>3. Types => StartTypeOK
  BY DEF OptionTypes, FileTypes, StartTypeOK
<1> HIDE DEF Types
<1> QED
  BY <1>1, <1>2, <1>3, TextKept, PTL DEF Spec

-----------------------------------------------------------------------------
(* How an argument is read. *)

(* No two flags share a name, and none is called help. *)
LEMMA NamesDiffer ==
  /\ \A f \in Flags : ShortName[f] # "h" /\ LongName[f] # "help" /\ LongName[f] # "="
  /\ \A f, g \in Flags : ShortName[f] = ShortName[g] => f = g
  /\ \A f, g \in Flags : LongName[f] = LongName[g] => f = g
<1> USE DEF Flags, ShortName, LongName
<1>1. \A f \in Flags : ShortName[f] # "h" /\ LongName[f] # "help" /\ LongName[f] # "="
  OBVIOUS
<1>2. \A f, g \in Flags : ShortName[f] = ShortName[g] => f = g
  OBVIOUS
<1>3. \A f, g \in Flags : LongName[f] = LongName[g] => f = g
  OBVIOUS
<1> QED
  BY <1>1, <1>2, <1>3

(* The separator is the first "=", or behind the argument. *)
LEMMA SeparatorPlace ==
  ASSUME NEW a \in Seq(STRING), Len(a) > 1
  PROVE  /\ Separator(a) \in 2 .. Len(a) + 1
         /\ Separator(a) <= Len(a) => a[Separator(a)] = "="
         /\ \A j \in 2 .. Separator(a) - 1 : a[j] # "="
<1> DEFINE S == {i \in 2 .. Len(a) : a[i] = "="}
<1>0. Len(a) \in Nat
  OBVIOUS
<1>1. CASE S # {}
  <2>1. PICK x \in S : \A y \in S : x <= y
    <3>1. S \in SUBSET Nat
      BY <1>0
    <3> HIDE DEF S
    <3> QED
      BY <1>1, <3>1, Least
  <2>2. x \in 2 .. Len(a) /\ a[x] = "=" /\ \A j \in 2 .. x - 1 : a[j] # "="
    BY <1>0, <2>1
  <2>3. PICK y : /\ y = CHOOSE i \in 2 .. Len(a) : a[i] = "=" /\ \A j \in 2 .. i - 1 : a[j] # "="
                 /\ y \in 2 .. Len(a) /\ a[y] = "=" /\ \A j \in 2 .. y - 1 : a[j] # "="
    BY <2>2
  <2>4. Separator(a) = y
    BY <1>1, <2>3 DEF Separator
  <2> QED
    BY <1>0, <2>3, <2>4
<1>2. CASE S = {}
  <2>1. Separator(a) = Len(a) + 1
    BY <1>2 DEF Separator
  <2> QED
    BY <1>0, <1>2, <2>1
<1> QED
  BY <1>1, <1>2

(* Two pieces are one when they are the same. *)
LEMMA OnePiece ==
  ASSUME NEW T, NEW a \in Seq(T), Len(a) > 1, NEW l
  PROVE  SubSeq(a, 2, 2) = <<l>> <=> a[2] = l
<1>1. PICK r : r = SubSeq(a, 2, 2)
  OBVIOUS
<1>2. r \in Seq(T) /\ Len(r) = 1 /\ r[1] = a[2]
  BY <1>1
<1>3. PICK q : q = <<l>>
  OBVIOUS
<1>4. Len(q) = 1 /\ q[1] = l
  BY <1>3
<1>5. r = q => a[2] = l
  BY <1>2, <1>4
<1>6. ASSUME a[2] = l PROVE r = q
  <2>1. l \in T
    BY <1>6
  <2>2. q \in Seq(T)
    BY <1>3, <2>1
  <2>3. \A i \in 1 .. Len(r) : r[i] = q[i]
    BY <1>2, <1>4, <1>6
  <2> QED
    BY ONLY <1>2, <1>4, <2>2, <2>3, SeqEqual
<1> QED
  BY <1>1, <1>3, <1>5, <1>6

(* Text over an alphabet is text over a larger one. *)
LEMMA Widen ==
  ASSUME NEW S, NEW T, S \subseteq T, NEW v \in Seq(S)
  PROVE  v \in Seq(T)
  OBVIOUS

(* Pieces put before a text. *)
LEMMA PutBefore ==
  ASSUME NEW x, NEW y, NEW z, NEW v \in Seq(STRING)
  PROVE  /\ Len(<<x, y>> \o v) = 2 + Len(v)
         /\ (<<x, y>> \o v)[1] = x /\ (<<x, y>> \o v)[2] = y
         /\ \A i \in 1 .. Len(v) : (<<x, y>> \o v)[2 + i] = v[i]
         /\ Len(<<x, y, z>> \o v) = 3 + Len(v)
         /\ (<<x, y, z>> \o v)[1] = x /\ (<<x, y, z>> \o v)[2] = y
         /\ (<<x, y, z>> \o v)[3] = z
         /\ \A i \in 1 .. Len(v) : (<<x, y, z>> \o v)[3 + i] = v[i]
<1>1. PICK T : STRING \subseteq T /\ x \in T /\ y \in T /\ z \in T
  <2>1. STRING \subseteq STRING \cup {x, y, z} /\ {x, y, z} \subseteq STRING \cup {x, y, z}
    OBVIOUS
  <2> QED
    BY <2>1
<1>2. v \in Seq(T)
  BY <1>1, Widen
<1>3. /\ Len(<<x, y>> \o v) = 2 + Len(v)
      /\ (<<x, y>> \o v)[1] = x /\ (<<x, y>> \o v)[2] = y
      /\ \A i \in 1 .. Len(v) : (<<x, y>> \o v)[2 + i] = v[i]
  BY ONLY <1>1, <1>2
<1>4. /\ Len(<<x, y, z>> \o v) = 3 + Len(v)
      /\ (<<x, y, z>> \o v)[1] = x /\ (<<x, y, z>> \o v)[2] = y
      /\ (<<x, y, z>> \o v)[3] = z
      /\ \A i \in 1 .. Len(v) : (<<x, y, z>> \o v)[3 + i] = v[i]
  BY ONLY <1>1, <1>2
<1> QED
  BY <1>3, <1>4

(* A long argument names what stands before its separator. *)
LEMMA LongNamed ==
  ASSUME ~terminated, NEW a \in Seq(STRING), Len(a) > 1, a[1] = "--",
         NEW short, NEW long, long # "="
  PROVE  /\ Named(a, short, long) <=> a[2] = long /\ (Len(a) > 2 => a[3] = "=")
         /\ Named(a, short, long) =>
              (Joined(a) <=> Len(a) > 2) /\ JoinedValue(a) = SubSeq(a, 4, Len(a))
<1> DEFINE e == Separator(a)
<1>1. /\ e \in 2 .. Len(a) + 1 /\ Len(a) \in Nat
      /\ e <= Len(a) => a[e] = "="
      /\ \A j \in 2 .. e - 1 : a[j] # "="
  BY SeparatorPlace
<1>2. IsLong(a) /\ ~IsShort(a)
  BY DEF IsLong, IsShort
<1>3. Named(a, short, long) <=> SubSeq(a, 2, e - 1) = <<long>>
  BY <1>2 DEF Named
<1>4. /\ Joined(a) <=> e <= Len(a)
      /\ JoinedValue(a) = SubSeq(a, e + 1, Len(a))
  BY <1>2 DEF Joined, JoinedValue
<1> HIDE DEF e
<1>5. SubSeq(a, 2, e - 1) = <<long>> <=> e = 3 /\ a[2] = long
  <2>1. Len(SubSeq(a, 2, e - 1)) = e - 2 /\ Len(<<long>>) = 1
    BY <1>1
  <2>2. e = 3 => (SubSeq(a, 2, e - 1) = <<long>> <=> a[2] = long)
    <3>1. SubSeq(a, 2, 2) = <<long>> <=> a[2] = long
      BY OnePiece
    <3>2. e = 3 => e - 1 = 2
      OBVIOUS
    <3> QED
      BY ONLY <3>1, <3>2
  <2>3. SubSeq(a, 2, e - 1) = <<long>> => e = 3
    <3>1. SubSeq(a, 2, e - 1) = <<long>> => e - 2 = 1
      BY ONLY <2>1
    <3> QED
      BY <1>1, <3>1
  <2> QED
    BY ONLY <2>2, <2>3
<1>6. a[2] = long => (e = 3 <=> (Len(a) > 2 => a[3] = "="))
  <2> SUFFICES ASSUME a[2] = long PROVE e = 3 <=> (Len(a) > 2 => a[3] = "=")
    OBVIOUS
  <2>1. e # 2
    BY <1>1
  <2>2. Len(a) > 2 /\ a[3] = "=" => e = 3
    BY <1>1, <2>1
  <2> QED
    BY <1>1, <2>1, <2>2
<1> QED
  BY <1>1, <1>3, <1>4, <1>5, <1>6

(* A short one names its second piece, and the rest is joined to it. *)
LEMMA ShortNamed ==
  ASSUME ~terminated, NEW a, Len(a) > 1, a[1] = "-", NEW short, NEW long
  PROVE  /\ Named(a, short, long) <=> a[2] = short
         /\ Joined(a) <=> Len(a) > 2
         /\ JoinedValue(a) = SubSeq(a, 3, Len(a))
  BY DEF Named, IsLong, IsShort, Joined, JoinedValue

(* Any other names nothing. *)
LEMMA Nameless ==
  ASSUME NEW a, ~(Len(a) > 1 /\ a[1] \in {"-", "--"}), NEW short, NEW long
  PROVE  ~Named(a, short, long)
  BY DEF Named, IsLong, IsShort

(* A flag with its value joined to it is read as that flag with that value. *)
LEMMA JoinedRead ==
  ASSUME ~terminated, NEW f \in Flags, NEW v \in Seq(STRING),
         NEW a \in JoinedForms(f, v), a \in Seq(STRING)
  PROVE  /\ ~IsTerminator(a) /\ ~AsksHelp(a) /\ Matched(a) = {f}
         /\ Joined(a) /\ JoinedValue(a) = v
<1>1. CASE a = <<"--", LongName[f], "=">> \o v
  <2>1. PICK x, y, z : x = "--" /\ y = LongName[f] /\ z = "="
    OBVIOUS
  <2>2. a = <<x, y, z>> \o v
    BY <1>1, <2>1
  <2>3. /\ Len(a) = 3 + Len(v) /\ a[1] = x /\ a[2] = y /\ a[3] = z
        /\ \A i \in 1 .. Len(v) : a[3 + i] = v[i]
    BY ONLY <2>2, v \in Seq(STRING), PutBefore
  <2>4. /\ a[1] = "--" /\ a[2] = LongName[f] /\ a[3] = "=" /\ Len(a) > 2 /\ Len(a) > 1
        /\ Len(v) \in Nat
    BY <2>1, <2>3
  <2>5. ~IsTerminator(a)
    <3>1. Len(<<"--">>) = 1
      OBVIOUS
    <3> QED
      BY <2>4, <3>1 DEF IsTerminator
  <2>6. \A short, long : long # "=" => (Named(a, short, long) <=> long = LongName[f])
    BY <2>3, <2>4, LongNamed
  <2>7. ~AsksHelp(a) /\ Matched(a) = {f}
    BY <2>6, NamesDiffer DEF AsksHelp, Matched
  <2>8. Joined(a) /\ JoinedValue(a) = SubSeq(a, 4, Len(a))
    <3>1. LongName[f] # "=" /\ Named(a, ShortName[f], LongName[f])
      BY <2>6, NamesDiffer
    <3> QED
      BY ONLY ~terminated, a \in Seq(STRING), <2>4, <3>1, LongNamed
  <2>9. SubSeq(a, 4, Len(a)) = v
    <3>1. PICK r : r = SubSeq(a, 4, Len(a))
      OBVIOUS
    <3>2. /\ r \in Seq(STRING) /\ Len(r) = Len(v)
          /\ \A i \in 1 .. Len(v) : r[i] = a[3 + i]
      BY <2>3, <2>4, <3>1
    <3>3. \A i \in 1 .. Len(r) : r[i] = v[i]
      BY ONLY <2>3, <3>2
    <3>4. r = v
      BY ONLY <3>2, <3>3, v \in Seq(STRING), SeqEqual
    <3> QED
      BY ONLY <3>1, <3>4
  <2> QED
    BY <2>5, <2>7, <2>8, <2>9
<1>2. CASE a = <<"-", ShortName[f]>> \o v /\ v # <<>>
  <2>1. PICK x, y, z : x = "-" /\ y = ShortName[f] /\ z = "="
    OBVIOUS
  <2>2. a = <<x, y>> \o v
    BY <1>2, <2>1
  <2>3. /\ Len(a) = 2 + Len(v) /\ a[1] = x /\ a[2] = y
        /\ \A i \in 1 .. Len(v) : a[2 + i] = v[i]
    BY ONLY <2>2, v \in Seq(STRING), PutBefore
  <2>4. a[1] = "-" /\ a[2] = ShortName[f] /\ Len(a) > 2 /\ Len(a) > 1 /\ Len(v) \in Nat
    BY <1>2, <2>1, <2>3
  <2>5. ~IsTerminator(a)
    <3>1. Len(<<"--">>) = 1
      OBVIOUS
    <3> QED
      BY <2>4, <3>1 DEF IsTerminator
  <2>6. \A short, long : Named(a, short, long) <=> short = ShortName[f]
    BY <2>4, ShortNamed
  <2>7. ~AsksHelp(a) /\ Matched(a) = {f}
    BY <2>6, NamesDiffer DEF AsksHelp, Matched
  <2>8. Joined(a) /\ JoinedValue(a) = SubSeq(a, 3, Len(a))
    BY ONLY ~terminated, <2>4, ShortNamed
  <2>9. SubSeq(a, 3, Len(a)) = v
    <3>1. PICK r : r = SubSeq(a, 3, Len(a))
      OBVIOUS
    <3>2. /\ r \in Seq(STRING) /\ Len(r) = Len(v)
          /\ \A i \in 1 .. Len(v) : r[i] = a[2 + i]
      BY <2>3, <2>4, <3>1
    <3>3. \A i \in 1 .. Len(r) : r[i] = v[i]
      BY ONLY <2>3, <3>2
    <3>4. r = v
      BY ONLY <3>2, <3>3, v \in Seq(STRING), SeqEqual
    <3> QED
      BY ONLY <3>1, <3>4
  <2> QED
    BY <2>5, <2>7, <2>8, <2>9
<1> QED
  BY <1>1, <1>2 DEF JoinedForms

(* A flag on its own is read as that flag, whose value is still to come. *)
LEMMA SplitRead ==
  ASSUME ~terminated, NEW f \in Flags, NEW a \in SplitForms(f), a \in Seq(STRING)
  PROVE  ~IsTerminator(a) /\ ~AsksHelp(a) /\ Matched(a) = {f} /\ ~Joined(a)
<1>1. Len(<<"--">>) = 1
  OBVIOUS
<1>2. CASE a = <<"--", LongName[f]>>
  <2>1. Len(a) = 2 /\ Len(a) > 1 /\ ~(Len(a) > 2) /\ a[1] = "--" /\ a[2] = LongName[f]
    BY <1>2
  <2>2. \A short, long : long # "=" => /\ Named(a, short, long) <=> long = LongName[f]
                                       /\ Named(a, short, long) => ~Joined(a)
    BY <2>1, LongNamed
  <2> QED
    BY <1>1, <2>1, <2>2, NamesDiffer DEF IsTerminator, AsksHelp, Matched
<1>3. CASE a = <<"-", ShortName[f]>>
  <2>1. Len(a) = 2 /\ Len(a) > 1 /\ ~(Len(a) > 2) /\ a[1] = "-" /\ a[2] = ShortName[f]
    BY <1>3
  <2>2. ~Joined(a) /\ \A short, long : Named(a, short, long) <=> short = ShortName[f]
    BY <2>1, ShortNamed
  <2> QED
    BY <1>1, <2>1, <2>2, NamesDiffer DEF IsTerminator, AsksHelp, Matched
<1> QED
  BY <1>2, <1>3 DEF SplitForms

(* A request for help is read as one, and as nothing else. *)
LEMMA HelpRead ==
  ASSUME ~terminated, NEW a \in Seq(STRING), HelpForm(a)
  PROVE  ~IsTerminator(a) /\ AsksHelp(a) /\ Matched(a) = {}
<1>1. Len(<<"--">>) = 1 /\ Len(a) > 1
  BY DEF HelpForm
<1>2. CASE a[1] = "-" /\ a[2] = "h"
  <2>1. \A short, long : Named(a, short, long) <=> short = "h"
    BY <1>1, <1>2, ShortNamed
  <2>2. \A f \in Flags : ShortName[f] # "h"
    BY NamesDiffer
  <2>3. ~IsTerminator(a)
    BY ONLY <1>1 DEF IsTerminator
  <2>4. AsksHelp(a)
    BY ONLY <2>1 DEF AsksHelp
  <2>5. Matched(a) = {}
    BY ONLY <2>1, <2>2 DEF Matched
  <2> QED
    BY <2>3, <2>4, <2>5
<1>3. CASE a[1] = "--" /\ a[2] = "help" /\ (Len(a) > 2 => a[3] = "=")
  <2>1. \A short, long : long # "=" => (Named(a, short, long) <=> long = "help")
    BY <1>1, <1>3, LongNamed
  <2>2. \A f \in Flags : LongName[f] # "help" /\ LongName[f] # "="
    BY NamesDiffer
  <2>3. ~IsTerminator(a)
    BY ONLY <1>1 DEF IsTerminator
  <2>4. AsksHelp(a)
    BY ONLY <2>1 DEF AsksHelp
  <2>5. Matched(a) = {}
    BY ONLY <2>1, <2>2 DEF Matched
  <2> QED
    BY <2>3, <2>4, <2>5
<1> QED
  BY <1>2, <1>3 DEF HelpForm

(* What nobody declared is read as nothing. *)
LEMMA UnknownRead ==
  ASSUME ~terminated, NEW a \in Seq(STRING), Unknown(a)
  PROVE  ~IsTerminator(a) /\ ~AsksHelp(a) /\ Matched(a) = {}
<1>1. ~IsTerminator(a)
  BY DEF IsTerminator, Unknown
<1>2. CASE ~(Len(a) > 1 /\ a[1] \in {"-", "--"})
  BY <1>1, <1>2, Nameless DEF AsksHelp, Matched
<1>3. CASE Len(a) > 1 /\ a[1] = "-"
  <2>1. \A short, long : Named(a, short, long) <=> a[2] = short
    BY <1>3, ShortNamed
  <2>2. a[2] # "h" /\ \A f \in Flags : a[2] # ShortName[f]
    BY <1>3 DEF Unknown
  <2> QED
    BY <1>1, <2>1, <2>2 DEF AsksHelp, Matched
<1>4. CASE Len(a) > 1 /\ a[1] = "--"
  <2>1. \A short, long :
          long # "=" => (Named(a, short, long) <=> a[2] = long /\ (Len(a) > 2 => a[3] = "="))
    BY <1>4, LongNamed
  <2>2. \/ a[2] # "help" /\ \A f \in Flags : a[2] # LongName[f]
        \/ Len(a) > 2 /\ a[3] # "="
    BY <1>4 DEF Unknown
  <2> QED
    BY <1>1, <2>1, <2>2, NamesDiffer DEF AsksHelp, Matched
<1> QED
  BY <1>2, <1>3, <1>4

(* A value that fits its flag's type is read as what it denotes. *)
LEMMA ValueDenoted ==
  ASSUME NEW f \in Flags, NEW v \in Seq(STRING), NEW x, Denotes(f, v, x)
  PROVE  Readable(f, v) /\ (Fits(f, x) => ValueRead(f, v) = x)
<1>1. CASE f \notin Numeric
  BY <1>1 DEF Denotes, Readable, ValueRead
<1>2. CASE f \in Numeric
  <2>1. Readable(f, v)
    BY <1>2 DEF Denotes
  <2>2. ASSUME Fits(f, x) PROVE ValueRead(f, v) = x
    <3>1. ValueRead(f, v) = ReadNumber(f, x)
      BY <1>2, <2>2 DEF Denotes, ValueRead
    <3>2. CASE f = "num_request"
      <4>1. x \in 0 .. UIntMax /\ UIntMax \in Nat
        BY <2>2, <3>2, WidthAssumption DEF Fits
      <4>2. x % (UIntMax + 1) = x
        <5> DEFINE m == UIntMax + 1
        <5>1. m \in Nat /\ m > 0 /\ x \in 0 .. m - 1
          BY <4>1
        <5> HIDE DEF m
        <5>2. x % m = x
          BY ONLY <5>1
        <5> QED
          BY <5>2 DEF m
      <4> QED
        BY <3>1, <3>2, <4>1, <4>2 DEF ReadNumber
    <3>3. CASE f # "num_request"
      <4>1. x \in -IntMax - 1 .. IntMax /\ IntMax \in Nat
        BY <1>2, <2>2, <3>3, WidthAssumption DEF Fits, Numeric
      <4> QED
        BY <3>1, <3>3, <4>1 DEF ReadNumber
    <3> QED
      BY <3>2, <3>3
  <2> QED
    BY <2>1, <2>2
<1> QED
  BY <1>1, <1>2

-----------------------------------------------------------------------------
(* How far the command line has been read. *)

\* What is left of it behind its first k arguments.
Rest(args) ==
  CHOOSE h \in [0 .. Len(args) -> Seq(Seq(STRING))] : TakesOff(ChunksOf(args), h)

LEMMA RestTaken ==
  ASSUME NEW s \in Starts
  PROVE  /\ Len(s.args) \in Nat /\ DOMAIN s.args = 1 .. Len(s.args)
         /\ Rest(s.args) \in [0 .. Len(s.args) -> Seq(Seq(STRING))]
         /\ Rest(s.args)[0] = ArgvOf(s.args) /\ Rest(s.args)[Len(s.args)] = <<>>
         /\ \A k \in 0 .. Len(s.args) - 1 :
              /\ s.args[k + 1].chunks \in Seq(Seq(STRING))
              /\ Rest(s.args)[k] = s.args[k + 1].chunks \o Rest(s.args)[k + 1]
<1> DEFINE T == Seq(STRING)
           c == ChunksOf(s.args)
           r == Rest(s.args)
<1>1. PICK n \in Nat : n = Len(s.args)
  BY TextAssumption
<1>2. c \in Seq(Seq(T)) /\ DOMAIN s.args = 1 .. n
  BY <1>1, TextAssumption
<1>3. c = [i \in 1 .. n |-> s.args[i].chunks]
  BY <1>1 DEF ChunksOf
<1>4. Len(c) = n /\ \A i \in 1 .. n : c[i] = s.args[i].chunks
  <2> HIDE DEF c, T
  <2> QED
    BY <1>2, <1>3
<1>5. r \in [0 .. n -> Seq(T)] /\ TakesOff(c, r)
  <2>1. \E h \in [0 .. Len(c) -> Seq(T)] : TakesOff(c, h)
    <3> HIDE DEF c, T
    <3> QED
      BY ONLY <1>2, TakenOff
  <2>2. \E h \in [0 .. Len(s.args) -> Seq(T)] : TakesOff(c, h)
    BY ONLY <1>1, <1>4, <2>1
  <2>3. r = CHOOSE h \in [0 .. Len(s.args) -> Seq(T)] : TakesOff(c, h)
    BY DEF Rest
  <2>4. r \in [0 .. Len(s.args) -> Seq(T)] /\ TakesOff(c, r)
    <3> HIDE DEF r, c, T
    <3> QED
      BY ONLY <2>2, <2>3
  <2> QED
    BY <1>1, <2>4
<1>6. ASSUME NEW k \in 0 .. n - 1
      PROVE  s.args[k + 1].chunks \in Seq(T) /\ r[k] = s.args[k + 1].chunks \o r[k + 1]
  <2>1. k + 1 \in 1 .. n
    OBVIOUS
  <2>2. c[k + 1] \in Seq(T)
    <3> HIDE DEF c, T
    <3> QED
      BY ONLY <1>2, <1>4, <2>1, ElementOfSeq
  <2>3. r[k] = c[k + 1] \o r[k + 1]
    BY ONLY <1>4, <1>5, k \in 0 .. n - 1 DEF TakesOff
  <2> QED
    BY ONLY <1>4, <2>1, <2>2, <2>3
<1>7. r[0] = ArgvOf(s.args) /\ r[n] = <<>>
  BY ONLY <1>4, <1>5 DEF TakesOff, ArgvOf
<1> QED
  BY ONLY <1>1, <1>2, <1>5, <1>6, <1>7

(* The parser's look at an argument of one chunk, and of two. *)
LEMMA OneChunk ==
  ASSUME NEW T, NEW a \in T, NEW r \in Seq(T)
  PROVE  /\ <<a>> \o r # <<>> /\ Head(<<a>> \o r) = a /\ Tail(<<a>> \o r) = r
<1>1. PICK w : w = <<a>> \o r
  OBVIOUS
<1>2. /\ w \in Seq(T) /\ Len(w) = 1 + Len(r) /\ Len(r) \in Nat /\ w[1] = a
      /\ \A i \in 1 .. Len(r) : w[1 + i] = r[i]
  BY <1>1
<1>3. w # <<>> /\ Head(w) = a
  BY <1>2
<1>4. Tail(w) = r
  <2>1. Tail(w) \in Seq(T) /\ Len(Tail(w)) = Len(r)
    BY <1>2, <1>3
  <2>2. \A i \in 1 .. Len(Tail(w)) : Tail(w)[i] = r[i]
    BY <1>2, <1>3, <2>1
  <2> QED
    BY ONLY <2>1, <2>2, r \in Seq(T), SeqEqual
<1> QED
  BY ONLY <1>1, <1>3, <1>4

LEMMA TwoChunks ==
  ASSUME NEW T, NEW a \in T, NEW v \in T, NEW r \in Seq(T)
  PROVE  /\ <<a, v>> \o r # <<>> /\ Head(<<a, v>> \o r) = a /\ (<<a, v>> \o r)[2] = v
         /\ Len(<<a, v>> \o r) > 1
         /\ SubSeq(<<a, v>> \o r, 3, Len(<<a, v>> \o r)) = r
<1>1. PICK w : w = <<a, v>> \o r
  OBVIOUS
<1>2. /\ w \in Seq(T) /\ Len(w) = 2 + Len(r) /\ Len(r) \in Nat /\ w[1] = a /\ w[2] = v
      /\ \A i \in 1 .. Len(r) : w[2 + i] = r[i]
  BY <1>1
<1>3. w # <<>> /\ Head(w) = a /\ Len(w) > 1
  BY <1>2
<1>4. SubSeq(w, 3, Len(w)) = r
  <2>1. PICK q : q = SubSeq(w, 3, Len(w))
    OBVIOUS
  <2>2. q \in Seq(T) /\ Len(q) = Len(r) /\ \A i \in 1 .. Len(r) : q[i] = w[2 + i]
    BY <1>2, <2>1
  <2>3. \A i \in 1 .. Len(q) : q[i] = r[i]
    BY ONLY <1>2, <2>2
  <2>4. q = r
    BY ONLY <2>2, <2>3, r \in Seq(T), SeqEqual
  <2> QED
    BY ONLY <2>1, <2>4
<1> QED
  BY ONLY <1>1, <1>2, <1>3, <1>4

(* What is meant by an argument is what it says. *)
LEMMA SettingForm ==
  ASSUME start \in Starts, NEW i \in DOMAIN Args, Kind(i) = "set"
  PROVE  /\ Args[i].means.flag \in Flags
         /\ \E v \in Suffixes(Last(Args[i].chunks)) :
              /\ Args[i].chunks \in Spellings(Args[i].means.flag, v)
              /\ Denotes(Args[i].means.flag, v, Args[i].means.value)
  BY MeaningAssumption DEF Args, Kind

LEMMA HelpIsForm ==
  ASSUME start \in Starts, NEW i \in DOMAIN Args, Kind(i) = "help"
  PROVE  Len(Args[i].chunks) = 1 /\ HelpForm(Args[i].chunks[1])
  BY MeaningAssumption DEF Args, Kind

LEMMA WrongForm ==
  ASSUME start \in Starts, NEW i \in DOMAIN Args, Kind(i) = "wrong"
  PROVE  /\ Len(Args[i].chunks) = 1
         /\ \/ Unknown(Args[i].chunks[1])
            \/ \E f \in Flags : \E v \in Suffixes(Args[i].chunks[1]) :
                 Args[i].chunks[1] \in JoinedForms(f, v) /\ ~Readable(f, v)
  BY MeaningAssumption DEF Args, Kind

(* What is left of a text behind some place is text. *)
LEMMA SuffixIsText ==
  ASSUME NEW a \in Seq(STRING), NEW v \in Suffixes(a)
  PROVE  v \in Seq(STRING)
<1>1. CASE v = <<>>
  BY <1>1
<1>2. CASE \E l \in 1 .. Len(a) : v = SubSeq(a, l, Len(a))
  BY <1>2
<1> QED
  BY <1>1, <1>2 DEF Suffixes

-----------------------------------------------------------------------------
(* Reading on. *)

\* The settings for a flag among the first k arguments, and the last value
\* they give it.
SettingsOf(f, k) == {i \in 1 .. k : Kind(i) = "set" /\ Args[i].means.flag = f}
MeantBy(f, k) ==
  IF SettingsOf(f, k) = {} THEN DefaultOption[f]
  ELSE Args[Latest(SettingsOf(f, k))].means.value

(* One more setting changes what is meant for its flag alone. *)
LEMMA OneMoreSetting ==
  ASSUME NEW k \in Nat, Kind(k + 1) = "set", NEW f
  PROVE  MeantBy(f, k + 1) =
           IF Args[k + 1].means.flag = f THEN Args[k + 1].means.value ELSE MeantBy(f, k)
<1>1. PICK A : A = SettingsOf(f, k)
  OBVIOUS
<1>2. PICK B : B = SettingsOf(f, k + 1)
  OBVIOUS
<1>3. A \in SUBSET (1 .. k) /\ k + 1 \notin A
  BY <1>1 DEF SettingsOf
<1>4. B = IF Args[k + 1].means.flag = f THEN A \cup {k + 1} ELSE A
  <2>1. 1 .. k + 1 = (1 .. k) \cup {k + 1}
    OBVIOUS
  <2> QED
    BY <1>1, <1>2, <2>1 DEF SettingsOf
<1> DEFINE Value(S) == IF S = {} THEN DefaultOption[f]
                       ELSE Args[Latest(S)].means.value
<1>0. MeantBy(f, k) = Value(A) /\ MeantBy(f, k + 1) = Value(B)
  BY ONLY <1>1, <1>2 DEF MeantBy
<1>5. CASE Args[k + 1].means.flag # f
  <2>1. A = B
    BY <1>4, <1>5
  <2> HIDE DEF Value
  <2> QED
    BY ONLY <1>0, <1>5, <2>1
<1>6. CASE Args[k + 1].means.flag = f
  <2>1. \A i \in B : (\A j \in B : j <= i) <=> i = k + 1
    BY <1>3, <1>4, <1>6
  <2>2. k + 1 \in B
    BY <1>4, <1>6
  <2>3. Latest(B) = k + 1
    BY ONLY <2>1, <2>2 DEF Latest
  <2>4. Value(B) = Args[k + 1].means.value
    BY ONLY <2>2, <2>3
  <2> HIDE DEF Value
  <2> QED
    BY ONLY <1>0, <1>6, <2>4
<1> QED
  BY <1>5, <1>6

\* The first k arguments were settings, and have been obeyed.
ReadUpTo(k) ==
  /\ \A i \in 1 .. k : Kind(i) = "set"
  /\ \A f \in Flags : Fits(f, MeantBy(f, k)) => option[f] = MeantBy(f, k)

\* As long as every argument is plain, the parser stands between two of them.
ReadAsMeant ==
  Plain =>
    /\ ~terminated
    /\ \E k \in 0 .. Len(Args) :
         /\ ReadUpTo(k)
         /\ cli = "parsing" => argv = Rest(Args)[k]
         /\ cli = "parsed" => k = Len(Args)
         /\ cli = "help" => k < Len(Args) /\ Kind(k + 1) = "help"
         /\ cli = "error" => k < Len(Args) /\ Kind(k + 1) = "wrong"

(* A readable value is taken for its flag, and for no other. *)
LEMMA ValueTaken ==
  ASSUME OptionTypes, NEW f \in Flags, NEW v \in Seq(STRING), NEW x, Denotes(f, v, x),
         ParseValue(f, v)
  PROVE  /\ cli' = cli /\ terminated' = terminated
         /\ Fits(f, x) => option'[f] = x
         /\ \A g \in Flags : g # f => option'[g] = option[g]
<1>1. Readable(f, v) /\ (Fits(f, x) => ValueRead(f, v) = x)
  BY ValueDenoted
<1>2. PICK y : y = ValueRead(f, v)
  OBVIOUS
<1>3. option' = [option EXCEPT ![f] = y] /\ cli' = cli /\ terminated' = terminated
  BY ONLY <1>1, <1>2, ParseValue(f, v) DEF ParseValue
<1>4. DOMAIN option = Flags
  BY DEF OptionTypes
<1>5. option'[f] = y /\ \A g \in Flags : g # f => option'[g] = option[g]
  BY ONLY <1>3, <1>4, f \in Flags
<1> QED
  BY ONLY <1>1, <1>2, <1>3, <1>5

(* A setting, however it is spelled, is taken off the command line and obeyed *)
(* as what it means.                                                          *)
LEMMA SettingTaken ==
  ASSUME start \in Starts, OptionTypes, ~terminated, cli = "parsing", ParseCLI,
         NEW k \in 0 .. Len(Args) - 1, Kind(k + 1) = "set", argv = Rest(Args)[k]
  PROVE  /\ argv' = Rest(Args)[k + 1] /\ cli' = "parsing" /\ ~terminated'
         /\ Args[k + 1].means.flag \in Flags
         /\ LET f == Args[k + 1].means.flag
                x == Args[k + 1].means.value
            IN /\ Fits(f, x) => option'[f] = x
               /\ \A g \in Flags : g # f => option'[g] = option[g]
<1> DEFINE T == Seq(STRING)
<1>1. PICK c, r, f, x : /\ c = Args[k + 1].chunks /\ r = Rest(Args)[k + 1]
                        /\ f = Args[k + 1].means.flag /\ x = Args[k + 1].means.value
  OBVIOUS
<1>2. c \in Seq(T) /\ r \in Seq(T) /\ argv = c \o r /\ k + 1 \in DOMAIN Args
  <2>1. k + 1 \in 0 .. Len(Args) /\ k + 1 \in 1 .. Len(Args)
    BY RestTaken DEF Args
  <2>2. DOMAIN Args = 1 .. Len(Args)
    BY RestTaken DEF Args
  <2>3. Rest(Args) \in [0 .. Len(Args) -> Seq(T)]
    BY RestTaken DEF Args
  <2>4. c \in Seq(T) /\ argv = c \o r
    BY RestTaken, <1>1 DEF Args
  <2> QED
    BY ONLY <1>1, <2>1, <2>2, <2>3, <2>4
<1>3. PICK v : f \in Flags /\ v \in Suffixes(Last(c)) /\ c \in Spellings(f, v) /\ Denotes(f, v, x)
  BY <1>1, <1>2, SettingForm
<1>4. CASE \E a \in JoinedForms(f, v) : c = <<a>>
  <2>1. PICK a \in JoinedForms(f, v) : c = <<a>>
    BY <1>4
  <2>2. Len(c) = 1 /\ c[1] = a
    BY ONLY <2>1
  <2>3. a \in T /\ Last(c) = a
    <3>1. 1 \in 1 .. Len(c)
      BY ONLY <2>2
    <3> HIDE DEF T
    <3> QED
      BY ONLY <1>2, <2>2, <3>1, ElementOfSeq DEF Last
  <2>4. v \in T
    BY <1>3, <2>3, SuffixIsText
  <2>5. argv # <<>> /\ Head(argv) = a /\ Tail(argv) = r
    BY ONLY <1>2, <2>1, <2>3, OneChunk
  <2>6. /\ ~IsTerminator(a) /\ ~AsksHelp(a) /\ Matched(a) = {f}
        /\ Joined(a) /\ JoinedValue(a) = v
    BY <1>3, <2>1, <2>3, <2>4, JoinedRead
  <2>7. FlagWithValue(f)
    <3>1. ~Terminate /\ ~AskForHelp /\ ~Refuse /\ ~EndOfArguments
      BY ONLY <2>5, <2>6 DEF Terminate, AskForHelp, Refuse, EndOfArguments
    <3>2. PICK g \in Flags : FlagWithValue(g) \/ FlagThenValue(g)
      BY <3>1 DEF ParseCLI
    <3>3. g = f /\ ~FlagThenValue(g)
      BY ONLY <2>5, <2>6, <3>2 DEF FlagWithValue, FlagThenValue
    <3> QED
      BY ONLY <3>2, <3>3
  <2>8. ParseValue(f, v) /\ argv' = r
    BY ONLY <2>5, <2>6, <2>7 DEF FlagWithValue
  <2>9. /\ cli' = cli /\ terminated' = terminated
        /\ Fits(f, x) => option'[f] = x
        /\ \A g \in Flags : g # f => option'[g] = option[g]
    BY <1>3, <2>4, <2>8, ValueTaken
  <2> QED
    BY <1>1, <1>3, <2>8, <2>9
<1>5. CASE \E a \in SplitForms(f) : c = <<a, v>>
  <2>1. PICK a \in SplitForms(f) : c = <<a, v>>
    BY <1>5
  <2>2. Len(c) = 2 /\ c[1] = a /\ c[2] = v
    BY ONLY <2>1
  <2>3. a \in T /\ v \in T
    <3>1. 1 \in 1 .. Len(c) /\ 2 \in 1 .. Len(c)
      BY ONLY <2>2
    <3> HIDE DEF T
    <3> QED
      BY ONLY <1>2, <2>2, <3>1, ElementOfSeq
  <2>4. /\ argv # <<>> /\ Head(argv) = a /\ argv[2] = v /\ Len(argv) > 1
        /\ SubSeq(argv, 3, Len(argv)) = r
    BY ONLY <1>2, <2>1, <2>3, TwoChunks
  <2>5. ~IsTerminator(a) /\ ~AsksHelp(a) /\ Matched(a) = {f} /\ ~Joined(a)
    BY <1>3, <2>1, <2>3, SplitRead
  <2>6. FlagThenValue(f)
    <3>1. ~Terminate /\ ~AskForHelp /\ ~EndOfArguments
      BY ONLY <2>4, <2>5 DEF Terminate, AskForHelp, EndOfArguments
    <3>2. ~Refuse
      <4>1. Matched(a) # {} /\ Len(argv) # 1
        BY ONLY <2>4, <2>5
      <4> QED
        BY ONLY <2>4, <2>5, <4>1 DEF Refuse
    <3>3. PICK g \in Flags : FlagWithValue(g) \/ FlagThenValue(g)
      BY <3>1, <3>2 DEF ParseCLI
    <3>4. g = f /\ ~FlagWithValue(g)
      BY ONLY <2>4, <2>5, <3>3 DEF FlagWithValue, FlagThenValue
    <3> QED
      BY ONLY <3>3, <3>4
  <2>7. ParseValue(f, v) /\ argv' = r
    BY ONLY <2>4, <2>6 DEF FlagThenValue
  <2>8. /\ cli' = cli /\ terminated' = terminated
        /\ Fits(f, x) => option'[f] = x
        /\ \A g \in Flags : g # f => option'[g] = option[g]
    BY <1>3, <2>3, <2>7, ValueTaken
  <2> QED
    BY <1>1, <1>3, <2>7, <2>8
<1> QED
  BY <1>3, <1>4, <1>5 DEF Spellings

(* The first argument that is no setting ends the reading. *)
LEMMA OtherTaken ==
  ASSUME start \in Starts, OptionTypes, ~terminated, cli = "parsing", ParseCLI,
         NEW k \in 0 .. Len(Args) - 1, argv = Rest(Args)[k], Kind(k + 1) \in {"help", "wrong"}
  PROVE  /\ cli' = IF Kind(k + 1) = "help" THEN "help" ELSE "error"
         /\ ~terminated' /\ option' = option
<1> DEFINE T == Seq(STRING)
<1>1. PICK c, r : c = Args[k + 1].chunks /\ r = Rest(Args)[k + 1]
  OBVIOUS
<1>2. c \in Seq(T) /\ r \in Seq(T) /\ argv = c \o r /\ k + 1 \in DOMAIN Args
  <2>1. k + 1 \in 0 .. Len(Args) /\ k + 1 \in 1 .. Len(Args)
    BY RestTaken DEF Args
  <2>2. DOMAIN Args = 1 .. Len(Args)
    BY RestTaken DEF Args
  <2>3. Rest(Args) \in [0 .. Len(Args) -> Seq(T)]
    BY RestTaken DEF Args
  <2>4. c \in Seq(T) /\ argv = c \o r
    BY RestTaken, <1>1 DEF Args
  <2> QED
    BY ONLY <1>1, <2>1, <2>2, <2>3, <2>4
<1>3. PICK a : a = c[1]
  OBVIOUS
<1>4. Len(c) = 1
  BY <1>1, <1>2, HelpIsForm, WrongForm
<1>5. a \in T /\ c = <<a>>
  <2> HIDE DEF T
  <2>1. a \in T
    <3>1. 1 \in 1 .. Len(c)
      BY ONLY <1>4
    <3> QED
      BY ONLY <1>2, <1>3, <3>1, ElementOfSeq
  <2>2. <<a>> \in Seq(T) /\ Len(<<a>>) = 1 /\ <<a>>[1] = a
    BY <2>1
  <2>3. \A i \in 1 .. Len(c) : c[i] = <<a>>[i]
    BY ONLY <1>3, <1>4, <2>2
  <2> QED
    BY ONLY <1>2, <1>4, <2>1, <2>2, <2>3, SeqEqual
<1>6. argv # <<>> /\ Head(argv) = a /\ Tail(argv) = r
  BY ONLY <1>2, <1>5, OneChunk
<1>7. CASE Kind(k + 1) = "help"
  <2>1. HelpForm(a)
    BY <1>1, <1>2, <1>3, <1>7, HelpIsForm
  <2>2. ~IsTerminator(a) /\ AsksHelp(a) /\ Matched(a) = {}
    BY <1>5, <2>1, HelpRead
  <2>3. AskForHelp
    <3>1. ~Terminate /\ ~Refuse /\ ~EndOfArguments
      BY ONLY <1>6, <2>2 DEF Terminate, Refuse, EndOfArguments
    <3>2. \A g \in Flags : ~FlagWithValue(g) /\ ~FlagThenValue(g)
      BY ONLY <1>6, <2>2 DEF FlagWithValue, FlagThenValue
    <3> QED
      BY <3>1, <3>2 DEF ParseCLI
  <2> QED
    BY <1>7, <2>3 DEF AskForHelp
<1>8. CASE Kind(k + 1) = "wrong" /\ Unknown(a)
  <2>1. ~IsTerminator(a) /\ ~AsksHelp(a) /\ Matched(a) = {}
    BY <1>5, <1>8, UnknownRead
  <2>2. Refuse
    <3>1. ~Terminate /\ ~AskForHelp /\ ~EndOfArguments
      BY ONLY <1>6, <2>1 DEF Terminate, AskForHelp, EndOfArguments
    <3>2. \A g \in Flags : ~FlagWithValue(g) /\ ~FlagThenValue(g)
      BY ONLY <1>6, <2>1 DEF FlagWithValue, FlagThenValue
    <3> QED
      BY <3>1, <3>2 DEF ParseCLI
  <2> QED
    BY <1>8, <2>2 DEF Refuse
<1>9. CASE Kind(k + 1) = "wrong" /\ ~Unknown(a)
  <2>1. PICK f \in Flags, v \in Suffixes(a) : a \in JoinedForms(f, v) /\ ~Readable(f, v)
    BY <1>1, <1>2, <1>3, <1>9, WrongForm
  <2>2. v \in T
    BY <1>5, <2>1, SuffixIsText
  <2>3. /\ ~IsTerminator(a) /\ ~AsksHelp(a) /\ Matched(a) = {f}
        /\ Joined(a) /\ JoinedValue(a) = v
    BY <1>5, <2>1, <2>2, JoinedRead
  <2>4. FlagWithValue(f)
    <3>1. ~Terminate /\ ~AskForHelp /\ ~Refuse /\ ~EndOfArguments
      BY ONLY <1>6, <2>3 DEF Terminate, AskForHelp, Refuse, EndOfArguments
    <3>2. PICK g \in Flags : FlagWithValue(g) \/ FlagThenValue(g)
      BY <3>1 DEF ParseCLI
    <3>3. g = f /\ ~FlagThenValue(g)
      BY ONLY <1>6, <2>3, <3>2 DEF FlagWithValue, FlagThenValue
    <3> QED
      BY ONLY <3>2, <3>3
  <2>5. ParseValue(f, v)
    BY ONLY <1>6, <2>3, <2>4 DEF FlagWithValue
  <2> QED
    BY <1>9, <2>1, <2>5 DEF ParseValue
<1> QED
  BY <1>7, <1>8, <1>9

(* Each step of the parser reads one more argument as it was meant. *)
LEMMA ReadingStep ==
  ASSUME TextInv, OptionTypes, ReadAsMeant, ParseCLI, start' = start
  PROVE  ReadAsMeant'
<1> SUFFICES ASSUME Plain PROVE ReadAsMeant'
  BY DEF ReadAsMeant, Plain, Kind, Args
<1>0. start \in Starts /\ Args' = Args /\ \A i : Kind(i)' = Kind(i)
  BY DEF TextInv, Args, Kind
<1>1. cli = "parsing"
  BY DEF ParseCLI, Terminate, AskForHelp, Refuse, EndOfArguments, FlagWithValue,
         FlagThenValue, More
<1>2. PICK k \in 0 .. Len(Args) : ReadUpTo(k) /\ argv = Rest(Args)[k]
  BY <1>1 DEF ReadAsMeant
<1>3. ~terminated
  BY DEF ReadAsMeant
<1>4. Len(Args) \in Nat /\ DOMAIN Args = 1 .. Len(Args) /\ Rest(Args)[Len(Args)] = <<>>
  BY <1>0, RestTaken DEF Args
<1>5. \A f : \A m : MeantBy(f, m)' = MeantBy(f, m)
  <2>1. \A f : \A m : SettingsOf(f, m)' = SettingsOf(f, m)
    BY <1>0 DEF SettingsOf
  <2> QED
    BY <1>0, <2>1 DEF MeantBy
\* It is enough to say how many arguments have been read after the step.
<1>6. ASSUME NEW m \in 0 .. Len(Args), ~terminated',
             \A i \in 1 .. m : Kind(i) = "set",
             \A f \in Flags : Fits(f, MeantBy(f, m)) => option'[f] = MeantBy(f, m),
             cli' = "parsing" => argv' = Rest(Args)[m],
             cli' = "parsed" => m = Len(Args),
             cli' = "help" => m < Len(Args) /\ Kind(m + 1) = "help",
             cli' = "error" => m < Len(Args) /\ Kind(m + 1) = "wrong"
      PROVE  ReadAsMeant'
  BY <1>0, <1>5, <1>6 DEF ReadAsMeant, ReadUpTo
<1>7. CASE k = Len(Args)
  <2>1. argv = <<>>
    BY <1>2, <1>4, <1>7
  <2>2. EndOfArguments
    BY <2>1 DEF ParseCLI, Terminate, AskForHelp, Refuse, FlagWithValue, FlagThenValue, More
  <2>3. cli' = "parsed" /\ ~terminated' /\ option' = option
    BY <1>3, <2>2 DEF EndOfArguments
  <2> QED
    BY <1>2, <1>6, <1>7, <2>3 DEF ReadUpTo
<1>8. CASE k # Len(Args)
  <2>1. k \in 0 .. Len(Args) - 1 /\ k + 1 \in 1 .. Len(Args) /\ k \in Nat
    <3>1. PICK n \in Nat : n = Len(Args)
      BY <1>4
    <3>2. k \in 0 .. n /\ k # n
      BY ONLY <1>2, <1>8, <3>1, k \in 0 .. Len(Args)
    <3> QED
      BY ONLY <3>1, <3>2
  <2>2. Kind(k + 1) \in {"set", "help", "wrong"}
    BY <1>4, <2>1 DEF Plain
  <2>3. CASE Kind(k + 1) = "set"
    <3>1. /\ argv' = Rest(Args)[k + 1] /\ cli' = "parsing" /\ ~terminated'
          /\ LET f == Args[k + 1].means.flag
                 x == Args[k + 1].means.value
             IN /\ Fits(f, x) => option'[f] = x
                /\ \A g \in Flags : g # f => option'[g] = option[g]
      BY <1>0, <1>1, <1>2, <1>3, <2>1, <2>3, SettingTaken
    <3>2. \A i \in 1 .. k + 1 : Kind(i) = "set"
      BY <1>2, <2>1, <2>3 DEF ReadUpTo
    <3>3. ASSUME NEW f \in Flags, Fits(f, MeantBy(f, k + 1))
          PROVE  option'[f] = MeantBy(f, k + 1)
      <4>1. MeantBy(f, k + 1) =
              IF Args[k + 1].means.flag = f THEN Args[k + 1].means.value ELSE MeantBy(f, k)
        BY <2>1, <2>3, OneMoreSetting
      <4>2. Fits(f, MeantBy(f, k)) => option[f] = MeantBy(f, k)
        BY <1>2 DEF ReadUpTo
      <4> QED
        BY ONLY <3>1, <3>3, <4>1, <4>2
    <3> QED
      BY <1>4, <1>6, <2>1, <3>1, <3>2, <3>3
  <2>4. CASE Kind(k + 1) \in {"help", "wrong"}
    <3>1. /\ cli' = IF Kind(k + 1) = "help" THEN "help" ELSE "error"
          /\ ~terminated' /\ option' = option
      BY <1>0, <1>1, <1>2, <1>3, <2>1, <2>4, OtherTaken
    <3> QED
      BY <1>2, <1>4, <1>6, <2>1, <2>4, <3>1 DEF ReadUpTo
  <2> QED
    BY <2>2, <2>3, <2>4
<1> QED
  BY <1>7, <1>8

(* Nothing has been read at first, and the defaults are what is meant. *)
LEMMA ReadingInit == Init => ReadAsMeant
<1> SUFFICES ASSUME Init PROVE ReadAsMeant
  OBVIOUS
<1>1. start \in Starts /\ argv = ArgvOf(Args) /\ ~terminated /\ option = DefaultOption
      /\ cli = "parsing"
  BY DEF Init, CliInit, Args
<1>2. Len(Args) \in Nat /\ Rest(Args)[0] = ArgvOf(Args)
  BY <1>1, RestTaken DEF Args
<1>3. \A f : MeantBy(f, 0) = DefaultOption[f]
  BY DEF MeantBy, SettingsOf
<1>4. ReadUpTo(0)
  BY <1>1, <1>3 DEF ReadUpTo
<1> QED
  BY <1>1, <1>2, <1>4 DEF ReadAsMeant

LEMMA ReadingKept == TextInv /\ OptionTypes /\ ReadAsMeant /\ [Next]_vars => ReadAsMeant'
<1> SUFFICES ASSUME TextInv, OptionTypes, ReadAsMeant, [Next]_vars PROVE ReadAsMeant'
  OBVIOUS
<1>1. CASE ParseArguments
  BY <1>1, ReadingStep DEF ParseArguments
<1>2. CASE UNCHANGED <<cliVars, start>>
  <2>1. Args' = Args /\ Rest(Args)' = Rest(Args) /\ \A i : Kind(i)' = Kind(i)
    BY <1>2 DEF Args, Kind
  <2>2. \A f : \A m : SettingsOf(f, m)' = SettingsOf(f, m)
    BY <2>1 DEF SettingsOf
  <2>3. \A f : \A m : MeantBy(f, m)' = MeantBy(f, m)
    BY <2>1, <2>2 DEF MeantBy
  <2>4. \A m : ReadUpTo(m)' <=> ReadUpTo(m)
    BY <1>2, <2>1, <2>3 DEF ReadUpTo, cliVars
  <2>5. Plain' <=> Plain
    BY <2>1 DEF Plain
  <2> QED
    BY <1>2, <2>1, <2>4, <2>5 DEF ReadAsMeant, cliVars
<1> QED
  BY <1>1, <1>2
  DEF Next, OpenConfig, ReadConfig, Leave, CannotLoad, InitParams, Configure, GeneratorFails,
      MakeGenerator, Finished, vars

(* When the parser has stopped, it has stopped where the user's arguments say *)
(* and with the values they say.                                              *)
LEMMA MeantAtTheEnd == TextInv /\ OptionTypes /\ ReadAsMeant => OptionsAsMeant
<1> SUFFICES ASSUME TextInv, OptionTypes, ReadAsMeant, Plain, cli # "parsing"
             PROVE  /\ cli = IF Stop > Len(Args) THEN "parsed"
                             ELSE IF Kind(Stop) = "help" THEN "help" ELSE "error"
                    /\ cli = "parsed" =>
                         \A f \in Flags : Fits(f, Meant(f)) => option[f] = Meant(f)
  BY DEF OptionsAsMeant
<1>1. PICK n \in Nat : n = Len(Args) /\ DOMAIN Args = 1 .. n
  BY RestTaken DEF TextInv, Args
<1>2. PICK k \in 0 .. n : /\ ReadUpTo(k)
                          /\ cli = "parsed" => k = n
                          /\ cli = "help" => k < n /\ Kind(k + 1) = "help"
                          /\ cli = "error" => k < n /\ Kind(k + 1) = "wrong"
  BY <1>1 DEF ReadAsMeant
<1>3. cli \in {"parsed", "help", "error"}
  BY DEF OptionTypes
<1>4. \A i \in 1 .. k : Kind(i) = "set"
  BY <1>2 DEF ReadUpTo
<1> DEFINE Others == {i \in DOMAIN Args : Kind(i) # "set"}
<1>5. CASE cli = "parsed"
  <2>1. k = n /\ Others = {}
    BY <1>1, <1>2, <1>4, <1>5
  <2>2. Stop > Len(Args)
    BY <1>1, <2>1 DEF Stop, FirstIn
  <2>3. \A f : Meant(f) = MeantBy(f, k)
    <3>1. \A f : {i \in DOMAIN Args : Kind(i) = "set" /\ Args[i].means.flag = f} = SettingsOf(f, k)
      BY <1>1, <2>1 DEF SettingsOf
    <3> QED
      BY ONLY <3>1 DEF Meant, MeantBy
  <2> QED
    BY <1>2, <1>5, <2>2, <2>3 DEF ReadUpTo
<1>6. CASE cli # "parsed"
  <2>1. k < n /\ Kind(k + 1) \in {"help", "wrong"}
        /\ cli = (IF Kind(k + 1) = "help" THEN "help" ELSE "error")
    BY <1>2, <1>3, <1>6
  <2>2. k + 1 \in Others /\ \A i \in Others : k + 1 <= i
    BY <1>1, <1>4, <2>1
  <2>3. Stop = k + 1
    <3>1. \A i \in Others : (\A j \in Others : i <= j) => i = k + 1
      BY <1>1, <2>2
    <3>2. Stop = CHOOSE i \in Others : \A j \in Others : i <= j
      BY <2>2 DEF Stop, FirstIn
    <3> HIDE DEF Others
    <3> QED
      BY ONLY <2>2, <3>1, <3>2
  <2> QED
    BY <1>1, <1>6, <2>1, <2>3
<1> QED
  BY <1>5, <1>6

(* However a setting is spelled, and whatever comes before it, each flag ends *)
(* with the last value meant for it that fits, and help and errors are obeyed *)
(* in the order in which they stand (ParseArgs, ValueReader, main).           *)
THEOREM OptionsMean == Spec => []OptionsAsMeant
<1>1. StartTypeOK => OptionTypes
  BY DEF StartTypeOK, OptionTypes
<1> QED
  BY <1>1, ReadingInit, ReadingKept, MeantAtTheEnd, TextKept, StartupTypeCorrect, PTL DEF Spec

-----------------------------------------------------------------------------
(* How far the file has been read. *)

\* What is left of it below its first k lines.
Below(lines) ==
  CHOOSE h \in [0 .. Len(lines) -> Seq(STRING)] : TakesOff(TextsOf(lines), h)

IsFile(lines) == \E s \in Starts : \E path \in DOMAIN s.disk : lines = s.disk[path]
LineOff(lines, k) ==
  /\ lines[k + 1].text \in Seq(STRING)
  /\ \A j \in DOMAIN lines[k + 1].text : lines[k + 1].text[j] # "\n"
  /\ Append(lines[k + 1].text, "\n") \in Seq(STRING)
  /\ Below(lines)[k] = Append(lines[k + 1].text, "\n") \o Below(lines)[k + 1]

LEMMA BelowTaken ==
  ASSUME NEW lines, IsFile(lines)
  PROVE  /\ Len(lines) \in Nat /\ DOMAIN lines = 1 .. Len(lines)
         /\ Below(lines) \in [0 .. Len(lines) -> Seq(STRING)]
         /\ Below(lines)[0] = Contents(lines) /\ Below(lines)[Len(lines)] = <<>>
         /\ \A k \in 0 .. Len(lines) - 1 : LineOff(lines, k)
<1> DEFINE c == TextsOf(lines)
           r == Below(lines)
           T == STRING
<1>0. PICK s, path : s \in Starts /\ path \in DOMAIN s.disk /\ lines = s.disk[path]
  BY DEF IsFile
<1>1. PICK n \in Nat : n = Len(lines)
  BY <1>0, TextAssumption
<1>2. /\ c \in Seq(Seq(T)) /\ DOMAIN lines = 1 .. n
      /\ \A i \in 1 .. n : /\ lines[i].text \in Seq(STRING)
                           /\ \A j \in DOMAIN lines[i].text : lines[i].text[j] # "\n"
  BY <1>0, <1>1, TextAssumption
<1>3. c = [i \in 1 .. n |-> Append(lines[i].text, "\n")]
  BY <1>1 DEF TextsOf
<1>4. Len(c) = n /\ \A i \in 1 .. n : c[i] = Append(lines[i].text, "\n")
  <2> HIDE DEF c, T
  <2> QED
    BY <1>2, <1>3
<1>5. r \in [0 .. n -> Seq(T)] /\ TakesOff(c, r)
  <2>1. \E h \in [0 .. Len(c) -> Seq(T)] : TakesOff(c, h)
    <3> HIDE DEF c, T
    <3> QED
      BY ONLY <1>2, TakenOff
  <2>2. \E h \in [0 .. Len(lines) -> Seq(T)] : TakesOff(c, h)
    BY ONLY <1>1, <1>4, <2>1
  <2>3. r = CHOOSE h \in [0 .. Len(lines) -> Seq(T)] : TakesOff(c, h)
    BY DEF Below
  <2>4. r \in [0 .. Len(lines) -> Seq(T)] /\ TakesOff(c, r)
    <3> HIDE DEF r, c, T
    <3> QED
      BY ONLY <2>2, <2>3
  <2> QED
    BY <1>1, <2>4
<1>6. ASSUME NEW k \in 0 .. n - 1
      PROVE  /\ Append(lines[k + 1].text, "\n") \in Seq(T)
             /\ r[k] = Append(lines[k + 1].text, "\n") \o r[k + 1]
  <2>1. k + 1 \in 1 .. n
    OBVIOUS
  <2>2. c[k + 1] \in Seq(T)
    <3> HIDE DEF c, T
    <3> QED
      BY ONLY <1>2, <1>4, <2>1, ElementOfSeq
  <2>3. r[k] = c[k + 1] \o r[k + 1]
    BY ONLY <1>4, <1>5, k \in 0 .. n - 1 DEF TakesOff
  <2> QED
    BY ONLY <1>4, <2>1, <2>2, <2>3
<1>7. r[0] = Contents(lines) /\ r[n] = <<>>
  BY ONLY <1>4, <1>5 DEF TakesOff, Contents
<1> HIDE DEF r, c
<1>8. \A k \in 0 .. n - 1 : k + 1 \in 1 .. n
  OBVIOUS
<1> QED
  BY ONLY <1>1, <1>2, <1>5, <1>6, <1>7, <1>8 DEF r, LineOff

(* The place before all others of a set is the one FirstIn finds. *)
LEMMA FirstOf ==
  ASSUME NEW s, NEW S, S \subseteq Int, NEW n \in S, \A i \in S : n <= i
  PROVE  FirstIn(s, S) = n
<1>1. \A i \in S : (\A j \in S : i <= j) <=> i = n
  OBVIOUS
<1>2. (CHOOSE i \in S : \A j \in S : i <= j) = n
  BY ONLY <1>1, n \in S
<1> QED
  BY ONLY <1>2, n \in S DEF FirstIn

(* A line that fits into the buffer is one piece. *)
LEMMA PieceIsLine ==
  ASSUME NEW t \in Seq(STRING), \A j \in DOMAIN t : t[j] # "\n",
         Append(t, "\n") \in Seq(STRING), NEW r \in Seq(STRING),
         stream = Append(t, "\n") \o r, Len(t) <= MaxLine - 2
  PROVE  /\ PieceEnd = Len(t) + 1
         /\ SubSeq(stream, 1, PieceEnd) = Append(t, "\n")
         /\ After(stream, PieceEnd) = r
<1> DEFINE T == STRING
           w == Append(t, "\n")
           S == {i \in 1 .. Len(stream) :
                   stream[i] = "\n" \/ i = MaxLine - 1 \/ i = Len(stream)}
<1>1. PICK n \in Nat : n = Len(t) /\ DOMAIN t = 1 .. n
  OBVIOUS
<1>2. /\ Len(w) = n + 1 /\ w[n + 1] = "\n" /\ \A i \in 1 .. n : w[i] = t[i]
  BY <1>1
<1>3. w \in Seq(T) /\ r \in Seq(T) /\ stream = w \o r
  OBVIOUS
<1> HIDE DEF T, w
<1>4. /\ stream \in Seq(T) /\ Len(r) \in Nat /\ Len(stream) = n + 1 + Len(r)
      /\ \A i \in 1 .. n + 1 : stream[i] = w[i]
      /\ \A i \in 1 .. Len(r) : stream[n + 1 + i] = r[i]
  <2>1. /\ w \o r \in Seq(T) /\ Len(w \o r) = Len(w) + Len(r)
        /\ \A i \in 1 .. Len(w) + Len(r) :
             (w \o r)[i] = IF i <= Len(w) THEN w[i] ELSE r[i - Len(w)]
    BY ONLY <1>3, ConcatProperties
  <2>2. Len(r) \in Nat
    BY ONLY <1>3
  <2>3. \A i \in 1 .. n + 1 : stream[i] = w[i]
    BY ONLY n \in Nat, <1>2, <1>3, <2>1, <2>2
  <2>4. \A i \in 1 .. Len(r) : stream[n + 1 + i] = r[i]
    <3>1. ASSUME NEW i \in 1 .. Len(r) PROVE stream[n + 1 + i] = r[i]
      <4>1. n + 1 + i \in 1 .. n + 1 + Len(r) /\ ~(n + 1 + i <= n + 1) /\ n + 1 + i - (n + 1) = i
        BY ONLY n \in Nat, <2>2, i \in 1 .. Len(r)
      <4> QED
        BY ONLY <1>2, <1>3, <2>1, <4>1
    <3> QED
      BY <3>1
  <2> QED
    BY ONLY <1>2, <1>3, <2>1, <2>2, <2>3, <2>4
<1>5. PieceEnd = n + 1
  <2>1. n + 1 \in S
    BY <1>1, <1>2, <1>4
  <2>2. \A i \in S : n + 1 <= i
    <3>1. ASSUME NEW i \in 1 .. n PROVE i \notin S
      <4>1. stream[i] # "\n"
        <5>1. i \in 1 .. n + 1 /\ i \in DOMAIN t
          BY <1>1
        <5>2. t[i] # "\n"
          BY <5>1
        <5>3. stream[i] = w[i] /\ w[i] = t[i]
          BY ONLY <1>2, <1>4, <5>1, i \in 1 .. n
        <5> QED
          BY ONLY <5>2, <5>3
      <4>2. i # MaxLine - 1 /\ i # Len(stream)
        BY <1>1, <1>4, BufferAssumption
      <4> QED
        BY <4>1, <4>2
    <3> QED
      BY <1>1, <1>4, <3>1
  <2>3. S \subseteq Int
    BY <1>4
  <2>4. PieceEnd = FirstIn(stream, S)
    BY DEF PieceEnd
  <2> HIDE DEF S
  <2>5. FirstIn(stream, S) = n + 1
    BY ONLY n \in Nat, <2>1, <2>2, <2>3, FirstOf
  <2> QED
    BY ONLY <2>4, <2>5
<1>6. SubSeq(stream, 1, n + 1) = w
  <2>1. PICK q : q = SubSeq(stream, 1, n + 1)
    OBVIOUS
  <2>2. q \in Seq(T) /\ Len(q) = n + 1 /\ \A i \in 1 .. n + 1 : q[i] = stream[i]
    BY ONLY <1>1, <1>4, <2>1
  <2>3. \A i \in 1 .. Len(q) : q[i] = w[i]
    BY ONLY <1>4, <2>2
  <2> QED
    BY ONLY <1>2, <1>3, <2>1, <2>2, <2>3, SeqEqual
<1>7. SubSeq(stream, n + 2, Len(stream)) = r
  <2>1. PICK q : q = SubSeq(stream, n + 2, Len(stream))
    OBVIOUS
  <2>2. q \in Seq(T) /\ Len(q) = Len(r) /\ \A i \in 1 .. Len(r) : q[i] = stream[n + 1 + i]
    BY ONLY <1>1, <1>4, <2>1
  <2>3. \A i \in 1 .. Len(q) : q[i] = r[i]
    BY ONLY <1>4, <2>2
  <2> QED
    BY ONLY <1>3, <2>1, <2>2, <2>3, SeqEqual
<1>8. n + 1 + 1 = n + 2
  OBVIOUS
<1> QED
  BY ONLY <1>1, <1>5, <1>6, <1>7, <1>8 DEF After, w

(* The end of the line is no part of its text. *)
LEMMA StripNewline ==
  ASSUME NEW t \in Seq(STRING), Append(t, "\n") \in Seq(STRING)
  PROVE  RStrip(Append(t, "\n")) = RStrip(t)
<1> DEFINE T == STRING
           w == Append(t, "\n")
<1>1. PICK n \in Nat : n = Len(t)
  OBVIOUS
<1>2. Len(w) = n + 1 /\ w[n + 1] = "\n" /\ \A i \in 1 .. n : w[i] = t[i]
  BY <1>1
<1>3. w \in Seq(T) /\ t \in Seq(T)
  OBVIOUS
<1> HIDE DEF T, w
<1>4. Words(w) = Words(t)
  <2>1. \A i : i \in 1 .. n + 1 <=> i \in 1 .. n \/ i = n + 1
    BY ONLY n \in Nat
  <2>2. ASSUME NEW i PROVE i \in Words(w) <=> i \in Words(t)
    <3>1. CASE i = n + 1
      BY ONLY n \in Nat, <1>1, <1>2, <3>1 DEF Words, Blank
    <3>2. CASE i # n + 1
      BY ONLY <1>1, <1>2, <2>1, <3>2 DEF Words
    <3> QED
      BY <3>1, <3>2
  <2> QED
    BY ONLY <2>2 DEF Words
<1>5. CASE Words(t) = {}
  BY ONLY <1>4, <1>5 DEF RStrip, w
<1>6. CASE Words(t) # {}
  <2> DEFINE last == CHOOSE i \in Words(t) : \A j \in Words(t) : j <= i
  <2>1. Words(t) \in SUBSET (1 .. n)
    BY ONLY <1>1 DEF Words
  <2>2. last \in 1 .. n
    <3>1. \E i \in Words(t) : \A j \in Words(t) : j <= i
      BY ONLY n \in Nat, <1>6, <2>1, Greatest
    <3> QED
      BY ONLY <2>1, <3>1
  <2>3. RStrip(w) = SubSeq(w, 1, last) /\ RStrip(t) = SubSeq(t, 1, last)
    BY ONLY <1>4, <1>6 DEF RStrip
  <2> HIDE DEF last
  <2>4. SubSeq(w, 1, last) = SubSeq(t, 1, last)
    <3>1. PICK p, q : p = SubSeq(w, 1, last) /\ q = SubSeq(t, 1, last)
      OBVIOUS
    <3>2. /\ p \in Seq(T) /\ Len(p) = last /\ \A i \in 1 .. last : p[i] = w[i]
          /\ q \in Seq(T) /\ Len(q) = last /\ \A i \in 1 .. last : q[i] = t[i]
      BY ONLY <1>1, <1>2, <1>3, <2>2, <3>1
    <3>3. \A i \in 1 .. Len(p) : p[i] = q[i]
      BY ONLY n \in Nat, <1>2, <2>2, <3>2
    <3> QED
      BY ONLY <3>1, <3>2, <3>3, SeqEqual
  <2> QED
    BY ONLY <2>3, <2>4 DEF w
<1> QED
  BY <1>5, <1>6

(* White space is taken off the end only. *)
LEMMA StripHead ==
  ASSUME NEW t \in Seq(STRING), RStrip(t) # <<>>
  PROVE  t # <<>> /\ Head(RStrip(t)) = t[1]
<1>1. PICK n \in Nat : n = Len(t)
  OBVIOUS
<1>2. Words(t) # {} /\ Words(t) \in SUBSET (1 .. n)
  BY <1>1 DEF RStrip, Words
<1> DEFINE last == CHOOSE i \in Words(t) : \A j \in Words(t) : j <= i
<1>3. last \in 1 .. n
  <2>1. \E i \in Words(t) : \A j \in Words(t) : j <= i
    BY ONLY n \in Nat, <1>2, Greatest
  <2> QED
    BY ONLY <1>2, <2>1
<1>4. RStrip(t) = SubSeq(t, 1, last)
  BY ONLY <1>2 DEF RStrip
<1> HIDE DEF last
<1>5. Head(SubSeq(t, 1, last)) = t[1]
  BY <1>1, <1>3
<1> QED
  BY <1>1, <1>3, <1>4, <1>5

(* What the parser looks at is what an editor shows. *)
LEMMA LineScanned ==
  ASSUME NEW lines, IsFile(lines),
         NEW k \in 0 .. Len(lines) - 1, lineno = k, stream = Below(lines)[k],
         ReadPiece, Len(lines[k + 1].text) <= MaxLine - 2
  PROVE  /\ lineno' = k + 1 /\ stream' = Below(lines)[k + 1] /\ ini' = ini
         /\ Scanned.text = Shown(lines, k + 1) /\ Scanned.text \in Seq(STRING)
         /\ Scanned.indented /\ k # 0 => Head(lines[k + 1].text) = " "
<1>1. PICK t, r : t = lines[k + 1].text /\ r = Below(lines)[k + 1]
  OBVIOUS
<1>2. /\ t \in Seq(STRING) /\ (\A j \in DOMAIN t : t[j] # "\n")
      /\ Append(t, "\n") \in Seq(STRING) /\ r \in Seq(STRING)
      /\ stream = Append(t, "\n") \o r
  <2>1. k + 1 \in 0 .. Len(lines)
    BY BelowTaken
  <2>2. Below(lines) \in [0 .. Len(lines) -> Seq(STRING)]
    BY BelowTaken
  <2>3. r \in Seq(STRING)
    BY ONLY <1>1, <2>1, <2>2
  <2>4. /\ t \in Seq(STRING) /\ (\A j \in DOMAIN t : t[j] # "\n")
        /\ Append(t, "\n") \in Seq(STRING)
        /\ Below(lines)[k] = Append(t, "\n") \o r
    <3>1. LineOff(lines, k)
      BY BelowTaken
    <3> QED
      BY ONLY <1>1, <3>1 DEF LineOff
  <2> QED
    BY ONLY <2>3, <2>4, stream = Below(lines)[k]
<1>3. /\ SubSeq(stream, 1, PieceEnd) = Append(t, "\n") /\ After(stream, PieceEnd) = r
  <2>1. Len(t) <= MaxLine - 2
    BY <1>1
  <2> QED
    BY ONLY <1>2, <2>1, PieceIsLine
<1>4. lineno' = k + 1 /\ stream' = r /\ ini' = ini
  BY ONLY <1>3, ReadPiece, lineno = k DEF ReadPiece
<1> DEFINE marked == k = 0 /\ Head(Append(t, "\n")) = "BOM"
           u == IF marked THEN Tail(t) ELSE t
<1>5. marked <=> k + 1 = 1 /\ t # <<>> /\ Head(t) = "BOM"
  <2>1. Head(Append(t, "\n")) = IF t = <<>> THEN "\n" ELSE Head(t)
    BY ONLY <1>2
  <2> QED
    BY <2>1
<1>6. /\ u \in Seq(STRING) /\ Append(u, "\n") \in Seq(STRING)
      /\ Append(u, "\n") = IF marked THEN Tail(Append(t, "\n")) ELSE Append(t, "\n")
  <2>1. CASE ~marked
    BY ONLY <1>2, <2>1
  <2>2. CASE marked
    <3> DEFINE T == STRING
               e == "\n"
    <3>0. t \in Seq(T) /\ Append(t, e) \in Seq(T) /\ t # <<>>
      BY ONLY <1>2, <1>5, <2>2
    <3> HIDE DEF T, e
    <3>1. PICK n \in Nat : Len(t) = n + 1
      BY ONLY <3>0
    <3>2. PICK p, q : p = Tail(Append(t, e)) /\ q = Append(Tail(t), e)
      OBVIOUS
    <3>3. p \in Seq(T) /\ Len(p) = n + 1 /\ \A i \in 1 .. n + 1 : p[i] = Append(t, e)[i + 1]
      BY ONLY n \in Nat, <3>0, <3>1, <3>2
    <3>4. Tail(t) \in Seq(T) /\ Len(Tail(t)) = n /\ \A i \in 1 .. n : Tail(t)[i] = t[i + 1]
      BY ONLY n \in Nat, <3>0, <3>1
    <3>5. e \in T
      <4>1. Len(t) + 1 \in 1 .. Len(Append(t, e)) /\ Append(t, e)[Len(t) + 1] = e
        BY ONLY <3>0
      <4> QED
        BY ONLY <3>0, <4>1, ElementOfSeq
    <3>6. q \in Seq(T) /\ Len(q) = n + 1 /\ q[n + 1] = e /\ \A i \in 1 .. n : q[i] = t[i + 1]
      BY ONLY n \in Nat, <3>2, <3>4, <3>5
    <3>7. Append(t, e)[n + 2] = e /\ \A i \in 1 .. n + 1 : Append(t, e)[i] = t[i]
      BY ONLY n \in Nat, <3>0, <3>1, <3>5
    <3>8. \A i \in 1 .. Len(p) : p[i] = q[i]
      <4>1. ASSUME NEW i \in 1 .. n + 1 PROVE p[i] = q[i]
        <5>1. CASE i = n + 1
          <6>1. i + 1 = n + 2 /\ i \in 1 .. n + 1
            BY ONLY n \in Nat, <5>1
          <6> QED
            BY ONLY <3>3, <3>6, <3>7, <5>1, <6>1
        <5>2. CASE i # n + 1
          <6>1. i + 1 \in 1 .. n + 1 /\ i \in 1 .. n
            BY ONLY n \in Nat, i \in 1 .. n + 1, <5>2
          <6> QED
            BY ONLY <3>3, <3>6, <3>7, <6>1, i \in 1 .. n + 1
        <5> QED
          BY <5>1, <5>2
      <4> QED
        BY ONLY <3>3, <4>1
    <3>9. p = q
      BY ONLY <3>3, <3>6, <3>8, SeqEqual
    <3> QED
      BY ONLY <2>2, <3>2, <3>3, <3>4, <3>9 DEF T, e
  <2> QED
    BY <2>1, <2>2
<1>7. Scanned = [text |-> LSkip(RStrip(u)),
                 indented |-> RStrip(u) # <<>> /\ Head(RStrip(u)) \in Blank]
  <2> HIDE DEF u
  <2>1. RStrip(Append(u, "\n")) = RStrip(u)
    BY ONLY <1>6, StripNewline
  <2>2. (IF lineno = 0 /\ Head(SubSeq(stream, 1, PieceEnd)) = "BOM"
         THEN Tail(SubSeq(stream, 1, PieceEnd)) ELSE SubSeq(stream, 1, PieceEnd))
        = Append(u, "\n")
    BY ONLY <1>3, <1>6, lineno = k
  <2> QED
    BY ONLY <2>1, <2>2 DEF Scanned
<1>8. Shown(lines, k + 1) = LSkip(RStrip(u))
  BY ONLY <1>1, <1>5 DEF Shown
<1>9. LSkip(RStrip(u)) \in Seq(STRING)
  BY ONLY <1>6, Cut
<1>10. ASSUME Scanned.indented, k # 0 PROVE Head(t) = " "
  <2>1. u = t /\ RStrip(t) # <<>> /\ Head(RStrip(t)) \in Blank
    BY <1>7, <1>10
  <2>2. t # <<>> /\ Head(RStrip(t)) = t[1]
    BY ONLY <1>2, <2>1, StripHead
  <2>3. Head(t) = t[1] /\ 1 \in DOMAIN t
    BY ONLY <1>2, <2>2
  <2> QED
    BY ONLY <1>2, <2>1, <2>2, <2>3 DEF Blank
<1> QED
  BY ONLY <1>1, <1>4, <1>7, <1>8, <1>9, <1>10

(* The mark that ends a heading or a name is found before any comment. *)
LEMMA MarkFound ==
  ASSUME NEW s \in Seq(STRING), NEW chars, \A i : s[i] \in chars => ~InlineComment(s, i),
         NEW n, n = FindCharsOrComment(s, chars)
  PROVE  /\ CutAt(s, n, chars) => n \in 1 .. Len(s) /\ Marked(s, n, chars)
         /\ \A m : Marked(s, m, chars) => m = n /\ CutAt(s, n, chars)
<1> DEFINE S == {i \in 1 .. Len(s) : s[i] \in chars \/ InlineComment(s, i)}
<1>1. PICK l \in Nat : l = Len(s)
  OBVIOUS
<1>2. n = FirstIn(s, S)
  BY DEF FindCharsOrComment
<1>4. S = {} => n = l + 1
  BY <1>1, <1>2 DEF FirstIn
<1>5. S # {} => n \in S /\ \A i \in S : n <= i
  <2>1. S \subseteq Nat
    BY <1>1
  <2> HIDE DEF S
  <2> QED
    BY ONLY <1>2, <2>1, Least DEF FirstIn
<1>6. ASSUME CutAt(s, n, chars) PROVE n \in 1 .. Len(s) /\ Marked(s, n, chars)
  <2>1. S # {} /\ n \in 1 .. l /\ s[n] \in chars
    BY <1>1, <1>4, <1>5, <1>6 DEF CutAt
  <2>2. ASSUME NEW i \in 1 .. n, i # n, s[i] \in chars \/ InlineComment(s, i) PROVE FALSE
    <3>1. i \in S
      BY <1>1, <2>1, <2>2
    <3> QED
      BY <1>1, <1>5, <2>1, <2>2, <3>1
  <2> QED
    BY <1>1, <2>1, <2>2 DEF Marked
<1>7. ASSUME NEW m, Marked(s, m, chars) PROVE m = n /\ CutAt(s, n, chars)
  <2>1. /\ m \in 1 .. l /\ s[m] \in chars
        /\ \A i \in 1 .. m : ~InlineComment(s, i) /\ (s[i] \in chars => i = m)
    BY <1>1, <1>7 DEF Marked
  <2>2. m \in S
    BY <1>1, <2>1
  <2>3. n \in 1 .. l /\ n <= m /\ (s[n] \in chars \/ InlineComment(s, n))
    BY <1>1, <1>5, <2>2
  <2>4. n \in 1 .. m
    BY <1>1, <2>1, <2>3
  <2> QED
    BY <1>1, <2>1, <2>3, <2>4 DEF CutAt
<1> QED
  BY <1>6, <1>7

\* A name to be continued is that of a pair with no heading behind it.
Continuable(k) ==
  prev_name # <<>> =>
    \E j \in 1 .. k : Means(j).kind = "pair" /\ \A i \in j .. k : Means(i).kind # "heading"

(* A whole line that is not swallowed is taken for what it means. *)
LEMMA LineTaken ==
  ASSUME start \in Starts, option.config \in DOMAIN start.disk,
         NEW k \in 0 .. Len(Lines) - 1, lineno = k, stream = Below(Lines)[k],
         ParseLine, ~Overlong(k + 1), ~Swallowed(k + 1), Continuable(k)
  PROVE  LET t == Scanned.text
             closed == CutAt(Tail(t), FindCharsOrComment(Tail(t), {"]"}), {"]"})
             named  == CutAt(t, FindCharsOrComment(t, {"=", ":"}), {"=", ":"})
         IN /\ lineno' = k + 1 /\ stream' = Below(Lines)[k + 1] /\ ini' = ini
            /\ t = Shown(Lines, k + 1) /\ t \in Seq(STRING)
            /\ \/ Means(k + 1).kind \in {"blank", "comment"} /\ BlankOrComment(Scanned)
               \/ Means(k + 1).kind = "heading" /\ Heading(Scanned) /\ closed
               \/ Means(k + 1).kind = "pair" /\ Pair(Scanned) /\ named
               \/ Nonsense(k + 1) /\ Heading(Scanned) /\ ~closed
               \/ Nonsense(k + 1) /\ Pair(Scanned) /\ ~named
<1>1. PICK l : l = Scanned
  OBVIOUS
<1>2. PICK t, kind : t = Shown(Lines, k + 1) /\ kind = Means(k + 1).kind
  OBVIOUS
<1>3. /\ lineno' = k + 1 /\ stream' = Below(Lines)[k + 1] /\ ini' = ini
      /\ l.text = t /\ t \in Seq(STRING)
      /\ l.indented /\ k # 0 => Head(Lines[k + 1].text) = " "
  <2>1. ReadPiece
    BY DEF ParseLine
  <2>2. PICK f : f = Lines
    OBVIOUS
  <2>3. IsFile(f)
    BY <2>2 DEF IsFile, Lines
  <2>4. Len(f[k + 1].text) <= MaxLine - 2
    <3>1. LineOff(f, k)
      BY <2>2, <2>3, BelowTaken
    <3>2. Len(f[k + 1].text) \in Nat
      BY ONLY <3>1 DEF LineOff
    <3> QED
      BY <2>2, <3>2, BufferAssumption DEF Overlong
  <2>5. k \in 0 .. Len(f) - 1 /\ lineno = k /\ stream = Below(f)[k]
    BY <2>2
  <2>6. /\ lineno' = k + 1 /\ stream' = Below(f)[k + 1] /\ ini' = ini
        /\ Scanned.text = Shown(f, k + 1) /\ Scanned.text \in Seq(STRING)
        /\ Scanned.indented /\ k # 0 => Head(f[k + 1].text) = " "
    BY ONLY <2>1, <2>3, <2>4, <2>5, LineScanned
  <2> QED
    BY ONLY <1>1, <1>2, <2>2, <2>6
<1>0. t \in Seq(STRING) /\ l.text = t
  BY <1>3
<1> DEFINE comment == t # <<>> /\ t[1] \in CommentPrefixes
           heading == t # <<>> /\ t[1] = "["
           closed == \E n \in 1 .. Len(Tail(t)) : Marked(Tail(t), n, {"]"})
           named == \E n \in 1 .. Len(t) : Marked(t, n, {"=", ":"})
<1>4. \/ kind = "blank" /\ t = <<>>
      \/ kind = "comment" /\ comment
      \/ kind = "heading" /\ heading /\ closed
      \/ kind = "pair" /\ ~comment /\ ~heading /\ named
      \/ kind = "nonsense" /\ t # <<>> /\ ~comment /\ IF heading THEN ~closed ELSE ~named
  <2>1. k + 1 \in DOMAIN Lines
    BY BelowTaken DEF Lines, IsFile
  <2> QED
    BY <1>2, <2>1, LineAssumption DEF Lines, Means
<1>5. /\ BlankOrComment(l) => t = <<>> \/ IsComment(l)
      /\ IsComment(l) <=> comment
      /\ OpensBracket(l) <=> heading /\ ~Continues(l)
      /\ IsText(l) <=> t # <<>> /\ ~comment /\ ~Continues(l) /\ ~heading
  <2>1. t # <<>> => Head(t) = t[1]
    BY ONLY <1>0
  <2> QED
    BY ONLY <1>3, <2>1 DEF BlankOrComment, IsComment, OpensBracket, IsText
<1>6. ASSUME Continues(l) PROVE FALSE
  <2>1. t # <<>> /\ ~comment /\ prev_name # <<>> /\ l.indented
    BY <1>3, <1>5, <1>6 DEF Continues
  <2>2. PICK j \in 1 .. k : Means(j).kind = "pair" /\ \A i \in j .. k : Means(i).kind # "heading"
    BY <2>1 DEF Continuable
  <2>3. k # 0 /\ kind \notin {"blank", "comment"}
    BY <1>4, <2>1, <2>2
  <2>4. Head(Lines[k + 1].text) = " "
    BY <1>3, <2>1, <2>3
  <2>5. k + 1 - 1 = k
    BY BelowTaken DEF Lines, IsFile
  <2>6. Swallowed(k + 1)
    <3>1. Means(k + 1).kind \notin {"blank", "comment"}
      BY ONLY <1>2, <2>3
    <3>2. \E i \in 1 .. k + 1 - 1 :
            Means(i).kind = "pair" /\ \A m \in i .. k + 1 - 1 : Means(m).kind # "heading"
      BY ONLY <2>2, <2>5, j \in 1 .. k
    <3>3. PICK i : i = k + 1
      OBVIOUS
    <3>4. Means(i).kind \notin {"blank", "comment"}
      BY ONLY <3>1, <3>3
    <3>5. Head(Lines[i].text) = " "
      BY ONLY <2>4, <3>3
    <3>6. \E n \in 1 .. i - 1 :
            Means(n).kind = "pair" /\ \A m \in n .. i - 1 : Means(m).kind # "heading"
      BY ONLY <3>2, <3>3
    <3>7. Swallowed(i)
      BY ONLY <3>4, <3>5, <3>6, Zenon DEF Swallowed
    <3> QED
      BY ONLY <3>3, <3>7
  <2> QED
    BY <2>6
<1>7. BlankOrComment(l) \/ Continuation(l) \/ Heading(l) \/ Pair(l)
  BY <1>1 DEF ParseLine
<1>11. comment => ~heading
  BY Zenon DEF CommentPrefixes
<1>8. /\ Heading(l) => heading /\ ~comment
      /\ Pair(l) => t # <<>> /\ ~comment /\ ~heading
      /\ ~Continuation(l)
  <2>1. Heading(l) => OpensBracket(l)
    BY DEF Heading
  <2>2. Pair(l) => IsText(l)
    BY DEF Pair
  <2>3. Continuation(l) => Continues(l)
    BY DEF Continuation
  <2> QED
    BY ONLY <1>5, <1>6, <1>11, <2>1, <2>2, <2>3
<1>9. heading => Tail(t) \in Seq(STRING)
  BY ONLY <1>0
<1>10. /\ heading => (CutAt(Tail(t), FindCharsOrComment(Tail(t), {"]"}), {"]"})
                        <=> closed)
       /\ CutAt(t, FindCharsOrComment(t, {"=", ":"}), {"=", ":"}) <=> named
  <2>1. \A s, i : s[i] \in {"]"} => ~InlineComment(s, i)
    BY Zenon DEF InlineComment
  <2>2. \A s, i : s[i] \in {"=", ":"} => ~InlineComment(s, i)
    BY Zenon DEF InlineComment
  <2>3. heading => (CutAt(Tail(t), FindCharsOrComment(Tail(t), {"]"}), {"]"})
                      <=> closed)
    <3>1. ASSUME NEW s \in Seq(STRING)
          PROVE  CutAt(s, FindCharsOrComment(s, {"]"}), {"]"})
                   <=> \E n \in 1 .. Len(s) : Marked(s, n, {"]"})
      BY ONLY <2>1, MarkFound
    <3> QED
      BY ONLY <1>9, <3>1
  <2>4. CutAt(t, FindCharsOrComment(t, {"=", ":"}), {"=", ":"}) <=> named
    <3>1. ASSUME NEW s \in Seq(STRING)
          PROVE  CutAt(s, FindCharsOrComment(s, {"=", ":"}), {"=", ":"})
                   <=> \E n \in 1 .. Len(s) : Marked(s, n, {"=", ":"})
      BY ONLY <2>2, MarkFound
    <3> QED
      BY ONLY <1>0, <3>1
  <2> QED
    BY <2>3, <2>4
<1> HIDE DEF comment, heading, closed, named
<1>12. kind = "nonsense" <=> Nonsense(k + 1)
  BY <1>2 DEF Nonsense
<1>13. /\ t = <<>> => ~heading /\ ~comment /\ ~named
       /\ BlankOrComment(l) => t = <<>> \/ comment
  <2>1. t = <<>> => ~named
    BY DEF named
  <2> QED
    BY <1>5, <2>1 DEF comment, heading
<1>14. \/ kind \in {"blank", "comment"} /\ BlankOrComment(l)
       \/ kind = "heading" /\ Heading(l) /\ closed /\ heading
       \/ kind = "pair" /\ Pair(l) /\ named
       \/ kind = "nonsense" /\ Heading(l) /\ ~closed /\ heading
       \/ kind = "nonsense" /\ Pair(l) /\ ~named
  BY ONLY <1>4, <1>7, <1>8, <1>11, <1>13
<1> QED
  BY ONLY <1>1, <1>2, <1>3, <1>10, <1>12, <1>14

\* The first line in trouble, and whether it is one the parser must report.
Troubled(i) == Nonsense(i) \/ Overlong(i) \/ Swallowed(i)
Reported == Nonsense(Trouble) /\ ~Overlong(Trouble) /\ ~Swallowed(Trouble)

LEMMA TroubleFound ==
  ASSUME start \in Starts, option.config \in DOMAIN start.disk
  PROVE  /\ Len(Lines) \in Nat /\ Trouble \in 1 .. Len(Lines) + 1
         /\ \A i \in 1 .. Len(Lines) : i < Trouble => ~Troubled(i)
         /\ Trouble <= Len(Lines) => Troubled(Trouble)
<1> DEFINE S == {i \in DOMAIN Lines : Nonsense(i) \/ Overlong(i) \/ Swallowed(i)}
<1>1. PICK n \in Nat : n = Len(Lines) /\ DOMAIN Lines = 1 .. n
  BY BelowTaken DEF Lines, IsFile
<1>2. Trouble = FirstIn(Lines, S)
  BY DEF Trouble
<1>3. S \subseteq 1 .. n
  BY <1>1
<1>4. \A i \in 1 .. n : Troubled(i) => i \in S
  BY <1>1 DEF Troubled
<1>7. \A i \in S : Troubled(i)
  BY DEF Troubled
<1> HIDE DEF S
<1>5. CASE S = {}
  BY ONLY n \in Nat, <1>1, <1>2, <1>4, <1>5 DEF FirstIn
<1>6. CASE S # {}
  <2>1. PICK x \in S : \A y \in S : x <= y
    BY ONLY n \in Nat, <1>3, <1>6, Least
  <2>2. Trouble = x
    <3>1. S \subseteq Int
      BY ONLY <1>3
    <3> QED
      BY ONLY <1>2, <2>1, <3>1, x \in S, FirstOf
  <2>3. x \in 1 .. n
    BY ONLY <1>3, x \in S
  <2> QED
    BY ONLY n \in Nat, x \in S, <1>1, <1>3, <1>4, <1>7, <2>1, <2>2, <2>3
<1> QED
  BY <1>5, <1>6

(* What the lines are and mean does not change while they are read. *)
LEMMA LinesStay ==
  ASSUME start' = start, option' = option
  PROVE  /\ Lines' = Lines /\ Trouble' = Trouble /\ (Reported' <=> Reported)
         /\ \A i : Means(i)' = Means(i)
<1>1. Lines' = Lines
  BY DEF Lines
<1>2. \A i : Means(i)' = Means(i)
  BY <1>1 DEF Means
<1>3. \A i : /\ Nonsense(i)' <=> Nonsense(i)
             /\ Overlong(i)' <=> Overlong(i)
             /\ Swallowed(i)' <=> Swallowed(i)
  <2>1. \A i : Nonsense(i)' <=> Nonsense(i)
    BY <1>2 DEF Nonsense
  <2>2. \A i : Overlong(i)' <=> Overlong(i)
    BY <1>1 DEF Overlong
  <2>3. \A i : Swallowed(i)' <=> Swallowed(i)
    BY <1>1, <1>2 DEF Swallowed
  <2> QED
    BY <2>1, <2>2, <2>3
<1>4. Trouble' = Trouble
  <2>1. {i \in DOMAIN Lines : Nonsense(i) \/ Overlong(i) \/ Swallowed(i)}'
        = {i \in DOMAIN Lines : Nonsense(i) \/ Overlong(i) \/ Swallowed(i)}
    BY ONLY <1>1, <1>3
  <2> QED
    BY ONLY <1>1, <2>1 DEF Trouble
<1> QED
  BY <1>1, <1>2, <1>3, <1>4 DEF Reported

\* The first k lines made sense and each was read as one piece.
SenseSoFar(k) ==
  /\ k \in 0 .. Len(Lines) /\ k < Trouble
  /\ lineno = k /\ error = 0
  /\ Continuable(k)
  /\ ini = "parsing" => stream = Below(Lines)[k]
  /\ ini = "parsed" => k = Len(Lines)

\* Either that, or the first line in trouble has been met; if it is one to be
\* reported, error names it and nothing changes that any more.
FileAsMeant ==
  /\ status = "arguments" => ini = "closed" /\ lineno = 0 /\ error = 0 /\ prev_name = <<>>
  /\ Opened /\ ini # "closed" =>
       \/ \E k \in Nat : SenseSoFar(k)
       \/ ~Untroubled /\ (Reported => error = Trouble)

(* A reported error stays. *)
LEMMA ErrorStays ==
  ASSUME error \in Nat \ {0}, ParseStream
  PROVE  error' = error
<1>1. FirstError = error
  BY DEF FirstError
<1> QED
  BY <1>1 DEF ParseStream, ParseLine, EndOfFile, BlankOrComment, Continuation, Heading, Pair

\* The line looked at is line i, and is taken for what it means.
Obeyed(i) ==
  LET t == Scanned.text
      closed == CutAt(Tail(t), FindCharsOrComment(Tail(t), {"]"}), {"]"})
      named  == CutAt(t, FindCharsOrComment(t, {"=", ":"}), {"=", ":"})
  IN /\ t = Shown(Lines, i) /\ t \in Seq(STRING)
     /\ \/ Means(i).kind \in {"blank", "comment"} /\ BlankOrComment(Scanned)
        \/ Means(i).kind = "heading" /\ Heading(Scanned) /\ closed
        \/ Means(i).kind = "pair" /\ Pair(Scanned) /\ named

(* A line before the first in trouble is obeyed and leaves no error, and that *)
(* line one.                                                                  *)
LEMMA SenseStep ==
  ASSUME start \in Starts, option.config \in DOMAIN start.disk, start' = start, option' = option,
         ini = "parsing", NEW k \in Nat, SenseSoFar(k), ParseStream
  PROVE  \/ EndOfFile /\ SenseSoFar(k)'
         \/ k + 1 \in 1 .. Len(Lines) /\ k + 1 < Trouble /\ Obeyed(k + 1) /\ SenseSoFar(k + 1)'
         \/ Trouble = k + 1 /\ ~Untroubled' /\ (Reported' => error' = Trouble')
<1>1. PICK n \in Nat : n = Len(Lines)
  BY TroubleFound
<1>2. /\ Lines' = Lines /\ Trouble' = Trouble /\ (Reported' <=> Reported)
      /\ \A i : Means(i)' = Means(i)
  BY LinesStay
<1>3. /\ k \in 0 .. n /\ k < Trouble /\ lineno = k /\ error = 0 /\ Continuable(k)
      /\ stream = Below(Lines)[k]
  BY <1>1 DEF SenseSoFar
<1>4. IsFile(Lines)
  BY DEF IsFile, Lines
<1>5. CASE k = n
  <2>1. stream = <<>>
    BY <1>1, <1>3, <1>4, <1>5, BelowTaken
  <2>2. EndOfFile
    BY <2>1 DEF ParseStream, ParseLine, ReadPiece
  <2>3. ini' = "parsed" /\ UNCHANGED <<lineno, error, prev_name>>
    BY <2>2 DEF EndOfFile
  <2>4. Continuable(k)'
    BY <1>2, <1>3, <2>3 DEF Continuable
  <2>5. SenseSoFar(k)'
    BY <1>1, <1>2, <1>3, <1>5, <2>3, <2>4 DEF SenseSoFar
  <2> QED
    BY <2>2, <2>5
<1>6. CASE k # n
  <2>1. k \in 0 .. n - 1 /\ k + 1 \in 1 .. n /\ k + 1 \in 0 .. n
    BY <1>3, <1>6
  <2>2. stream # <<>>
    <3>1. LineOff(Lines, k) /\ Below(Lines) \in [0 .. n -> Seq(STRING)]
      BY <1>1, <1>4, <2>1, BelowTaken
    <3>2. Below(Lines)[k + 1] \in Seq(STRING)
      BY <2>1, <3>1
    <3> DEFINE w == Append(Lines[k + 1].text, "\n")
    <3>3. Len(w) > 0 /\ w \in Seq(STRING)
      BY ONLY <3>1 DEF LineOff
    <3>4. Below(Lines)[k] = w \o Below(Lines)[k + 1]
      BY ONLY <3>1 DEF LineOff
    <3> HIDE DEF w
    <3>5. w \o Below(Lines)[k + 1] # <<>>
      BY ONLY <3>2, <3>3
    <3> QED
      BY <1>3, <3>4, <3>5
  <2>3. ParseLine
    BY <2>2 DEF ParseStream, EndOfFile
  <2> DEFINE t == Scanned.text
             closed == CutAt(Tail(t), FindCharsOrComment(Tail(t), {"]"}), {"]"})
             named  == CutAt(t, FindCharsOrComment(t, {"=", ":"}), {"=", ":"})
  <2>4. ASSUME ~Overlong(k + 1), ~Swallowed(k + 1)
        PROVE  /\ lineno' = k + 1 /\ stream' = Below(Lines)[k + 1] /\ ini' = ini
               /\ t = Shown(Lines, k + 1) /\ t \in Seq(STRING)
               /\ \/ Means(k + 1).kind \in {"blank", "comment"} /\ BlankOrComment(Scanned)
                  \/ Means(k + 1).kind = "heading" /\ Heading(Scanned) /\ closed
                  \/ Means(k + 1).kind = "pair" /\ Pair(Scanned) /\ named
                  \/ Nonsense(k + 1) /\ Heading(Scanned) /\ ~closed
                  \/ Nonsense(k + 1) /\ Pair(Scanned) /\ ~named
    BY <1>1, <1>3, <2>1, <2>3, <2>4, LineTaken
  <2> HIDE DEF t, closed, named
  <2>5. CASE ~Troubled(k + 1)
    <3>0. ~Nonsense(k + 1) /\ ~Overlong(k + 1) /\ ~Swallowed(k + 1)
      BY <2>5 DEF Troubled
    <3>1. k + 1 < Trouble
      BY <1>1, <1>3, <2>1, <2>5, TroubleFound
    <3>2. error' = 0 /\ Continuable(k + 1)'
      <4>1. CASE Means(k + 1).kind \in {"blank", "comment"} /\ BlankOrComment(Scanned)
        <5>1. error' = error /\ prev_name' = prev_name
          BY <4>1 DEF BlankOrComment
        <5>2. Means(k + 1).kind # "heading"
          BY ONLY <4>1
        <5>3. ASSUME NEW j \in 1 .. k, \A i \in j .. k : Means(i).kind # "heading"
              PROVE  j \in 1 .. k + 1 /\ \A i \in j .. k + 1 : Means(i).kind # "heading"
          BY ONLY <5>2, <5>3, k \in Nat, j \in 1 .. k
        <5>4. prev_name' # <<>> =>
                \E j \in 1 .. k + 1 : /\ Means(j).kind = "pair"
                                     /\ \A i \in j .. k + 1 : Means(i).kind # "heading"
          BY ONLY <1>3, <5>1, <5>3 DEF Continuable
        <5> QED
          BY ONLY <1>2, <1>3, <5>1, <5>4 DEF Continuable
      <4>2. CASE Heading(Scanned) /\ closed
        <5>1. error' = error /\ prev_name' = <<>>
          BY <4>2 DEF Heading, closed, t
        <5> QED
          BY ONLY <1>3, <5>1 DEF Continuable
      <4>3. CASE Means(k + 1).kind = "pair" /\ Pair(Scanned) /\ named
        <5>1. error' = error
          BY <4>3 DEF Pair, named, t
        <5>2. \E j \in 1 .. k + 1 : /\ Means(j).kind = "pair"
                                   /\ \A i \in j .. k + 1 : Means(i).kind # "heading"
          <6>1. k + 1 \in 1 .. k + 1 /\ \A i \in k + 1 .. k + 1 : i = k + 1
            OBVIOUS
          <6>2. \A i \in k + 1 .. k + 1 : Means(i).kind # "heading"
            BY ONLY <4>3, <6>1
          <6> QED
            BY ONLY <4>3, <6>1, <6>2
        <5> QED
          BY ONLY <1>2, <1>3, <5>1, <5>2 DEF Continuable
      <4> QED
        BY <2>4, <3>0, <4>1, <4>2, <4>3
    <3>3. SenseSoFar(k + 1)'
      BY <1>1, <1>2, <2>1, <2>4, <3>0, <3>1, <3>2 DEF SenseSoFar
    <3>4. Obeyed(k + 1)
      <4>1. PICK i : i = k + 1
        OBVIOUS
      <4>2. /\ t = Shown(Lines, i) /\ t \in Seq(STRING)
            /\ \/ Means(i).kind \in {"blank", "comment"} /\ BlankOrComment(Scanned)
               \/ Means(i).kind = "heading" /\ Heading(Scanned) /\ closed
               \/ Means(i).kind = "pair" /\ Pair(Scanned) /\ named
        BY ONLY <2>4, <3>0, <4>1
      <4>3. Obeyed(i)
        BY ONLY <4>2 DEF Obeyed, t, closed, named
      <4> QED
        BY ONLY <4>1, <4>3
    <3>5. k + 1 \in 1 .. Len(Lines)
      BY ONLY <1>1, <2>1
    <3> QED
      BY ONLY <3>1, <3>3, <3>4, <3>5
  <2>6. CASE Troubled(k + 1)
    <3>1. Trouble = k + 1
      BY <1>1, <1>3, <2>1, <2>6, TroubleFound
    <3>2. ~Untroubled'
      BY <1>1, <1>2, <2>1, <3>1 DEF Untroubled
    <3>3. ASSUME Reported PROVE error' = Trouble
      <4>1. Nonsense(k + 1) /\ ~Overlong(k + 1) /\ ~Swallowed(k + 1)
        BY <3>1, <3>3 DEF Reported
      <4>2. Means(k + 1).kind = "nonsense"
        BY <4>1 DEF Nonsense
      <4>3. (Heading(Scanned) /\ ~closed) \/ (Pair(Scanned) /\ ~named)
        BY <2>4, <4>1, <4>2
      <4>4. error' = FirstError
        BY <4>3 DEF Heading, Pair, closed, named, t
      <4> QED
        BY <1>3, <3>1, <4>4 DEF FirstError
    <3> QED
      BY ONLY <1>2, <3>1, <3>2, <3>3
  <2> QED
    BY <2>5, <2>6
<1> QED
  BY <1>5, <1>6
(* A file just opened has been read up to its first line. *)
LEMMA FileOpened ==
  ASSUME TextInv, FileAsMeant, OpenConfig, option.config \in DOMAIN start.disk
  PROVE  ini' = "parsing" /\ SenseSoFar(0)'
<1>1. /\ status = "arguments" /\ option' = option /\ start' = start
      /\ lineno = 0 /\ error = 0 /\ prev_name = <<>> /\ start \in Starts
  BY DEF OpenConfig, cliVars, FileAsMeant, TextInv
<1>2. /\ stream' = Contents(Lines) /\ ini' = "parsing"
      /\ UNCHANGED <<lineno, error, prev_name>>
  BY DEF OpenConfig, OpenFile, Lines
<1>3. Lines' = Lines /\ Trouble' = Trouble
  BY <1>1, LinesStay
<1>4. Contents(Lines) = Below(Lines)[0] /\ 0 \in 0 .. Len(Lines) /\ 0 < Trouble
  <2>1. IsFile(Lines)
    BY <1>1 DEF IsFile, Lines
  <2> QED
    BY <1>1, <2>1, BelowTaken, TroubleFound
<1>5. Continuable(0)'
  BY <1>1, <1>2 DEF Continuable
<1>6. SenseSoFar(0)'
  BY ONLY <1>1, <1>2, <1>3, <1>4, <1>5 DEF SenseSoFar
<1> QED
  BY <1>2, <1>6

(* From the first line to the last, and before and after. *)
LEMMA FileKept == TextInv /\ FileAsMeant /\ [Next]_vars => FileAsMeant'
<1> SUFFICES ASSUME TextInv, FileAsMeant, [Next]_vars PROVE FileAsMeant'
  OBVIOUS
<1>1. CASE ParseArguments
  BY <1>1 DEF ParseArguments, iniVars, FileAsMeant, Opened
<1>2. CASE Leave
  BY <1>2 DEF Leave, iniVars, FileAsMeant
<1>3. CASE OpenConfig
  <2>1. /\ status = "arguments" /\ status' = "reading" /\ option' = option /\ start' = start
        /\ lineno = 0 /\ error = 0 /\ prev_name = <<>> /\ start \in Starts
    BY <1>3 DEF OpenConfig, cliVars, FileAsMeant, TextInv
  <2>2. CASE option.config \in DOMAIN start.disk
    <3>1. SenseSoFar(0)'
      BY <1>3, <2>2, FileOpened
    <3> QED
      BY <2>1, <3>1 DEF FileAsMeant
  <2>3. CASE option.config \notin DOMAIN start.disk
    BY <2>1, <2>3 DEF FileAsMeant, Opened
  <2> QED
    BY <2>2, <2>3
<1>4. CASE ReadConfig
  <2>1. /\ status = "reading" /\ ParseStream /\ ini = "parsing" /\ start \in Starts
        /\ status' = status /\ option' = option /\ start' = start
    BY <1>4 DEF ReadConfig, ParseStream, ParseLine, ReadPiece, EndOfFile, cliVars, TextInv
  <2>2. Opened' <=> Opened
    BY <2>1 DEF Opened
  <2>3. CASE Opened
    <3>1. option.config \in DOMAIN start.disk
      BY <2>3 DEF Opened
    <3>2. CASE \E k \in Nat : SenseSoFar(k)
      <4>1. PICK k \in Nat : SenseSoFar(k)
        BY <3>2
      <4>2. \/ EndOfFile /\ SenseSoFar(k)'
            \/ /\ k + 1 \in 1 .. Len(Lines) /\ k + 1 < Trouble
               /\ Obeyed(k + 1) /\ SenseSoFar(k + 1)'
            \/ Trouble = k + 1 /\ ~Untroubled' /\ (Reported' => error' = Trouble')
        BY ONLY <2>1, <3>1, <4>1, k \in Nat, SenseStep
      <4>3. k \in Nat /\ k + 1 \in Nat
        OBVIOUS
      <4> QED
        BY <2>1, <4>2, <4>3 DEF FileAsMeant
    <3>3. CASE ~Untroubled /\ (Reported => error = Trouble)
      <4>1. /\ Lines' = Lines /\ Trouble' = Trouble /\ (Reported' <=> Reported)
        BY <2>1, LinesStay
      <4>2. Reported => error' = Trouble
        <5>1. Trouble \in Nat \ {0}
          BY <2>1, <3>1, TroubleFound
        <5> QED
          BY <2>1, <3>3, <5>1, ErrorStays
      <4>3. ~Untroubled'
        BY <3>3, <4>1 DEF Untroubled
      <4> QED
        BY <2>1, <4>1, <4>2, <4>3 DEF FileAsMeant
    <3> QED
      BY <2>1, <2>3, <3>2, <3>3 DEF FileAsMeant
  <2> QED
    BY <2>1, <2>2, <2>3 DEF FileAsMeant
<1>5. CASE /\ UNCHANGED <<cliVars, iniVars, start>>
           /\ status' = "arguments" => status = "arguments"
           /\ status = "arguments" => status' = "arguments"
  <2>1. /\ option' = option /\ start' = start /\ lineno' = lineno /\ error' = error
        /\ prev_name' = prev_name /\ ini' = ini /\ stream' = stream
    BY <1>5 DEF cliVars, iniVars
  <2>2. /\ Lines' = Lines /\ Trouble' = Trouble /\ (Reported' <=> Reported)
        /\ \A i : Means(i)' = Means(i)
    BY <2>1, LinesStay
  <2>3. \A k : Continuable(k)' <=> Continuable(k)
    BY ONLY <2>1, <2>2 DEF Continuable
  <2>4. \A k : SenseSoFar(k)' <=> SenseSoFar(k)
    BY ONLY <2>1, <2>2, <2>3 DEF SenseSoFar
  <2>5. (Untroubled' <=> Untroubled) /\ (Opened' <=> Opened)
    BY <1>5, <2>1, <2>2 DEF Untroubled, Opened
  <2> QED
    BY <1>5, <2>1, <2>2, <2>4, <2>5 DEF FileAsMeant
<1> QED
  BY <1>1, <1>2, <1>3, <1>4, <1>5
  DEF Next, CannotLoad, InitParams, Configure, Layout!Configure, GeneratorFails, MakeGenerator,
      Finished, vars

(* ParseError() names the first line that makes no sense, unless an overlong  *)
(* or swallowed line above it has confused the parser; it is 0 if every line  *)
(* makes sense (ini_parse_stream).                                            *)
THEOREM BadLineNamed == Spec => []ErrorNamesFirstBadLine
<1>1. Init => FileAsMeant
  BY DEF Init, IniInit, FileAsMeant, Opened
<1>2. TextInv /\ FileAsMeant => ErrorNamesFirstBadLine
  <2> SUFFICES ASSUME TextInv, FileAsMeant, Opened, ini = "parsed"
               PROVE  /\ Untroubled => error = 0
                      /\ ~Untroubled => (Reported => error = Trouble)
    BY DEF ErrorNamesFirstBadLine, Reported
  <2>1. CASE \E k \in Nat : SenseSoFar(k)
    <3>1. PICK k \in Nat : SenseSoFar(k)
      BY <2>1
    <3>2. k = Len(Lines) /\ k < Trouble /\ error = 0 /\ Trouble \in Nat
      BY <3>1, TroubleFound DEF SenseSoFar, TextInv, Opened
    <3> QED
      BY <3>2 DEF Untroubled
  <2> QED
    BY <2>1 DEF FileAsMeant
<1> QED
  BY <1>1, <1>2, FileKept, TextKept, PTL DEF Spec

-----------------------------------------------------------------------------
(* What the reader keeps. *)

\* What values are made of: words, and the newline that joins two of them.
Pieces == STRING \cup {"\n"}
ValueText ==
  /\ section \in Seq(STRING) /\ prev_name \in Seq(STRING)
  /\ \A key \in DOMAIN values : values[key] \in Seq(Pieces)

\* A value w begins as v does: as far as a sign and a numeral may reach.
Leads(v, w) ==
  /\ w # <<>> /\ w[1] = v[1]
  /\ Len(v) > 1 => Len(w) > 1 /\ w[2] = v[2]

(* Values begin as themselves, and as what their own beginning begins with. *)
LEMMA Leading ==
  /\ \A v : v # <<>> => Leads(v, v)
  /\ \A u, v, w : Leads(u, v) /\ Leads(v, w) => Leads(u, w)
  /\ \A v, w : Leads(v, w) => w # <<>>
BY DEF Leads

\* A pair's value, as it is handed to the reader.
Kept(key, v) == values' = HandledValue(key, v)

(* A further value for a key stands behind those it has, and leaves other     *)
(* keys alone.                                                                *)
LEMMA ValueKept ==
  ASSUME ValueText, NEW key, NEW v \in Seq(STRING), Kept(key, v)
  PROVE  /\ \A K \in DOMAIN values' : values'[K] \in Seq(Pieces)
         /\ \A K : K \in DOMAIN values' <=> K \in DOMAIN values \/ K = key
         /\ \A K : K # key => Valued(K)' = Valued(K)
         /\ Valued(key) = <<>> => Valued(key)' = v
         /\ Valued(key) # <<>> => Leads(Valued(key), Valued(key)')
<1> DEFINE T == Pieces
           old == Valued(key)
           joined == IF old = <<>> THEN v ELSE old \o <<"\n">> \o v
<1>1. values' = [k \in DOMAIN values \cup {key} |-> IF k # key THEN values[k] ELSE joined]
  BY DEF Kept, HandledValue
<1>2. old \in Seq(T)
  BY DEF ValueText, Valued
<1>3. v \in Seq(T) /\ <<"\n">> \in Seq(T)
  BY DEF Pieces
<1> HIDE DEF T, old
<1>4. /\ joined \in Seq(T)
      /\ old # <<>> => Leads(old, joined)
  BY <1>2, <1>3 DEF Leads
<1>5. old = <<>> => joined = v
  OBVIOUS
<1> HIDE DEF joined
<1>6. \A K \in DOMAIN values' : values'[K] \in Seq(T)
  BY <1>1, <1>4 DEF ValueText, T
<1>7. \A K : K \in DOMAIN values' <=> K \in DOMAIN values \/ K = key
  BY <1>1
<1>8. \A K : K # key => Valued(K)' = Valued(K)
  BY <1>1 DEF Valued
<1>9. Valued(key)' = joined
  BY <1>1 DEF Valued
<1> QED
  BY <1>4, <1>5, <1>6, <1>7, <1>8, <1>9 DEF T, old

(* What is behind a place of a text is text. *)
LEMMA CutBehind ==
  ASSUME NEW s \in Seq(STRING), NEW n \in 1 .. Len(s) + 1
  PROVE  After(s, n) \in Seq(STRING)
<1> DEFINE T == STRING
<1>1. s \in Seq(T) /\ n + 1 \in Nat \ {0}
  OBVIOUS
<1> HIDE DEF T
<1>2. SubSeq(s, n + 1, Len(s)) \in Seq(T)
  BY ONLY <1>1, PartOf
<1> QED
  BY <1>2 DEF After, T

(* What the parser hands to the reader is text. *)
LEMMA PairIsText ==
  ASSUME NEW t \in Seq(STRING)
  PROVE  LET n == FindCharsOrComment(t, {"=", ":"})
         IN /\ RStrip(Before(t, n)) \in Seq(STRING)
            /\ WithoutComment(LSkip(After(t, n))) \in Seq(STRING)
            /\ WithoutComment(t) \in Seq(STRING)
<1>1. ASSUME NEW s \in Seq(STRING) PROVE WithoutComment(s) \in Seq(STRING)
  <2>1. Before(s, FindCharsOrComment(s, {})) \in Seq(STRING)
    BY Cut
  <2> QED
    BY <2>1, Cut DEF WithoutComment
<1>2. PICK n : n = FindCharsOrComment(t, {"=", ":"})
  OBVIOUS
<1>3. n \in 1 .. Len(t) + 1
  BY <1>2, Cut
<1>4. Before(t, n) \in Seq(STRING) /\ After(t, n) \in Seq(STRING)
  BY <1>3, Cut, CutBehind
<1>5. RStrip(Before(t, n)) \in Seq(STRING) /\ LSkip(After(t, n)) \in Seq(STRING)
  BY <1>4, Cut
<1> QED
  BY <1>1, <1>2, <1>5

(* Buffers hold text. *)
LEMMA BufferIsText ==
  ASSUME NEW s \in Seq(STRING), NEW n \in Nat \ {0}
  PROVE  Strncpy0(s, n) \in Seq(STRING)
<1>1. CASE Len(s) < n
  BY <1>1 DEF Strncpy0
<1>2. CASE ~(Len(s) < n)
  BY <1>2 DEF Strncpy0
<1> QED
  BY <1>1, <1>2

(* Every step of the reader keeps text, and no value but at its end. *)
LEMMA ReaderStep ==
  ASSUME TextInv, ValueText, ParseStream
  PROVE  /\ ValueText'
         /\ \A K : Valued(K) # <<>> => Leads(Valued(K), Valued(K)')
<1> DEFINE Heads == \A K : Valued(K) # <<>> => Leads(Valued(K), Valued(K)')
<1>0. ASSUME values' = values PROVE Heads
  <2>1. \A K : Valued(K)' = Valued(K)
    BY <1>0 DEF Valued
  <2> QED
    BY <2>1, Leading
<1>1. ASSUME NEW key, NEW v \in Seq(STRING), values' = HandledValue(key, v)
      PROVE  Heads /\ \A K \in DOMAIN values' : values'[K] \in Seq(Pieces)
  <2>1. Kept(key, v)
    BY <1>1 DEF Kept
  <2>2. /\ \A K \in DOMAIN values' : values'[K] \in Seq(Pieces)
        /\ \A K : K # key => Valued(K)' = Valued(K)
        /\ Valued(key) # <<>> => Leads(Valued(key), Valued(key)')
    BY ONLY <2>1, ValueText, v \in Seq(STRING), ValueKept
  <2> QED
    BY ONLY <2>2, Leading
<1> SUFFICES ValueText' /\ Heads
  OBVIOUS
<1> HIDE DEF Heads
<1>2. CASE EndOfFile
  BY <1>0, <1>2 DEF EndOfFile, ValueText
<1>3. CASE ParseLine
  <2>1. PICK t : t = Scanned.text
    OBVIOUS
  <2>2. t \in Seq(STRING)
    BY <1>3, <2>1, LineIsText DEF ParseLine
  <2>3. MaxSection \in Nat \ {0} /\ MaxName \in Nat \ {0}
    BY BufferAssumption
  <2>4. CASE BlankOrComment(Scanned)
    BY <1>0, <2>4 DEF BlankOrComment, ValueText
  <2>5. CASE Continuation(Scanned)
    <3>1. PICK v : v = WithoutComment(t)
      OBVIOUS
    <3>2. v \in Seq(STRING)
      BY ONLY <2>2, <3>1, PairIsText
    <3>3. /\ values' = HandledValue(MakeKey(section, prev_name), v)
          /\ UNCHANGED <<section, prev_name>>
      BY <2>1, <2>5, <3>1 DEF Continuation
    <3> QED
      BY <1>1, <3>2, <3>3 DEF ValueText
  <2>6. CASE Heading(Scanned)
    <3>1. PICK b : b = Before(Tail(t), FindCharsOrComment(Tail(t), {"]"}))
      OBVIOUS
    <3>2. b \in Seq(STRING)
      <4>1. t # <<>>
        BY <2>1, <2>6 DEF Heading, OpensBracket
      <4>2. Tail(t) \in Seq(STRING)
        BY ONLY <2>2, <4>1
      <4> QED
        BY ONLY <3>1, <4>2, Cut
    <3>3. Strncpy0(b, MaxSection) \in Seq(STRING)
      BY <2>3, <3>2, BufferIsText
    <3>4. /\ section' \in {section, Strncpy0(b, MaxSection)}
          /\ prev_name' \in {prev_name, <<>>} /\ values' = values
      BY <2>1, <2>6, <3>1 DEF Heading
    <3>5. <<>> \in Seq(STRING)
      OBVIOUS
    <3> QED
      BY <1>0, <3>3, <3>4, <3>5 DEF ValueText
  <2>7. CASE Pair(Scanned)
    <3>1. PICK n : n = FindCharsOrComment(t, {"=", ":"})
      OBVIOUS
    <3>2. PICK name, v : name = RStrip(Before(t, n)) /\ v = WithoutComment(LSkip(After(t, n)))
      OBVIOUS
    <3>3. name \in Seq(STRING) /\ v \in Seq(STRING)
      BY ONLY <2>2, <3>1, <3>2, PairIsText
    <3>4. Strncpy0(name, MaxName) \in Seq(STRING)
      BY <2>3, <3>3, BufferIsText
    <3>5. /\ UNCHANGED section
          /\ \/ /\ prev_name' = Strncpy0(name, MaxName)
                /\ values' = HandledValue(MakeKey(section, name), v)
             \/ UNCHANGED <<prev_name, values>>
      BY <2>1, <2>7, <3>1, <3>2 DEF Pair
    <3> QED
      BY <1>0, <1>1, <3>3, <3>4, <3>5 DEF ValueText
  <2> QED
    BY <1>3, <2>4, <2>5, <2>6, <2>7 DEF ParseLine
<1> QED
  BY <1>2, <1>3 DEF ParseStream

-----------------------------------------------------------------------------
(* Keys. *)

\* The parameters the property is about, and where the reader keeps one.
Wanted == IntegerParams \cup StringParams
KeyOf(p) == MakeKey(<<p[1]>>, <<p[2]>>)

(* None of their names is the sign between a section and a name. *)
LEMMA WantedArePlain ==
  \A p \in Wanted : p[1] # "=" /\ p[2] # "=" /\ p[1] # ""
<1> DEFINE Usual(p) == /\ p[1] \in {"system", "dram_structure", "fault_system"}
                        /\ p[1] # "=" /\ p[2] # "="
<1>1. \A p \in IntegerParams : Usual(p)
  BY ONLY DEF IntegerParams
<1>2. \A p \in StringParams : Usual(p)
  BY ONLY DEF StringParams
<1>3. \A w \in {"system", "dram_structure", "fault_system"} : w # ""
  BY ONLY Zenon
<1> QED
  BY ONLY <1>1, <1>2, <1>3 DEF Wanted

\* A word in lower case.
Low(w) == IF w \in DOMAIN LowerCase THEN LowerCase[w] ELSE w

LEMMA LowerWords ==
  /\ Low("=") = "=" /\ \A w : w # "=" => Low(w) # "="
  /\ \A s : Lower(s) = [i \in 1 .. Len(s) |-> Low(s[i])]
BY LowerAssumption DEF Low, Lower

(* A text spells a name when it is one word, and that name but for its case. *)
LEMMA SpellsOne ==
  ASSUME NEW s \in Seq(STRING), NEW w
  PROVE  Spells(s, w) <=> Len(s) = 1 /\ Low(s[1]) = Low(w)
<1>1. PICK n \in Nat : n = Len(s)
  OBVIOUS
<1>2. Lower(s) = [i \in 1 .. n |-> Low(s[i])] /\ Lower(<<w>>) = [i \in 1 .. 1 |-> Low(w)]
  <2>1. Len(<<w>>) = 1 /\ \A i \in 1 .. 1 : <<w>>[i] = w
    OBVIOUS
  <2>2. Lower(<<w>>) = [i \in 1 .. 1 |-> Low(<<w>>[i])]
    BY <2>1, LowerWords
  <2> QED
    BY <1>1, <2>1, <2>2, LowerWords
<1>3. CASE n = 1
  <2>1. (\A i \in 1 .. 1 : Low(s[i]) = Low(w)) <=> Low(s[1]) = Low(w)
    OBVIOUS
  <2> QED
    BY <1>1, <1>2, <1>3, <2>1 DEF Spells
<1>4. CASE n # 1
  <2>1. 1 .. n # 1 .. 1
    BY ONLY n \in Nat, <1>4
  <2> QED
    BY <1>1, <1>2, <1>4, <2>1 DEF Spells
<1> QED
  BY <1>3, <1>4

(* A key is a parameter's when section and name are, as no other word of the *)
(* parameter's key is the sign between them.                                 *)
LEMMA KeyMatches ==
  ASSUME NEW p \in Wanted, NEW s \in Seq(STRING), NEW name \in Seq(STRING)
  PROVE  MakeKey(s, name) = KeyOf(p) <=> Spells(s, p[1]) /\ Spells(name, p[2])
<1>1. PICK n, m \in Nat : n = Len(s) /\ m = Len(name)
  OBVIOUS
<1>2. PICK a, b : a = p[1] /\ b = p[2]
  OBVIOUS
<1>3. a # "=" /\ b # "="
  BY <1>2, WantedArePlain
<1>4. PICK w : w = s \o <<"=">> \o name
  OBVIOUS
<1>5. /\ Len(w) = n + 1 + m /\ w[n + 1] = "="
      /\ \A i \in 1 .. n : w[i] = s[i]
      /\ \A i \in 1 .. m : w[n + 1 + i] = name[i]
  <2> DEFINE T == STRING \cup {"="}
  <2>1. s \in Seq(T) /\ name \in Seq(T) /\ <<"=">> \in Seq(T)
    OBVIOUS
  <2> HIDE DEF T
  <2> QED
    BY <1>1, <1>4, <2>1
<1>6. PICK v : v = <<a>> \o <<"=">> \o <<b>>
  OBVIOUS
<1>7. Len(v) = 3 /\ v[1] = a /\ v[2] = "=" /\ v[3] = b
  BY <1>6
<1>8. /\ MakeKey(s, name) = [i \in 1 .. n + 1 + m |-> Low(w[i])]
      /\ KeyOf(p) = [i \in 1 .. 3 |-> Low(v[i])]
  BY <1>2, <1>4, <1>5, <1>6, <1>7, LowerWords DEF MakeKey, KeyOf
<1>9. /\ Spells(s, a) <=> n = 1 /\ Low(s[1]) = Low(a)
      /\ Spells(name, b) <=> m = 1 /\ Low(name[1]) = Low(b)
  BY <1>1, SpellsOne
<1>10. ASSUME MakeKey(s, name) = KeyOf(p) PROVE Spells(s, a) /\ Spells(name, b)
  <2>1. 1 .. n + 1 + m = 1 .. 3
    BY <1>8, <1>10
  <2>2. n + 1 + m = 3
    <3>1. n + 1 + m \in 1 .. 3 /\ 3 \in 1 .. n + 1 + m
      <4>1. n + 1 + m \in 1 .. n + 1 + m /\ 3 \in 1 .. 3
        BY ONLY n \in Nat, m \in Nat
      <4> QED
        BY ONLY <2>1, <4>1
    <3> QED
      BY ONLY n \in Nat, m \in Nat, <3>1
  <2>3. \A i \in 1 .. 3 : Low(w[i]) = Low(v[i])
    BY <1>8, <1>10, <2>2
  <2>4. n + 1 \in 1 .. 3 /\ Low(v[n + 1]) = "="
    <3>1. n + 1 \in 1 .. 3
      BY ONLY n \in Nat, m \in Nat, <2>2
    <3>2. Low(w[n + 1]) = Low(v[n + 1])
      BY ONLY <2>3, <3>1
    <3> QED
      BY ONLY <1>5, <3>1, <3>2, LowerWords
  <2>5. Low(v[1]) # "=" /\ Low(v[3]) # "="
    BY <1>3, <1>7, LowerWords
  <2>6. n = 1 /\ m = 1
    BY ONLY n \in Nat, m \in Nat, <2>2, <2>4, <2>5
  <2>7. w[1] = s[1] /\ w[3] = name[1]
    BY <1>5, <2>6
  <2> QED
    BY <1>7, <1>9, <2>3, <2>6, <2>7
<1>11. ASSUME Spells(s, a), Spells(name, b) PROVE MakeKey(s, name) = KeyOf(p)
  <2>1. n = 1 /\ m = 1 /\ Low(s[1]) = Low(a) /\ Low(name[1]) = Low(b)
    BY <1>9, <1>11
  <2>2. w[1] = s[1] /\ w[2] = "=" /\ w[3] = name[1] /\ n + 1 + m = 3
    BY <1>5, <2>1
  <2>3. \A i \in 1 .. 3 : Low(w[i]) = Low(v[i])
    <3>1. \A i \in 1 .. 3 : i = 1 \/ i = 2 \/ i = 3
      OBVIOUS
    <3> QED
      BY ONLY <1>7, <2>1, <2>2, <3>1
  <2> QED
    BY ONLY <1>8, <2>2, <2>3
<1> QED
  BY <1>2, <1>10, <1>11

(* A heading too long for its buffer is no parameter's section, cut or whole. *)
LEMMA BufferSpells ==
  ASSUME NEW s \in Seq(STRING), NEW w
  PROVE  Spells(Strncpy0(s, MaxSection), w) <=> Spells(s, w)
<1>1. PICK n, m \in Nat : n = Len(s) /\ m = MaxSection /\ m > 2
  BY BufferAssumption
<1>2. PICK c : c = Strncpy0(s, MaxSection)
  OBVIOUS
<1>3. c \in Seq(STRING)
  BY <1>1, <1>2, BufferIsText
<1>4. Len(c) = 1 <=> n = 1
  <2>1. CASE n < m
    BY <1>1, <1>2, <2>1 DEF Strncpy0
  <2>2. CASE ~(n < m)
    <3>1. Len(c) = m - 1
      BY <1>1, <1>2, <2>2 DEF Strncpy0
    <3>2. m > 2
      BY <1>1
    <3>3. m - 1 # 1 /\ n # 1
      BY ONLY n \in Nat, m \in Nat, <2>2, <3>2
    <3> QED
      BY ONLY <3>1, <3>3
  <2> QED
    BY <2>1, <2>2
<1>5. n = 1 => c[1] = s[1]
  BY <1>1, <1>2 DEF Strncpy0
<1> QED
  BY <1>1, <1>2, <1>3, <1>4, <1>5, SpellsOne

-----------------------------------------------------------------------------
(* What the lines mean. *)

(* A heading is the section that stands between its brackets. *)
LEMMA HeadingMeant ==
  ASSUME start \in Starts, option.config \in DOMAIN start.disk,
         NEW i \in DOMAIN Lines, Means(i).kind = "heading",
         NEW t \in Seq(STRING), t = Shown(Lines, i)
  PROVE  LET b == Before(Tail(t), FindCharsOrComment(Tail(t), {"]"}))
         IN /\ b \in Seq(STRING)
            /\ \A p \in Wanted : Means(i).section = p[1] <=> Spells(b, p[1])
<1>1. PICK means : means = Means(i)
  OBVIOUS
<1>2. /\ t # <<>>
      /\ \E n \in 1 .. Len(Tail(t)) :
           /\ Marked(Tail(t), n, {"]"})
           /\ \A p \in Wanted : means.section = p[1] <=> Spells(Before(Tail(t), n), p[1])
  BY <1>1, LineAssumption DEF Lines, Means, Wanted
<1>3. Tail(t) \in Seq(STRING)
  BY ONLY <1>2, t \in Seq(STRING)
<1>4. PICK s : s = Tail(t)
  OBVIOUS
<1>5. \A r, j : r[j] \in {"]"} => ~InlineComment(r, j)
  BY Zenon DEF InlineComment
<1>6. PICK m : m = FindCharsOrComment(s, {"]"})
  OBVIOUS
<1>7. PICK n \in 1 .. Len(s) :
        /\ Marked(s, n, {"]"})
        /\ \A p \in Wanted : means.section = p[1] <=> Spells(Before(s, n), p[1])
  BY ONLY <1>2, <1>4
<1>8. n = m
  <2>1. \A chars : (\A j : s[j] \in chars => ~InlineComment(s, j)) =>
                     (m = FindCharsOrComment(s, chars) => (Marked(s, n, chars) => n = m))
    BY ONLY <1>3, <1>4, MarkFound
  <2>2. PICK chars : chars = {"]"}
    OBVIOUS
  <2> QED
    BY ONLY <1>5, <1>6, <1>7, <2>1, <2>2
<1>9. Before(s, m) \in Seq(STRING)
  BY ONLY <1>3, <1>4, <1>6, Cut
<1> QED
  BY ONLY <1>1, <1>4, <1>6, <1>7, <1>8, <1>9

(* A pair is the name before its sign and the value behind it. *)
LEMMA PairMeant ==
  ASSUME start \in Starts, option.config \in DOMAIN start.disk,
         NEW i \in DOMAIN Lines, Means(i).kind = "pair",
         NEW t \in Seq(STRING), t = Shown(Lines, i)
  PROVE  LET n == FindCharsOrComment(t, {"=", ":"})
         IN /\ RStrip(Before(t, n)) \in Seq(STRING) /\ Means(i).value \in Seq(STRING)
            /\ Means(i).value = WithoutComment(LSkip(After(t, n)))
            /\ \A p \in Wanted : Means(i).name = p[2] <=> Spells(RStrip(Before(t, n)), p[2])
<1>1. PICK means : means = Means(i)
  OBVIOUS
<1>2. \E n \in 1 .. Len(t) :
        /\ Marked(t, n, {"=", ":"})
        /\ \A p \in Wanted : means.name = p[2] <=> Spells(RStrip(Before(t, n)), p[2])
        /\ means.value = WithoutComment(LSkip(After(t, n)))
  BY <1>1, LineAssumption DEF Lines, Means, Wanted
<1>3. \A r, j : r[j] \in {"=", ":"} => ~InlineComment(r, j)
  BY Zenon DEF InlineComment
<1>4. PICK m : m = FindCharsOrComment(t, {"=", ":"})
  OBVIOUS
<1>5. PICK n \in 1 .. Len(t) :
        /\ Marked(t, n, {"=", ":"})
        /\ \A p \in Wanted : means.name = p[2] <=> Spells(RStrip(Before(t, n)), p[2])
        /\ means.value = WithoutComment(LSkip(After(t, n)))
  BY ONLY <1>2
<1>6. n = m
  <2>1. \A chars : (\A j : t[j] \in chars => ~InlineComment(t, j)) =>
                     (m = FindCharsOrComment(t, chars) => (Marked(t, n, chars) => n = m))
    BY ONLY t \in Seq(STRING), MarkFound
  <2>2. PICK chars : chars = {"=", ":"}
    OBVIOUS
  <2> QED
    BY ONLY <1>3, <1>4, <1>5, <2>1, <2>2
<1>7. /\ RStrip(Before(t, m)) \in Seq(STRING)
      /\ WithoutComment(LSkip(After(t, m))) \in Seq(STRING)
  BY ONLY <1>4, t \in Seq(STRING), PairIsText
<1> QED
  BY ONLY <1>1, <1>4, <1>5, <1>6, <1>7

(* A heading is what the lines below it stand under. *)
LEMMA UnderNext ==
  /\ Under(0) = ""
  /\ \A k \in Nat : Under(k + 1) = IF Means(k + 1).kind = "heading"
                                   THEN Means(k + 1).section ELSE Under(k)
<1> DEFINE H(k) == {j \in 1 .. k : Means(j).kind = "heading"}
           Name(S) == IF S = {} THEN "" ELSE Means(Latest(S)).section
<1>1. \A k : Under(k) = Name(H(k))
  BY DEF Under
<1>2. Under(0) = ""
  <2>1. H(0) = {}
    OBVIOUS
  <2> QED
    BY <1>1, <2>1
<1>3. ASSUME NEW k \in Nat
      PROVE  Under(k + 1) = IF Means(k + 1).kind = "heading"
                            THEN Means(k + 1).section ELSE Under(k)
  <2>1. PICK A, B : A = H(k) /\ B = H(k + 1)
    OBVIOUS
  <2>2. 1 .. k + 1 = (1 .. k) \cup {k + 1}
    OBVIOUS
  <2>3. A \in SUBSET (1 .. k)
    BY <2>1
  <2>4. B = IF Means(k + 1).kind = "heading" THEN A \cup {k + 1} ELSE A
    BY <2>1, <2>2
  <2>5. Under(k) = Name(A) /\ Under(k + 1) = Name(B)
    BY <1>1, <2>1
  <2>6. CASE Means(k + 1).kind # "heading"
    <3>1. A = B
      BY ONLY <2>4, <2>6
    <3> HIDE DEF Name
    <3> QED
      BY ONLY <2>5, <2>6, <3>1
  <2>7. CASE Means(k + 1).kind = "heading"
    <3>1. k + 1 \in B /\ \A j \in B : (\A m \in B : m <= j) <=> j = k + 1
      BY ONLY k \in Nat, <2>3, <2>4, <2>7
    <3>2. Latest(B) = k + 1
      BY ONLY <3>1 DEF Latest
    <3>3. Name(B) = Means(k + 1).section
      BY ONLY <3>1, <3>2
    <3> HIDE DEF Name
    <3> QED
      BY ONLY <2>5, <2>7, <3>3
  <2> QED
    BY <2>6, <2>7
<1> QED
  BY <1>2, <1>3

-----------------------------------------------------------------------------
(* What has been read of a parameter. *)

\* The lines that name it among the first k, and those that give it a value.
NamersTo(p, k) ==
  {i \in 1 .. k : Means(i).kind = "pair" /\ Under(i) = p[1] /\ Means(i).name = p[2]}
GiversTo(p, k) == {i \in NamersTo(p, k) : Means(i).value # <<>>}

\* Whether the reader knows it, and the value v that it has for it.
Stored(p, k, known, v) ==
  /\ known <=> NamersTo(p, k) # {}
  /\ GiversTo(p, k) = {} => v = <<>>
  /\ \A i \in GiversTo(p, k) :
       (\A j \in GiversTo(p, k) : i <= j) => Leads(Means(i).value, v)
  /\ \A i : NamersTo(p, k) = {i} => v = Means(i).value

(* A line that does not name it changes nothing. *)
LEMMA StoredSame ==
  ASSUME NEW p, NEW k \in Nat, NEW known, NEW v, Stored(p, k, known, v),
         ~(Means(k + 1).kind = "pair" /\ Under(k + 1) = p[1] /\ Means(k + 1).name = p[2])
  PROVE  Stored(p, k + 1, known, v)
<1>1. 1 .. k + 1 = (1 .. k) \cup {k + 1}
  OBVIOUS
<1>2. NamersTo(p, k + 1) = NamersTo(p, k)
  BY <1>1 DEF NamersTo
<1>3. GiversTo(p, k + 1) = GiversTo(p, k)
  BY <1>2 DEF GiversTo
<1>4. PICK m : m = k + 1
  OBVIOUS
<1>5. Stored(p, m, known, v)
  BY ONLY <1>2, <1>3, <1>4, Stored(p, k, known, v) DEF Stored
<1> QED
  BY ONLY <1>4, <1>5

(* A line that names it adds its value, behind any value given before. *)
LEMMA StoredMore ==
  ASSUME NEW p, NEW k \in Nat, NEW known, NEW v, Stored(p, k, known, v),
         Means(k + 1).kind = "pair", Under(k + 1) = p[1], Means(k + 1).name = p[2],
         NEW w, v = <<>> => w = Means(k + 1).value, v # <<>> => Leads(v, w)
  PROVE  Stored(p, k + 1, TRUE, w)
<1>1. 1 .. k + 1 = (1 .. k) \cup {k + 1}
  OBVIOUS
<1>2. PICK N, M : N = NamersTo(p, k) /\ M = NamersTo(p, k + 1)
  OBVIOUS
<1>3. PICK G, F : G = GiversTo(p, k) /\ F = GiversTo(p, k + 1)
  OBVIOUS
<1>4. M = N \cup {k + 1} /\ N \in SUBSET (1 .. k)
  BY <1>1, <1>2 DEF NamersTo
<1>5. /\ G = {i \in N : Means(i).value # <<>>} /\ F = {i \in M : Means(i).value # <<>>}
  BY <1>2, <1>3 DEF GiversTo
<1>6. /\ known <=> N # {}
      /\ G = {} => v = <<>>
      /\ \A i \in G : (\A j \in G : i <= j) => Leads(Means(i).value, v)
  BY <1>2, <1>3 DEF Stored
<1>7. F = IF Means(k + 1).value # <<>> THEN G \cup {k + 1} ELSE G
  BY ONLY <1>4, <1>5
<1>8. G # {} => v # <<>>
  <2>1. ASSUME G # {} PROVE v # <<>>
    <3>1. G \in SUBSET Nat
      <4>1. G \subseteq N /\ N \subseteq 1 .. k
        BY ONLY <1>4, <1>5
      <4>2. \A i \in 1 .. k : i \in Nat
        BY ONLY k \in Nat
      <4> QED
        BY ONLY <4>1, <4>2
    <3>2. \E x \in G : \A y \in G : x <= y
      BY ONLY <2>1, <3>1, Least
    <3> QED
      BY ONLY <1>6, <3>2, Leading
  <2> QED
    BY <2>1
<1>9. F = {} => w = <<>>
  BY <1>6, <1>7
<1>10. ASSUME NEW i \in F, \A j \in F : i <= j
       PROVE  Leads(Means(i).value, w)
  <2>1. CASE G = {}
    <3>1. i = k + 1 /\ Means(k + 1).value # <<>>
      BY ONLY <1>7, <2>1, i \in F
    <3> QED
      BY <1>6, <2>1, <3>1, Leading
  <2>2. CASE G # {}
    <3>1. i \in G
      <4>1. PICK j \in G : TRUE
        BY <2>2
      <4>2. i <= j /\ j \in 1 .. k
        BY ONLY <1>4, <1>5, <1>7, <1>10, j \in G
      <4> QED
        BY ONLY <1>4, <1>7, <4>2, k \in Nat, i \in F
    <3>2. \A j \in G : i <= j
      BY ONLY <1>7, <1>10
    <3> QED
      BY <1>6, <1>8, <2>2, <3>1, <3>2, Leading
  <2> QED
    BY <2>1, <2>2
<1>11. ASSUME NEW i, M = {i} PROVE w = Means(i).value
  <2>1. i = k + 1 /\ N = {} /\ G = {}
    BY ONLY <1>4, <1>5, <1>11, k \in Nat
  <2> QED
    BY <1>6, <2>1
<1>12. M # {}
  BY <1>4
<1>13. PICK m : m = k + 1
  OBVIOUS
<1>14. Stored(p, m, TRUE, w)
  BY ONLY <1>2, <1>3, <1>9, <1>10, <1>11, <1>12, <1>13 DEF Stored
<1> QED
  BY ONLY <1>13, <1>14

\* The first k lines made sense, and their headings and pairs have been obeyed.
Known(p) == KeyOf(p) \in DOMAIN values
ReadSoFar(k) ==
  /\ SenseSoFar(k)
  /\ \A p \in Wanted : /\ Under(k) = p[1] <=> Spells(section, p[1])
                       /\ Stored(p, k, Known(p), Valued(KeyOf(p)))

\* Of what stands above the first line in trouble, this much is left whatever
\* comes below it.
HeadsKept ==
  \A p \in Wanted : \A i \in GiversTo(p, Trouble - 1) :
    (\A j \in GiversTo(p, Trouble - 1) : i <= j) =>
      Leads(Means(i).value, Valued(KeyOf(p)))

LEMMA NamersStay ==
  ASSUME start' = start, option' = option
  PROVE  /\ \A i : Under(i)' = Under(i)
         /\ \A p, k : NamersTo(p, k)' = NamersTo(p, k) /\ GiversTo(p, k)' = GiversTo(p, k)
         /\ \A p, k, known, v : Stored(p, k, known, v)' <=> Stored(p, k, known, v)
<1>1. \A i : Means(i)' = Means(i)
  BY LinesStay
<1>2. \A i : Under(i)' = Under(i)
  BY <1>1 DEF Under
<1>3. \A p, k : NamersTo(p, k)' = NamersTo(p, k)
  BY <1>1, <1>2 DEF NamersTo
<1>4. \A p, k : GiversTo(p, k)' = GiversTo(p, k)
  BY <1>1, <1>3 DEF GiversTo
<1>5. \A p, k, known, v : Stored(p, k, known, v)' <=> Stored(p, k, known, v)
  BY <1>1, <1>3, <1>4 DEF Stored
<1> QED
  BY <1>2, <1>3, <1>4, <1>5

(* What the reader has of one parameter follows the line obeyed. *)
LEMMA ParameterStep ==
  ASSUME ValueText, start \in Starts, option.config \in DOMAIN start.disk,
         NEW k \in Nat, k + 1 \in DOMAIN Lines, Obeyed(k + 1),
         NEW p \in Wanted, Under(k) = p[1] <=> Spells(section, p[1]),
         Stored(p, k, Known(p), Valued(KeyOf(p)))
  PROVE  /\ Under(k + 1) = p[1] <=> Spells(section', p[1])
         /\ Stored(p, k + 1, Known(p)', Valued(KeyOf(p))')
<1>1. PICK i, t : i = k + 1 /\ t = Scanned.text
  OBVIOUS
<1>2. /\ i \in DOMAIN Lines /\ t = Shown(Lines, i) /\ t \in Seq(STRING)
      /\ Under(i) = IF Means(i).kind = "heading" THEN Means(i).section ELSE Under(k)
  BY <1>1, UnderNext DEF Obeyed
<1> DEFINE names == /\ Means(i).kind = "pair" /\ Under(i) = p[1] /\ Means(i).name = p[2]
<1>3. ASSUME values' = values, ~names
      PROVE  Stored(p, k + 1, Known(p)', Valued(KeyOf(p))')
  <2>1. Known(p)' = Known(p) /\ Valued(KeyOf(p))' = Valued(KeyOf(p))
    BY <1>3 DEF Known, Valued
  <2>2. PICK a, v : a = Known(p) /\ v = Valued(KeyOf(p))
    OBVIOUS
  <2>3. Stored(p, k + 1, a, v)
    BY <1>1, <1>3, <2>2, StoredSame
  <2> QED
    BY ONLY <2>1, <2>2, <2>3
<1>4. CASE Means(i).kind \in {"blank", "comment"} /\ BlankOrComment(Scanned)
  <2>1. values' = values /\ section' = section
    BY <1>4 DEF BlankOrComment
  <2>2. Means(i).kind # "heading" /\ Means(i).kind # "pair"
    BY ONLY <1>4
  <2> QED
    BY <1>1, <1>2, <1>3, <2>1, <2>2
<1>5. CASE /\ Means(i).kind = "heading" /\ Heading(Scanned)
           /\ CutAt(Tail(t), FindCharsOrComment(Tail(t), {"]"}), {"]"})
  <2>1. PICK b : b = Before(Tail(t), FindCharsOrComment(Tail(t), {"]"}))
    OBVIOUS
  <2>2. b \in Seq(STRING) /\ (Means(i).section = p[1] <=> Spells(b, p[1]))
    BY <1>2, <1>5, <2>1, HeadingMeant
  <2>3. section' = Strncpy0(b, MaxSection) /\ values' = values
    BY <1>1, <1>5, <2>1 DEF Heading
  <2>4. Spells(section', p[1]) <=> Spells(b, p[1])
    BY ONLY <2>2, <2>3, BufferSpells
  <2>5. ~names
    BY <1>5
  <2> QED
    BY <1>1, <1>2, <1>3, <1>5, <2>2, <2>3, <2>4, <2>5
<1>6. CASE /\ Means(i).kind = "pair" /\ Pair(Scanned)
           /\ CutAt(t, FindCharsOrComment(t, {"=", ":"}), {"=", ":"})
  <2>1. PICK n : n = FindCharsOrComment(t, {"=", ":"})
    OBVIOUS
  <2>2. PICK name, v : name = RStrip(Before(t, n)) /\ v = WithoutComment(LSkip(After(t, n)))
    OBVIOUS
  <2>3. /\ name \in Seq(STRING) /\ v \in Seq(STRING) /\ v = Means(i).value
        /\ Means(i).name = p[2] <=> Spells(name, p[2])
    BY <1>2, <1>6, <2>1, <2>2, PairMeant
  <2>4. PICK key : key = MakeKey(section, name)
    OBVIOUS
  <2>5. section' = section /\ Kept(key, v)
    BY <1>1, <1>6, <2>1, <2>2, <2>4 DEF Pair, Kept
  <2>6. Under(i) = Under(k)
    BY <1>2, <1>6
  <2>7. key = KeyOf(p) <=> names
    <3>1. section \in Seq(STRING)
      BY DEF ValueText
    <3>2. key = KeyOf(p) <=> Spells(section, p[1]) /\ Spells(name, p[2])
      BY ONLY <2>3, <2>4, <3>1, p \in Wanted, KeyMatches
    <3> QED
      BY <1>6, <2>3, <2>6, <3>2
  <2>8. /\ \A K : K \in DOMAIN values' <=> K \in DOMAIN values \/ K = key
        /\ \A K : K # key => Valued(K)' = Valued(K)
        /\ Valued(key) = <<>> => Valued(key)' = v
        /\ Valued(key) # <<>> => Leads(Valued(key), Valued(key)')
    BY ONLY <2>3, <2>5, ValueText, ValueKept
  <2>9. Stored(p, k + 1, Known(p)', Valued(KeyOf(p))')
    <3>1. PICK K : K = KeyOf(p)
      OBVIOUS
    <3>2. /\ Known(p) <=> K \in DOMAIN values
          /\ Known(p)' <=> K \in DOMAIN values'
          /\ Valued(KeyOf(p)) = Valued(K) /\ Valued(KeyOf(p))' = Valued(K)'
      BY <3>1 DEF Known
    <3>3. PICK a, u, w : a = Known(p) /\ u = Valued(K) /\ w = Valued(K)'
      OBVIOUS
    <3>4. Stored(p, k, a, u)
      BY <3>2, <3>3
    <3>5. CASE K # key
      <4>1. ~names /\ w = u /\ (K \in DOMAIN values' <=> K \in DOMAIN values)
        BY ONLY <2>7, <2>8, <3>1, <3>3, <3>5
      <4>2. Stored(p, k + 1, a, u)
        BY <1>1, <3>4, <4>1, StoredSame
      <4> QED
        BY ONLY <3>2, <3>3, <4>1, <4>2 DEF Stored
    <3>6. CASE K = key
      <4>1. /\ names /\ K \in DOMAIN values'
            /\ u = <<>> => w = v
            /\ u # <<>> => Leads(u, w)
        BY ONLY <2>7, <2>8, <3>1, <3>3, <3>6
      <4>2. Stored(p, k + 1, TRUE, w)
        BY <1>1, <2>3, <3>4, <4>1, StoredMore
      <4> QED
        BY ONLY <3>2, <3>3, <4>1, <4>2 DEF Stored
    <3> QED
      BY <3>5, <3>6
  <2> QED
    BY <1>1, <2>5, <2>6, <2>9
<1> QED
  <2>1. \/ Means(i).kind \in {"blank", "comment"} /\ BlankOrComment(Scanned)
        \/ /\ Means(i).kind = "heading" /\ Heading(Scanned)
           /\ CutAt(Tail(t), FindCharsOrComment(Tail(t), {"]"}), {"]"})
        \/ /\ Means(i).kind = "pair" /\ Pair(Scanned)
           /\ CutAt(t, FindCharsOrComment(t, {"=", ":"}), {"=", ":"})
    BY <1>1 DEF Obeyed
  <2> QED
    BY ONLY <1>4, <1>5, <1>6, <2>1

(* A line is obeyed, or is the first in trouble; then the first values given  *)
(* above it are kept.                                                         *)
LEMMA ReadStep ==
  ASSUME TextInv, ValueText, option.config \in DOMAIN start.disk, start' = start,
         option' = option, ini = "parsing", NEW k \in Nat, ReadSoFar(k), ParseStream
  PROVE  \/ \E m \in Nat : ReadSoFar(m)'
         \/ ~Untroubled' /\ HeadsKept'
<1>1. SenseSoFar(k) /\ start \in Starts
  BY DEF ReadSoFar, TextInv
<1>2. \/ EndOfFile /\ SenseSoFar(k)'
      \/ k + 1 \in 1 .. Len(Lines) /\ k + 1 < Trouble /\ Obeyed(k + 1) /\ SenseSoFar(k + 1)'
      \/ Trouble = k + 1 /\ ~Untroubled'
  BY ONLY <1>1, option.config \in DOMAIN start.disk, start' = start, option' = option,
          ini = "parsing", k \in Nat, ParseStream, SenseStep
<1>3. /\ \A i : Under(i)' = Under(i) /\ Means(i)' = Means(i)
      /\ \A p, m : GiversTo(p, m)' = GiversTo(p, m)
      /\ \A p, m, known, v : Stored(p, m, known, v)' <=> Stored(p, m, known, v)
      /\ Trouble' = Trouble
  BY LinesStay, NamersStay
<1>4. ASSUME NEW m \in Nat, SenseSoFar(m)',
             \A p \in Wanted : /\ Under(m) = p[1] <=> Spells(section', p[1])
                               /\ Stored(p, m, Known(p)', Valued(KeyOf(p))')
      PROVE  \E n \in Nat : ReadSoFar(n)'
  <2>1. ASSUME NEW p \in Wanted
        PROVE  /\ Under(m)' = p[1] <=> Spells(section', p[1])
               /\ Stored(p, m, Known(p), Valued(KeyOf(p)))'
    <3>1. (Under(m) = p[1] <=> Spells(section', p[1])) /\ Stored(p, m, Known(p)', Valued(KeyOf(p))')
      BY <1>4
    <3>2. Stored(p, m, Known(p), Valued(KeyOf(p)))'
      BY <3>1, <1>3, NamersStay DEF Stored
    <3> QED
      BY <1>3, <3>1, <3>2
  <2>2. ReadSoFar(m)'
    BY <1>4, <2>1 DEF ReadSoFar
  <2> QED
    BY <2>2
<1>5. CASE EndOfFile /\ SenseSoFar(k)'
  <2>1. values' = values /\ section' = section
    BY <1>5 DEF EndOfFile
  <2>2. ASSUME NEW p \in Wanted
        PROVE  /\ Under(k) = p[1] <=> Spells(section', p[1])
               /\ Stored(p, k, Known(p)', Valued(KeyOf(p))')
    <3>1. Known(p)' = Known(p) /\ Valued(KeyOf(p))' = Valued(KeyOf(p))
      BY <2>1 DEF Known, Valued
    <3>2. (Under(k) = p[1] <=> Spells(section, p[1])) /\ Stored(p, k, Known(p), Valued(KeyOf(p)))
      BY DEF ReadSoFar
    <3> QED
      BY <2>1, <3>1, <3>2
  <2> QED
    BY <1>4, <1>5, <2>2
<1>6. CASE k + 1 \in 1 .. Len(Lines) /\ Obeyed(k + 1) /\ SenseSoFar(k + 1)'
  <2>1. k + 1 \in DOMAIN Lines
    BY <1>1, <1>6, BelowTaken DEF Lines, IsFile
  <2>2. ASSUME NEW p \in Wanted
        PROVE  /\ Under(k + 1) = p[1] <=> Spells(section', p[1])
               /\ Stored(p, k + 1, Known(p)', Valued(KeyOf(p))')
    BY <1>1, <1>6, <2>1, ParameterStep DEF ReadSoFar
  <2> QED
    BY <1>4, <1>6, <2>2
<1>7. CASE Trouble = k + 1 /\ ~Untroubled'
  <2>1. ASSUME NEW p \in Wanted, NEW i \in GiversTo(p, k), \A j \in GiversTo(p, k) : i <= j
        PROVE  Leads(Means(i).value, Valued(KeyOf(p))')
    <3>1. PICK K : K = KeyOf(p)
      OBVIOUS
    <3>2. Leads(Means(i).value, Valued(K))
      BY <2>1, <3>1 DEF ReadSoFar, Stored
    <3>3. Valued(K) # <<>> => Leads(Valued(K), Valued(K)')
      BY ReaderStep
    <3> QED
      BY <3>1, <3>2, <3>3, Leading
  <2>2. Trouble - 1 = k /\ Trouble' - 1 = k
    BY <1>3, <1>7
  <2>3. HeadsKept'
    BY <1>3, <2>1, <2>2 DEF HeadsKept
  <2> QED
    BY <1>7, <2>3
<1> QED
  BY <1>2, <1>5, <1>6, <1>7

-----------------------------------------------------------------------------
(* Config's parameters. *)

\* They are what the reader answers when asked for each.
ParamsRead ==
  /\ \A p \in IntegerParams : params[p[2]] = Narrowed(GetInteger(p[1], p[2], DefaultParams[p[2]]))
  /\ \A p \in StringParams : params[p[2]] = Get(p[1], p[2], DefaultParams[p[2]])

(* Config reads each parameter the property is about, from its own section. *)
LEMMA SectionsRead ==
  LET q == Overlay(SystemParams, Overlay(DRAMParams, FaultModelParams))
  IN /\ \A p \in IntegerParams : q[p[2]] = Narrowed(GetInteger(p[1], p[2], DefaultParams[p[2]]))
     /\ \A p \in StringParams : q[p[2]] = Get(p[1], p[2], DefaultParams[p[2]])
<1>2. PICK S : S = SystemParams
  OBVIOUS
<1>3. PICK D : D = DRAMParams
  OBVIOUS
<1>4. PICK F : F = FaultModelParams
  OBVIOUS
<1>5. /\ DOMAIN S = {"channel_size", "channels", "bus_width", "address_mapping"}
      /\ \A n \in {"channel_size", "channels", "bus_width"} :
           S[n] = Narrowed(GetInteger("system", n, DefaultParams[n]))
      /\ S["address_mapping"] = Get("system", "address_mapping", DefaultParams["address_mapping"])
  <2>1. PICK I, G : /\ I = IntegersOf("system", {"channel_size", "channels", "bus_width"})
                    /\ G = StringsOf("system", {"address_mapping"})
    OBVIOUS
  <2>2. S = Overlay(I, G)
    BY <1>2, <2>1 DEF SystemParams
  <2>3. /\ DOMAIN I = {"channel_size", "channels", "bus_width"}
        /\ \A n \in DOMAIN I : I[n] = Narrowed(GetInteger("system", n, DefaultParams[n]))
        /\ DOMAIN G = {"address_mapping"}
        /\ \A n \in DOMAIN G : G[n] = Get("system", n, DefaultParams[n])
    BY ONLY <2>1 DEF IntegersOf, StringsOf
  <2>4. /\ DOMAIN S = DOMAIN I \cup DOMAIN G
        /\ \A x \in DOMAIN I : S[x] = I[x]
        /\ \A x \in DOMAIN G : x \notin DOMAIN I => S[x] = G[x]
    BY ONLY <2>2 DEF Overlay
  <2> QED
    BY ONLY <2>3, <2>4
<1>6. /\ DOMAIN D = {"bankgroups", "banks_per_group", "rows", "columns", "device_width", "BL",
                     "bankgroup_enable"}
      /\ \A n \in {"rows", "columns", "BL"} :
           D[n] = Narrowed(GetInteger("dram_structure", n, DefaultParams[n]))
  <2>1. PICK I, G : /\ I = IntegersOf("dram_structure", {"bankgroups", "banks_per_group",
                                        "rows", "columns", "device_width", "BL"})
                    /\ G = [bankgroup_enable |->
                              GetBoolean("dram_structure", "bankgroup_enable",
                                         DefaultParams.bankgroup_enable)]
    OBVIOUS
  <2>2. D = Overlay(I, G)
    BY <1>3, <2>1 DEF DRAMParams
  <2>3. /\ DOMAIN I = {"bankgroups", "banks_per_group", "rows", "columns", "device_width", "BL"}
        /\ \A n \in DOMAIN I : I[n] = Narrowed(GetInteger("dram_structure", n, DefaultParams[n]))
        /\ DOMAIN G = {"bankgroup_enable"}
    BY ONLY <2>1 DEF IntegersOf
  <2>4. DOMAIN D = DOMAIN I \cup DOMAIN G /\ \A x \in DOMAIN I : D[x] = I[x]
    BY ONLY <2>2 DEF Overlay
  <2> QED
    BY ONLY <2>3, <2>4
<1>7. /\ {"thread_num", "generator_system", "data_pattern"} \subseteq DOMAIN F
      /\ F["thread_num"] = Narrowed(GetInteger("fault_system", "thread_num", DefaultParams["thread_num"]))
      /\ \A n \in {"generator_system", "data_pattern"} :
           F[n] = Get("fault_system", n, DefaultParams[n])
  <2>1. PICK I, G, R : /\ I = IntegersOf("fault_system", {"thread_num", "size_of_codeword"})
                       /\ G = StringsOf("fault_system",
                                {"generator_system", "memory_system", "fault_model",
                                 "thread", "data_pattern", "fault_trace"})
                       /\ R = RealsOf("fault_system",
                                {"fault_rate", "beta_dist_alpha", "beta_dist_beta"})
    OBVIOUS
  <2>2. PICK GR : GR = Overlay(G, R)
    OBVIOUS
  <2>3. F = Overlay(I, GR)
    BY <1>4, <2>1, <2>2 DEF FaultModelParams
  <2>4. /\ DOMAIN I = {"thread_num", "size_of_codeword"}
        /\ \A n \in DOMAIN I : I[n] = Narrowed(GetInteger("fault_system", n, DefaultParams[n]))
        /\ DOMAIN G = {"generator_system", "memory_system", "fault_model",
                       "thread", "data_pattern", "fault_trace"}
        /\ \A n \in DOMAIN G : G[n] = Get("fault_system", n, DefaultParams[n])
    BY ONLY <2>1 DEF IntegersOf, StringsOf
  <2>5. DOMAIN GR = DOMAIN G \cup DOMAIN R /\ \A x \in DOMAIN G : GR[x] = G[x]
    BY ONLY <2>2 DEF Overlay
  <2>6. /\ DOMAIN F = DOMAIN I \cup DOMAIN GR
        /\ \A x \in DOMAIN I : F[x] = I[x]
        /\ \A x \in DOMAIN GR : x \notin DOMAIN I => F[x] = GR[x]
    BY ONLY <2>3 DEF Overlay
  <2> QED
    BY ONLY <2>4, <2>5, <2>6
<1>8. PICK DF : DF = Overlay(D, F)
  OBVIOUS
<1>9. /\ DOMAIN DF = DOMAIN D \cup DOMAIN F
      /\ \A x \in DOMAIN D : DF[x] = D[x]
      /\ \A x \in DOMAIN F : x \notin DOMAIN D => DF[x] = F[x]
  BY ONLY <1>8 DEF Overlay
<1>10. PICK q : q = Overlay(S, DF)
  OBVIOUS
<1>11. /\ \A x \in DOMAIN S : q[x] = S[x]
       /\ \A x \in DOMAIN DF : x \notin DOMAIN S => q[x] = DF[x]
  BY ONLY <1>10 DEF Overlay
<1>12. /\ \A n \in {"channel_size", "channels", "bus_width"} :
            q[n] = Narrowed(GetInteger("system", n, DefaultParams[n]))
       /\ q["address_mapping"] = Get("system", "address_mapping", DefaultParams["address_mapping"])
  BY ONLY <1>5, <1>11
<1>13. \A n \in {"rows", "columns", "BL"} :
         q[n] = Narrowed(GetInteger("dram_structure", n, DefaultParams[n]))
  BY ONLY <1>5, <1>6, <1>9, <1>11
<1>14. /\ q["thread_num"] = Narrowed(GetInteger("fault_system", "thread_num", DefaultParams["thread_num"]))
       /\ \A n \in {"generator_system", "data_pattern"} :
            q[n] = Get("fault_system", n, DefaultParams[n])
  BY ONLY <1>5, <1>6, <1>7, <1>9, <1>11
<1>15. \A p \in IntegerParams : q[p[2]] = Narrowed(GetInteger(p[1], p[2], DefaultParams[p[2]]))
  BY ONLY <1>12, <1>13, <1>14 DEF IntegerParams
<1>16. \A p \in StringParams : q[p[2]] = Get(p[1], p[2], DefaultParams[p[2]])
  BY ONLY <1>12, <1>14 DEF StringParams
<1> QED
  BY ONLY <1>2, <1>3, <1>4, <1>8, <1>10, <1>15, <1>16

LEMMA ParamsInit ==
  ASSUME InitParams PROVE ParamsRead'
<1>1. /\ params' = Overlay(SystemParams, Overlay(DRAMParams, FaultModelParams))
      /\ values' = values
  BY DEF InitParams, iniVars
<1>2. /\ \A sec, p, d : GetInteger(sec, p, d)' = GetInteger(sec, p, d)
      /\ \A sec, p, d : Get(sec, p, d)' = Get(sec, p, d)
  BY <1>1 DEF GetInteger, Get
<1> QED
  BY <1>1, <1>2, SectionsRead DEF ParamsRead

(* strtol reads the number a value begins with, whatever stands behind it. *)
LEMMA IntegerRead ==
  ASSUME ValueText, NEW p, NEW u, BeginsNumber(u), u # <<>>, Leads(u, Valued(KeyOf(p)))
  PROVE  \A d : GetInteger(p[1], p[2], d) = Saturated(Integer(u))
<1> DEFINE T == Pieces
<1>1. PICK v : v = Valued(KeyOf(p))
  OBVIOUS
<1>2. v \in Seq(T)
  BY <1>1 DEF ValueText, Valued
<1>3. Get(p[1], p[2], <<>>) = v
  BY <1>1 DEF Get, Valued, KeyOf
<1> HIDE DEF T
<1>4. v # <<>> /\ v[1] = u[1] /\ (Len(u) > 1 => Len(v) > 1 /\ v[2] = u[2])
  BY <1>1 DEF Leads
<1>5. PICK n \in Nat \ {0} : n = Len(v)
  BY <1>2, <1>4
<1>6. BeginsNumber(v) /\ Integer(v) = Integer(u) /\ v[1] \notin Blank
  <2>1. "-" \notin Blank /\ "+" \notin Blank
    BY DEF Blank
  <2>2. CASE u[1] \in Signs
    <3>1. Digits(u) = 2 /\ Digits(v) = 2
      BY <1>4, <2>2 DEF Digits
    <3>2. Len(u) > 1 /\ u[2] \in DOMAIN Numeral
      <4>1. 2 <= Len(u) /\ u[2] \in DOMAIN Numeral
        BY <3>1 DEF BeginsNumber
      <4> QED
        BY ONLY <4>1
    <3>3. Len(v) > 1 /\ v[2] = u[2]
      BY <1>4, <3>2
    <3>4. BeginsNumber(v)
      BY <1>5, <3>1, <3>2, <3>3 DEF BeginsNumber
    <3>5. Integer(v) = Integer(u)
      BY <1>4, <3>1, <3>3 DEF Integer
    <3> QED
      BY <1>4, <2>1, <2>2, <3>4, <3>5 DEF Signs
  <2>3. CASE u[1] \notin Signs
    <3>1. Digits(u) = 1 /\ Digits(v) = 1
      BY <1>4, <2>3 DEF Digits
    <3>2. u[1] \in DOMAIN Numeral
      BY <3>1 DEF BeginsNumber
    <3>3. BeginsNumber(v)
      BY <1>4, <1>5, <3>1, <3>2 DEF BeginsNumber
    <3>4. Integer(v) = Integer(u)
      BY <1>4, <3>1 DEF Integer
    <3> QED
      BY <1>4, <3>2, <3>3, <3>4, NumeralAssumption
  <2> QED
    BY <2>2, <2>3
<1>7. LSkip(v) = v
  <2>1. /\ 1 \in Words(v) /\ Words(v) \subseteq Int /\ \A i \in Words(v) : 1 <= i
    BY <1>5, <1>6 DEF Words
  <2>2. FirstIn(v, Words(v)) = 1
    BY ONLY <2>1, FirstOf
  <2>3. LSkip(v) = SubSeq(v, 1, n)
    BY ONLY <1>5, <2>2 DEF LSkip
  <2> QED
    BY ONLY <1>2, <1>5, <2>3, n \in Nat \ {0}
<1> QED
  BY <1>3, <1>6, <1>7 DEF GetInteger

(* Without a value, the default is taken. *)
LEMMA DefaultRead ==
  ASSUME NEW p, Valued(KeyOf(p)) = <<>>
  PROVE  \A d : GetInteger(p[1], p[2], d) = d
<1>1. Get(p[1], p[2], <<>>) = <<>>
  BY DEF Get, Valued, KeyOf
<1>2. Words(<<>>) = {} /\ Len(<<>>) = 0
  BY DEF Words
<1>3. LSkip(<<>>) = <<>>
  <2>1. LSkip(<<>>) = SubSeq(<<>>, 1, 0)
    BY <1>2 DEF LSkip, FirstIn
  <2> QED
    BY <2>1
<1>4. ~BeginsNumber(<<>>)
  BY <1>2 DEF BeginsNumber, Digits
<1> QED
  BY <1>1, <1>3, <1>4 DEF GetInteger

(* The cast to int leaves an int as it is, and of a long its low bits. *)
LEMMA NarrowedHolds ==
  ASSUME NEW n \in Int
  PROVE  /\ HeldAs(n, Narrowed(Saturated(n)))
         /\ n \in -IntMax - 1 .. IntMax => Narrowed(n) = n
<1>1. IntMax \in Nat /\ LongMax \in Nat /\ IntMax <= LongMax
  BY WidthAssumption, LongAssumption, IntAssumption
<1>2. PICK m : m = 2 * (IntMax + 1)
  OBVIOUS
<1>3. m \in Nat \ {0} /\ IntMax + 1 + IntMax + 1 = m
  BY <1>1, <1>2
<1>4. ASSUME NEW k \in Int
      PROVE  /\ Narrowed(k) \in -IntMax - 1 .. IntMax
             /\ k \in -IntMax - 1 .. IntMax => Narrowed(k) = k
             /\ (Narrowed(k) - k) % m = 0
  <2>1. PICK z \in Int : z = k + IntMax + 1
    BY <1>1
  <2>2. PICK q, t : q = z \div m /\ t = z % m
    OBVIOUS
  <2>3. q \in Int /\ t \in 0 .. m - 1 /\ z = m * q + t
    BY <1>3, <2>2
  <2>4. Narrowed(k) = t - IntMax - 1
    BY <1>2, <2>1, <2>2 DEF Narrowed
  <2>5. z \in 0 .. m - 1 => t = z
    BY <1>3, <2>2
  <2>6. PICK h \in Int : h = Narrowed(k) - k
    BY <1>1, <2>3, <2>4
  <2>7. h = -(m * q)
    BY <1>1, <1>3, <2>1, <2>3, <2>4, <2>6
  <2>8. h % m = 0
    <3>1. PICK a, b : a = h \div m /\ b = h % m
      OBVIOUS
    <3>2. a \in Int /\ b \in 0 .. m - 1 /\ h = m * a + b
      BY <1>3, <3>1
    <3>3. PICK c \in Int : c = -(a + q)
      BY <2>3, <3>2
    <3>4. b = m * c
      BY <1>3, <2>3, <2>7, <3>2, <3>3
    <3>5. c = 0
      <4>1. ~ c >= 1
        BY <1>3, <3>2, <3>4
      <4>2. ~ c <= -1
        BY <1>3, <3>2, <3>4
      <4> QED
        BY <4>1, <4>2
    <3> QED
      BY <1>3, <3>1, <3>4, <3>5
  <2> QED
    BY <1>1, <1>3, <2>1, <2>3, <2>4, <2>5, <2>6, <2>8
<1>5. Saturated(n) \in Int
  BY <1>1 DEF Saturated
<1>6. n \in -IntMax - 1 .. IntMax => Saturated(n) = n
  BY <1>1 DEF Saturated
<1>7. PICK s \in Int : s = Saturated(n)
  BY <1>5
<1>8. HeldAs(n, Narrowed(s))
  <2>1. Narrowed(s) \in -IntMax - 1 .. IntMax
    BY <1>4
  <2>2. n \in -IntMax - 1 .. IntMax => Narrowed(s) = n
    BY <1>4, <1>6, <1>7
  <2>3. (Narrowed(s) - Saturated(n)) % (2 * (IntMax + 1)) = 0
    BY <1>2, <1>4, <1>7
  <2> QED
    BY <2>1, <2>2, <2>3 DEF HeldAs
<1> QED
  BY <1>4, <1>7, <1>8

-----------------------------------------------------------------------------
(* From the first line to the parameters. *)

AsWritten ==
  /\ ValueText
  /\ status = "arguments" => values = <<>> /\ section = <<>> /\ params = <<>>
  /\ Opened /\ ini # "closed" => (\E k \in Nat : ReadSoFar(k)) \/ (~Untroubled /\ HeadsKept)
  /\ params # <<>> => ini = "parsed" /\ ParamsRead

(* An opened file has given nothing yet. *)
LEMMA NothingYet ==
  ASSUME start' = start, option' = option, SenseSoFar(0)', values' = <<>>, section' = <<>>
  PROVE  ReadSoFar(0)'
<1>1. /\ Under(0)' = ""
      /\ \A p : NamersTo(p, 0)' = {} /\ GiversTo(p, 0)' = {}
  <2>1. \A p : NamersTo(p, 0) = {} /\ GiversTo(p, 0) = {}
    BY DEF NamersTo, GiversTo
  <2> QED
    BY <2>1, UnderNext, NamersStay
<1>2. ASSUME NEW p \in Wanted
      PROVE  /\ Under(0)' = p[1] <=> Spells(section', p[1])
             /\ Stored(p, 0, Known(p), Valued(KeyOf(p)))'
  <2>1. p[1] # ""
    BY WantedArePlain
  <2>2. ~Spells(<<>>, p[1])
    <3>1. PICK e : e = <<>>
      OBVIOUS
    <3>2. Len(e) = 0 /\ e \in Seq(STRING)
      BY <3>1
    <3>3. ASSUME NEW w PROVE ~Spells(e, w)
      <4>1. Spells(e, w) <=> Len(e) = 1 /\ Low(e[1]) = Low(w)
        BY ONLY <3>2, SpellsOne
      <4> QED
        BY ONLY <3>2, <4>1
    <3> QED
      BY ONLY <3>1, <3>3
  <2>3. ~Known(p)' /\ Valued(KeyOf(p))' = <<>>
    <3>1. \A K : K \notin DOMAIN values'
      OBVIOUS
    <3> QED
      BY <3>1 DEF Known, Valued
  <2>4. Stored(p, 0, Known(p), Valued(KeyOf(p)))'
    BY <1>1, <2>3 DEF Stored
  <2> QED
    BY <1>1, <2>1, <2>2, <2>4
<1> QED
  BY <1>2 DEF ReadSoFar

LEMMA WrittenStays ==
  ASSUME AsWritten, UNCHANGED <<iniVars, start, option>>,
         status' = "arguments" <=> status = "arguments", params' = params \/ ParamsRead',
         params' # params => ini = "parsed" /\ status # "arguments"
  PROVE  AsWritten'
<1>1. /\ option' = option /\ start' = start /\ lineno' = lineno /\ error' = error
      /\ prev_name' = prev_name /\ ini' = ini /\ stream' = stream /\ values' = values
      /\ section' = section
  BY DEF iniVars
<1>2. /\ Lines' = Lines /\ Trouble' = Trouble /\ \A i : Means(i)' = Means(i)
      /\ \A i : Under(i)' = Under(i)
      /\ \A p, k : GiversTo(p, k)' = GiversTo(p, k)
      /\ \A p, k, known, v : Stored(p, k, known, v)' <=> Stored(p, k, known, v)
  BY <1>1, LinesStay, NamersStay
<1>3. \A p : Known(p)' = Known(p) /\ Valued(KeyOf(p))' = Valued(KeyOf(p))
  BY <1>1 DEF Known, Valued
<1>4. \A k : SenseSoFar(k)' <=> SenseSoFar(k)
  BY ONLY <1>1, <1>2 DEF SenseSoFar, Continuable
<1>5. \A k : ReadSoFar(k) => ReadSoFar(k)'
  <2>1. ASSUME NEW k, ReadSoFar(k), NEW p \in Wanted
        PROVE  (Under(k) = p[1] <=> Spells(section, p[1]))' /\ Stored(p, k, Known(p), Valued(KeyOf(p)))'
    <3>1. PICK known, v : known = Known(p) /\ v = Valued(KeyOf(p))
      OBVIOUS
    <3>2. (Under(k) = p[1] <=> Spells(section, p[1])) /\ Stored(p, k, known, v)
      BY <2>1, <3>1 DEF ReadSoFar
    <3>3. Stored(p, k, known, v)'
      BY <1>2, <3>2
    <3>4. Stored(p, k, Known(p), Valued(KeyOf(p)))'
      BY <1>3, <3>1, <3>3 DEF Stored
    <3> QED
      BY <1>1, <1>2, <3>2, <3>4
  <2> QED
    BY <1>4, <2>1 DEF ReadSoFar
<1>6. HeadsKept => HeadsKept'
  BY <1>2, <1>3 DEF HeadsKept
<1>7. (Untroubled' <=> Untroubled) /\ (Opened' <=> Opened) /\ (ValueText => ValueText')
  BY <1>1, <1>2 DEF Untroubled, Opened, ValueText
<1>8. params' = params => (ParamsRead => ParamsRead')
  BY <1>1 DEF ParamsRead, GetInteger, Get
<1> QED
  BY <1>1, <1>5, <1>6, <1>7, <1>8 DEF AsWritten

LEMMA WrittenKept == TextInv /\ FileAsMeant /\ AsWritten /\ [Next]_vars => AsWritten'
<1> SUFFICES ASSUME TextInv, FileAsMeant, AsWritten, [Next]_vars PROVE AsWritten'
  OBVIOUS
<1>1. CASE ParseArguments
  <2>1. /\ status = "arguments" /\ status' = status /\ ini = "closed" /\ ini' = ini
        /\ values' = values /\ section' = section /\ prev_name' = prev_name /\ params' = params
    BY <1>1 DEF ParseArguments, iniVars, FileAsMeant
  <2> QED
    BY <2>1 DEF AsWritten, ValueText, Opened
<1>2. CASE Leave
  <2>1. /\ status = "arguments" /\ ini = "closed" /\ ini' = ini /\ values' = values
        /\ section' = section /\ prev_name' = prev_name /\ params' = params /\ params = <<>>
        /\ status' # "arguments"
    BY <1>2 DEF Leave, iniVars, FileAsMeant, AsWritten
  <2> QED
    BY <2>1 DEF AsWritten, ValueText
<1>3. CASE OpenConfig
  <2>1. /\ status = "arguments" /\ status' = "reading" /\ option' = option /\ start' = start
        /\ values = <<>> /\ section = <<>> /\ params = <<>> /\ params' = params
        /\ values' = values /\ section' = section /\ prev_name' = prev_name
    BY <1>3 DEF OpenConfig, OpenFile, OpenMissing, cliVars, AsWritten
  <2>2. option.config \in DOMAIN start.disk => ReadSoFar(0)'
    BY <1>3, <2>1, FileOpened, NothingYet
  <2>3. Opened' => option.config \in DOMAIN start.disk
    BY <2>1 DEF Opened
  <2>4. 0 \in Nat
    OBVIOUS
  <2> QED
    BY <2>1, <2>2, <2>3, <2>4 DEF AsWritten, ValueText
<1>4. CASE ReadConfig
  <2>1. /\ status = "reading" /\ ParseStream /\ ini = "parsing" /\ start \in Starts
        /\ status' = status /\ option' = option /\ start' = start /\ params' = params
    BY <1>4 DEF ReadConfig, ParseStream, ParseLine, ReadPiece, EndOfFile, cliVars, TextInv
  <2>2. params' = <<>>
    BY <2>1 DEF AsWritten
  <2>3. /\ ValueText /\ ValueText'
        /\ \A K : Valued(K) # <<>> => Leads(Valued(K), Valued(K)')
    BY <2>1, ReaderStep DEF AsWritten
  <2>4. Opened' <=> Opened
    BY <2>1 DEF Opened
  <2>5. CASE Opened
    <3>1. option.config \in DOMAIN start.disk
      BY <2>5 DEF Opened
    <3>2. CASE \E k \in Nat : ReadSoFar(k)
      <4>1. PICK k \in Nat : ReadSoFar(k)
        BY <3>2
      <4>2. (\E m \in Nat : ReadSoFar(m)') \/ (~Untroubled' /\ HeadsKept')
        BY ONLY TextInv, <2>1, <2>3, <3>1, <4>1, k \in Nat, ReadStep
      <4> QED
        BY <2>1, <2>2, <2>3, <4>2 DEF AsWritten
    <3>3. CASE ~Untroubled /\ HeadsKept
      <4>1. /\ Lines' = Lines /\ Trouble' = Trouble /\ \A i : Means(i)' = Means(i)
            /\ \A p, k : GiversTo(p, k)' = GiversTo(p, k)
        BY <2>1, LinesStay, NamersStay
      <4>2. ~Untroubled'
        BY <3>3, <4>1 DEF Untroubled
      <4>3. \A u, K : Leads(u, Valued(K)) => Leads(u, Valued(K)')
        BY ONLY <2>3, Leading
      <4>4. \A p : KeyOf(p)' = KeyOf(p)
        BY DEF KeyOf
      <4>5. HeadsKept'
        BY <3>3, <4>1, <4>3, <4>4 DEF HeadsKept
      <4> QED
        BY <2>1, <2>2, <2>3, <4>2, <4>5 DEF AsWritten
    <3> QED
      BY <2>1, <2>5, <3>2, <3>3 DEF AsWritten
  <2> QED
    BY <2>1, <2>2, <2>3, <2>4, <2>5 DEF AsWritten
<1>5. CASE InitParams
  <2>1. /\ status = "reading" /\ status' # "arguments" /\ ini = "parsed"
        /\ UNCHANGED <<iniVars, start, option>>
    BY <1>5 DEF InitParams, cliVars
  <2>2. ParamsRead'
    BY <1>5, ParamsInit
  <2> QED
    BY <2>1, <2>2, WrittenStays
<1>6. CASE CannotLoad \/ Configure \/ GeneratorFails \/ MakeGenerator \/ UNCHANGED vars
  <2>1. /\ UNCHANGED <<iniVars, start, option>> /\ params' = params
        /\ status' = "arguments" <=> status = "arguments"
    BY <1>6 DEF CannotLoad, Configure, Layout!Configure, GeneratorFails, MakeGenerator, vars,
                cliVars
  <2> QED
    BY <2>1, WrittenStays
<1> QED
  BY <1>1, <1>2, <1>3, <1>4, <1>5, <1>6 DEF Next, Finished

LEMMA WrittenInit == Init => AsWritten
<1> SUFFICES ASSUME Init PROVE AsWritten
  OBVIOUS
<1>1. /\ status = "arguments" /\ ini = "closed" /\ values = <<>> /\ params = <<>>
      /\ section = <<>> /\ prev_name = <<>>
  BY DEF Init, IniInit
<1>2. <<>> \in Seq(STRING) /\ DOMAIN values = {}
  BY <1>1
<1>3. ValueText
  BY <1>1, <1>2 DEF ValueText
<1>4. ~Opened
  BY <1>1 DEF Opened
<1> QED
  BY <1>1, <1>3, <1>4 DEF AsWritten

(* The lines that name a parameter, all of them and those up to line k. *)
LEMMA AllNamers ==
  ASSUME start \in Starts, option.config \in DOMAIN start.disk, NEW p
  PROVE  /\ Namers(p[1], p[2]) = NamersTo(p, Len(Lines))
         /\ Givers(p[1], p[2]) = GiversTo(p, Len(Lines))
         /\ \A k \in 0 .. Len(Lines) :
              GiversTo(p, k) = {i \in Givers(p[1], p[2]) : i <= k}
         /\ Givers(p[1], p[2]) # {} =>
              LET first == FirstIn(Lines, Givers(p[1], p[2]))
              IN /\ first \in 1 .. Len(Lines) /\ first \in Givers(p[1], p[2])
                 /\ \A i \in Givers(p[1], p[2]) : first <= i
<1>1. PICK n \in Nat : n = Len(Lines) /\ DOMAIN Lines = 1 .. n
  BY BelowTaken DEF Lines, IsFile
<1>2. PICK N, G : N = Namers(p[1], p[2]) /\ G = Givers(p[1], p[2])
  OBVIOUS
<1>3. N = NamersTo(p, n)
  BY <1>1, <1>2 DEF Namers, NamersTo
<1>4. G = {i \in N : Means(i).value # <<>>} /\ G = GiversTo(p, n)
  BY <1>2, <1>3 DEF Givers, GiversTo
<1>5. ASSUME NEW k \in 0 .. n PROVE GiversTo(p, k) = {i \in G : i <= k}
  <2>1. \A i : i \in 1 .. k <=> i \in 1 .. n /\ i <= k
    OBVIOUS
  <2>2. NamersTo(p, k) = {i \in N : i <= k}
    BY ONLY <1>3, <2>1 DEF NamersTo
  <2> QED
    BY ONLY <1>4, <2>2 DEF GiversTo
<1>6. N \subseteq 1 .. n /\ G \subseteq 1 .. n
  BY ONLY <1>3, <1>4 DEF NamersTo
<1>7. ASSUME G # {}
      PROVE  FirstIn(Lines, G) \in G /\ \A i \in G : FirstIn(Lines, G) <= i
  <2>1. G \in SUBSET Nat
    <3>1. \A i \in 1 .. n : i \in Nat
      OBVIOUS
    <3> QED
      BY ONLY <1>6, <3>1
  <2>2. PICK x \in G : \A i \in G : x <= i
    BY ONLY <1>7, <2>1, Least
  <2>3. G \subseteq Int
    BY <2>1
  <2>4. FirstIn(Lines, G) = x
    BY ONLY <2>2, <2>3, x \in G, FirstOf
  <2> QED
    BY <2>2, <2>4
<1> QED
  BY ONLY <1>1, <1>2, <1>3, <1>4, <1>5, <1>6, <1>7

(* The default of every integer looked at is small: no width of an int alters it.  *)
SmallInts == 0 .. 65536
LEMMA SmallDefaults == \A p \in IntegerParams : DefaultParams[p[2]] \in SmallInts
<1>1. DefaultParams["channel_size"] \in SmallInts
  <2>1. DefaultParams["channel_size"] = 1024
    BY DEF DefaultParams
  <2> QED
    BY <2>1 DEF SmallInts
<1>2. DefaultParams["channels"] \in SmallInts
  <2>1. DefaultParams["channels"] = 1
    BY DEF DefaultParams
  <2> QED
    BY <2>1 DEF SmallInts
<1>3. DefaultParams["bus_width"] \in SmallInts
  <2>1. DefaultParams["bus_width"] = 64
    BY DEF DefaultParams
  <2> QED
    BY <2>1 DEF SmallInts
<1>4. DefaultParams["rows"] \in SmallInts
  <2>1. DefaultParams["rows"] = 65536
    BY DEF DefaultParams
  <2> QED
    BY <2>1 DEF SmallInts
<1>5. DefaultParams["columns"] \in SmallInts
  <2>1. DefaultParams["columns"] = 1024
    BY DEF DefaultParams
  <2> QED
    BY <2>1 DEF SmallInts
<1>6. DefaultParams["BL"] \in SmallInts
  <2>1. DefaultParams["BL"] = 8
    BY DEF DefaultParams
  <2> QED
    BY <2>1 DEF SmallInts
<1>7. DefaultParams["thread_num"] \in SmallInts
  <2>1. DefaultParams["thread_num"] = 1
    BY DEF DefaultParams
  <2> QED
    BY <2>1 DEF SmallInts
<1>8. ASSUME NEW m \in {"channel_size", "channels", "bus_width", "rows", "columns", "BL",
                    "thread_num"}
      PROVE  DefaultParams[m] \in SmallInts
  BY Zenon, <1>1, <1>2, <1>3, <1>4, <1>5, <1>6, <1>7
<1>9. ASSUME NEW p \in IntegerParams
      PROVE  p[2] \in {"channel_size", "channels", "bus_width", "rows", "columns", "BL",
                       "thread_num"}
  BY <1>9 DEF IntegerParams
<1> QED
  BY Zenon, <1>8, <1>9

(* Config's parameters are those written in the file: an integer is the one   *)
(* the first line to give it gives, wherever a syntax error follows; without  *)
(* one, what no line gives has its default and a string named once is what    *)
(* its line says (INIReader, Config::InitSystemParams and its like).          *)
THEOREM ParametersRead == Spec => []ParametersAsWritten
<1>1. TextInv /\ FileAsMeant /\ AsWritten => ParametersAsWritten
  <2> SUFFICES ASSUME TextInv, FileAsMeant, AsWritten, params # <<>>, Opened
               PROVE  ParametersAsWritten
    BY DEF ParametersAsWritten
  <2>1. /\ start \in Starts /\ option.config \in DOMAIN start.disk
        /\ ini = "parsed" /\ ParamsRead /\ ValueText
        /\ (\E k \in Nat : ReadSoFar(k)) \/ (~Untroubled /\ HeadsKept)
    BY DEF TextInv, Opened, AsWritten
  <2>2. PICK n \in Nat : n = Len(Lines)
    BY <2>1, TroubleFound
  <2>3. Trouble \in 1 .. n + 1 /\ (Untroubled <=> Trouble = n + 1)
    BY <2>1, <2>2, TroubleFound DEF Untroubled
  <2>4. ASSUME NEW k \in Nat, ReadSoFar(k)
        PROVE  k = n /\ Untroubled /\ \A p \in Wanted : Stored(p, n, Known(p), Valued(KeyOf(p)))
    BY <2>1, <2>2, <2>3, <2>4 DEF ReadSoFar, SenseSoFar
  <2>5. ASSUME NEW p \in IntegerParams, Givers(p[1], p[2]) # {},
               FirstIn(Lines, Givers(p[1], p[2])) < Trouble,
               BeginsNumber(Means(FirstIn(Lines, Givers(p[1], p[2]))).value)
        PROVE  HeldAs(Integer(Means(FirstIn(Lines, Givers(p[1], p[2]))).value), params[p[2]])
    <3>1. PICK G, f : G = Givers(p[1], p[2]) /\ f = FirstIn(Lines, G)
      OBVIOUS
    <3>2. /\ f \in 1 .. n /\ f \in G /\ \A i \in G : f <= i
          /\ G = GiversTo(p, n)
          /\ \A k \in 0 .. n : GiversTo(p, k) = {i \in G : i <= k}
      BY <2>1, <2>2, <2>5, <3>1, AllNamers
    <3>3. p \in Wanted
      BY DEF Wanted
    <3>4. Leads(Means(f).value, Valued(KeyOf(p)))
      <4>1. CASE \E k \in Nat : ReadSoFar(k)
        <5>1. Stored(p, n, Known(p), Valued(KeyOf(p)))
          BY <2>4, <3>3, <4>1
        <5> QED
          BY <3>2, <5>1 DEF Stored
      <4>2. CASE ~Untroubled /\ HeadsKept
        <5>1. Trouble - 1 \in 0 .. n /\ f <= Trouble - 1
          BY <2>3, <2>5, <3>1, <3>2
        <5>2. GiversTo(p, Trouble - 1) = {i \in G : i <= Trouble - 1}
          BY <3>2, <5>1
        <5>3. f \in GiversTo(p, Trouble - 1) /\ \A i \in GiversTo(p, Trouble - 1) : f <= i
          BY <3>2, <5>1, <5>2
        <5> QED
          BY <3>3, <4>2, <5>3 DEF HeadsKept
      <4> QED
        BY <2>1, <4>1, <4>2
    <3>5. params[p[2]] = Narrowed(GetInteger(p[1], p[2], DefaultParams[p[2]]))
      BY <2>1 DEF ParamsRead
    <3>6. PICK u : u = Means(f).value
      OBVIOUS
    <3>7. u # <<>> /\ BeginsNumber(u) /\ Leads(u, Valued(KeyOf(p)))
      BY <2>5, <3>1, <3>2, <3>4, <3>6 DEF Givers
    <3>8. params[p[2]] = Narrowed(Saturated(Integer(u)))
      BY <2>1, <3>5, <3>7, IntegerRead
    <3>9. Integer(u) \in Int
      BY <3>7, NumeralAssumption DEF BeginsNumber, Integer
    <3>10. HeldAs(Integer(u), params[p[2]])
      BY ONLY <3>8, <3>9, NarrowedHolds
    <3> QED
      BY <3>1, <3>6, <3>10
  <2>6. ASSUME NEW p \in IntegerParams, Givers(p[1], p[2]) = {}, Untroubled
        PROVE  params[p[2]] = DefaultParams[p[2]]
    <3>1. Valued(KeyOf(p)) = <<>>
      <4>1. p \in Wanted
        BY DEF Wanted
      <4>2. Stored(p, n, Known(p), Valued(KeyOf(p)))
        BY <2>1, <2>4, <2>6, <4>1
      <4>3. GiversTo(p, n) = {}
        BY <2>1, <2>2, <2>6, AllNamers
      <4> QED
        BY <4>2, <4>3 DEF Stored
    <3>2. params[p[2]] = Narrowed(GetInteger(p[1], p[2], DefaultParams[p[2]]))
      BY <2>1 DEF ParamsRead
    <3>3. params[p[2]] = Narrowed(DefaultParams[p[2]])
      BY <3>1, <3>2, DefaultRead
    <3>4. DefaultParams[p[2]] \in SmallInts
      BY Zenon, SmallDefaults
    <3>5. PICK k : k \in SmallInts /\ k = DefaultParams[p[2]]
      BY Zenon, <3>4
    <3>6. k \in Int /\ k \in -IntMax - 1 .. IntMax
      <4>1. k \in SmallInts
        BY Zenon, <3>5
      <4>2. IntMax \in Nat /\ IntMax >= 65536
        BY ONLY WidthAssumption, IntAssumption
      <4>3. k \in Int /\ 0 <= k /\ k <= 65536
        BY ONLY <4>1 DEF SmallInts
      <4> QED
        BY ONLY <4>2, <4>3
    <3>7. Narrowed(k) = k
      BY ONLY <3>6, NarrowedHolds
    <3> QED
      BY Zenon, <3>3, <3>5, <3>7
  <2>7. ASSUME NEW p \in StringParams, Untroubled
        PROVE  /\ \A i \in Namers(p[1], p[2]) :
                    Namers(p[1], p[2]) = {i} => params[p[2]] = Means(i).value
               /\ Namers(p[1], p[2]) = {} => params[p[2]] = DefaultParams[p[2]]
    <3>1. Stored(p, n, Known(p), Valued(KeyOf(p))) /\ Namers(p[1], p[2]) = NamersTo(p, n)
      <4>1. p \in Wanted
        BY DEF Wanted
      <4> QED
        BY <2>1, <2>2, <2>4, <2>7, <4>1, AllNamers
    <3>2. params[p[2]] = IF Known(p) THEN Valued(KeyOf(p)) ELSE DefaultParams[p[2]]
      BY <2>1 DEF ParamsRead, Get, Known, Valued, KeyOf
    <3> QED
      BY <3>1, <3>2 DEF Stored
  <2> QED
    BY <2>5, <2>6, <2>7 DEF ParametersAsWritten
<1>2. Init => FileAsMeant
  BY DEF Init, IniInit, FileAsMeant, Opened
<1> QED
  BY <1>1, <1>2, FileKept, WrittenInit, WrittenKept, TextKept, PTL DEF Spec
=============================================================================
