------------------------------ MODULE IniFile ------------------------------
(***************************************************************************)
(* INIReader.h: a configuration file, read through a buffer of limited     *)
(* size into a map from section and name to a value.  ini_parse_stream     *)
(* goes on after an error and returns the line of the first.               *)
(***************************************************************************)
EXTENDS Text

CONSTANTS
  MaxLine,     \* INI_MAX_LINE, 200 characters in the code
  MaxSection,  \* MAX_SECTION and MAX_NAME, 50
  MaxName,
  LowerCase,   \* words with capitals, and what tolower makes of them
  Fractions,   \* what may follow a numeral in a real number
  LongMax      \* largest long

ASSUME BufferAssumption ==
  /\ MaxLine \in Nat \ {0, 1} /\ MaxSection \in Nat \ {0, 1, 2} /\ MaxName \in Nat \ {0}
ASSUME LongAssumption == LongMax \in Nat
ASSUME LowerAssumption ==
  "=" \notin DOMAIN LowerCase /\ \A w \in DOMAIN LowerCase : LowerCase[w] # "="

VARIABLES
  stream,     \* what fgets has not delivered yet
  lineno,     \* pieces it has delivered
  section,    \* the heading in force
  prev_name,  \* the name an indented line continues, or <<>>
  error,      \* the first piece that made no sense; 0: none, -1: no file
  values,     \* _values of INIReader
  ini         \* "closed", "parsing" or "parsed"

iniVars == <<stream, lineno, section, prev_name, error, values, ini>>

-----------------------------------------------------------------------------
(* fgets. *)

PieceEnd ==
  FirstIn(stream, {i \in 1 .. Len(stream) :
                     stream[i] = "\n" \/ i = MaxLine - 1 \/ i = Len(stream)})

\* What ini_parse_stream does with a piece before it looks at it: a byte order mark
\* and the white space around the text are taken off.
Scanned ==
  LET piece    == SubSeq(stream, 1, PieceEnd)
      unmarked == IF lineno = 0 /\ Head(piece) = "BOM" THEN Tail(piece) ELSE piece
      text     == RStrip(unmarked)
  IN [text |-> LSkip(text), indented |-> text # <<>> /\ Head(text) \in Blank]

-----------------------------------------------------------------------------
(* Scanning. *)

\* INI_INLINE_COMMENT_PREFIXES behind white space, and what a line that is a
\* comment begins with.
InlineComment(s, i) == s[i] = ";" /\ i > 1 /\ s[i - 1] \in Blank
CommentPrefixes     == {";", "#"}

FindCharsOrComment(s, chars) ==
  FirstIn(s, {i \in 1 .. Len(s) : s[i] \in chars \/ InlineComment(s, i)})

(* Mutant: the buffer is not minded. *)
StrcpyWhole(s, n) == s

\* s as far as a buffer of n characters holds it.
Strncpy0(s, n) == SubSeq(s, 1, IF Len(s) < n THEN Len(s) ELSE n - 1)

WithoutComment(s) == RStrip(Before(s, FindCharsOrComment(s, {})))

\* The kinds of a line l; at most one holds of each.
IsComment(l) == l.text # <<>> /\ Head(l.text) \in CommentPrefixes
Continues(l) == l.text # <<>> /\ ~IsComment(l) /\ prev_name # <<>> /\ l.indented
OpensBracket(l) == l.text # <<>> /\ ~Continues(l) /\ Head(l.text) = "["
IsText(l) == l.text # <<>> /\ ~IsComment(l) /\ ~Continues(l) /\ Head(l.text) # "["

\* s is cut at one of chars, before a comment and before its end.
CutAt(s, n, chars) == n <= Len(s) /\ s[n] \in chars

-----------------------------------------------------------------------------
(* INIReader. *)

Lower(s) == [i \in 1 .. Len(s) |->
               IF s[i] \in DOMAIN LowerCase THEN LowerCase[s[i]] ELSE s[i]]
MakeKey(sec, name) == Lower(sec \o <<"=">> \o name)

Valued(key) == IF key \in DOMAIN values THEN values[key] ELSE <<>>

\* ValueHandler: a further value is appended behind a newline.
HandledValue(key, v) ==
  LET old == Valued(key)
  IN [k \in DOMAIN values \cup {key} |->
        IF k # key THEN values[k]
        ELSE IF old = <<>> THEN v ELSE old \o <<"\n">> \o v]

Get(sec, name, default) ==
  LET key == MakeKey(<<sec>>, <<name>>)
  IN IF key \in DOMAIN values THEN values[key] ELSE default

\* What long holds of an integer: beyond its ends, the end.
Saturated(n) ==
  IF n > LongMax THEN LongMax ELSE IF n < -LongMax - 1 THEN -LongMax - 1 ELSE n

\* strtol reads the number a value begins with and leaves the rest.
GetInteger(sec, name, default) ==
  LET v == LSkip(Get(sec, name, <<>>))
  IN IF BeginsNumber(v) THEN Saturated(Integer(v)) ELSE default

\* strtod, as the sign, the numeral and the fraction it reads.
GetDouble(sec, name, default) ==
  LET v == LSkip(Get(sec, name, <<>>))
      n == Digits(v)
  IN IF ~BeginsNumber(v) THEN default
     ELSE IF Len(v) > n /\ v[n + 1] \in Fractions THEN SubSeq(v, 1, n + 1)
     ELSE SubSeq(v, 1, n)

GetBoolean(sec, name, default) ==
  LET v == Lower(Get(sec, name, <<>>))
  IN IF v \in {<<"true">>, <<"yes">>, <<"on">>, <<"1">>} THEN TRUE
     ELSE IF v \in {<<"false">>, <<"no">>, <<"off">>, <<"0">>} THEN FALSE
     ELSE default

(* Mutant: the last error is returned. *)
LastError == lineno + 1

FirstError == IF error = 0 THEN lineno + 1 ELSE error

-----------------------------------------------------------------------------
(* ini_parse_stream: one action per branch, one step per piece. *)

IniInit ==
  /\ stream = <<>> /\ lineno = 0
  /\ section = <<>> /\ prev_name = <<>>
  /\ error = 0
  /\ values = <<>>
  /\ ini = "closed"

\* ini_parse: fopen fails, or the file is there.
OpenMissing ==
  /\ ini = "closed"
  /\ error' = -1
  /\ ini' = "parsed"
  /\ UNCHANGED <<stream, lineno, section, prev_name, values>>
OpenFile(contents) ==
  /\ ini = "closed"
  /\ stream' = contents
  /\ ini' = "parsing"
  /\ UNCHANGED <<lineno, section, prev_name, error, values>>

ReadPiece ==
  /\ ini = "parsing" /\ stream # <<>>
  /\ lineno' = lineno + 1
  /\ stream' = After(stream, PieceEnd)
  /\ UNCHANGED ini

BlankOrComment(l) ==
  /\ l.text = <<>> \/ IsComment(l)
  /\ UNCHANGED <<section, prev_name, error, values>>

Continuation(l) ==
  /\ Continues(l)
  /\ values' = HandledValue(MakeKey(section, prev_name), WithoutComment(l.text))
  /\ UNCHANGED <<section, prev_name, error>>

(* Mutant: a heading does not end what an indented line continues. *)
HeadingKeepsName(l) ==
  /\ OpensBracket(l)
  /\ LET inner == Tail(l.text)
         n     == FindCharsOrComment(inner, {"]"})
     IN IF CutAt(inner, n, {"]"})
          THEN section' = Strncpy0(Before(inner, n), MaxSection) /\ UNCHANGED error
          ELSE error' = FirstError /\ UNCHANGED section
  /\ UNCHANGED <<prev_name, values>>

\* A heading without "]" leaves the section before in force.
Heading(l) ==
  /\ OpensBracket(l)
  /\ LET inner == Tail(l.text)
         n     == FindCharsOrComment(inner, {"]"})
     IN IF CutAt(inner, n, {"]"})
          THEN /\ section' = Strncpy0(Before(inner, n), MaxSection)
               /\ prev_name' = <<>>
               /\ UNCHANGED error
          ELSE /\ error' = FirstError
               /\ UNCHANGED <<section, prev_name>>
  /\ UNCHANGED values

Pair(l) ==
  /\ IsText(l)
  /\ LET n     == FindCharsOrComment(l.text, {"=", ":"})
         name  == RStrip(Before(l.text, n))
         value == WithoutComment(LSkip(After(l.text, n)))
     IN IF CutAt(l.text, n, {"=", ":"})
          THEN /\ prev_name' = Strncpy0(name, MaxName)
               /\ values' = HandledValue(MakeKey(section, name), value)
               /\ UNCHANGED error
          ELSE /\ error' = FirstError
               /\ UNCHANGED <<prev_name, values>>
  /\ UNCHANGED section

EndOfFile ==
  /\ ini = "parsing" /\ stream = <<>>
  /\ ini' = "parsed"
  /\ UNCHANGED <<stream, lineno, section, prev_name, error, values>>

ParseLine ==
  /\ ReadPiece
  /\ \E l \in {Scanned} : BlankOrComment(l) \/ Continuation(l) \/ Heading(l) \/ Pair(l)

ParseStream == ParseLine \/ EndOfFile
=============================================================================
