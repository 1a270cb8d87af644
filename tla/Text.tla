-------------------------------- MODULE Text --------------------------------
(***************************************************************************)
(* Text as the two parsers of the program see it: a sequence of pieces -   *)
(* white space, the characters the parsers look for, and words they copy.  *)
(***************************************************************************)
EXTENDS Integers, Sequences

CONSTANT Numeral   \* the number a word of decimal digits denotes

Blank == {" ", "\n"}
Signs == {"-", "+"}

ASSUME NumeralAssumption ==
  \A w \in DOMAIN Numeral : Numeral[w] \in Nat /\ w \notin Blank \cup Signs

\* The first of the places S of s, or the place behind its end.
FirstIn(s, S) ==
  IF S = {} THEN Len(s) + 1 ELSE CHOOSE i \in S : \A j \in S : i <= j

Words(s) == {i \in 1 .. Len(s) : s[i] \notin Blank}

\* s without its leading, or trailing, white space.
LSkip(s) == SubSeq(s, FirstIn(s, Words(s)), Len(s))
RStrip(s) ==
  LET w == Words(s)
  IN IF w = {} THEN <<>> ELSE SubSeq(s, 1, CHOOSE i \in w : \A j \in w : j <= i)

\* The place where a number would stand, behind a sign or without one; whether
\* one does, and the integer it is.
Digits(s)       == IF s # <<>> /\ s[1] \in Signs THEN 2 ELSE 1
BeginsNumber(s) == Digits(s) <= Len(s) /\ s[Digits(s)] \in DOMAIN Numeral
Integer(s) == LET n == Numeral[s[Digits(s)]] IN IF s[1] = "-" THEN -n ELSE n

\* s up to place n, not included.
Before(s, n) == SubSeq(s, 1, n - 1)
After(s, n)  == SubSeq(s, n + 1, Len(s))
=============================================================================
