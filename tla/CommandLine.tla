---------------------------- MODULE CommandLine ----------------------------
(***************************************************************************)
(* ArgumentParser::ParseCLI of args.hxx with the flags main declares.      *)
(*                                                                         *)
(* An argument is a sequence of pieces, cut where the parser cuts it:      *)
(*   <<"--", "config", "=", "a.ini">>    --config=a.ini                    *)
(*   <<"-", "n", "5">>                   -n5                               *)
(* and the value of a flag is such a sequence too, because any argument,   *)
(* another flag included, may be taken as one.                             *)
(***************************************************************************)
EXTENDS Text

CONSTANTS
  UIntMax,   \* largest uint64_t
  IntMax     \* largest int

ASSUME WidthAssumption == UIntMax \in Nat /\ IntMax \in Nat /\ UIntMax >= 10 /\ IntMax >= 1

VARIABLES
  argv,        \* the arguments not looked at yet
  terminated,  \* "--" has been seen
  option,      \* the value each flag has now
  cli          \* "parsing", "parsed", "help" or "error"

cliVars == <<argv, terminated, option, cli>>

-----------------------------------------------------------------------------
(* The flags (main). *)

ShortName ==
  [num_request |-> "n", output_dir |-> "o", output_prefix |-> "p", trace |-> "t",
   repeat |-> "d", start |-> "s", fmread |-> "r", fmwrite |-> "w", config |-> "c"]
LongName ==
  [num_request |-> "num-request", output_dir |-> "output-dir",
   output_prefix |-> "output-prefix", trace |-> "trace", repeat |-> "repeat_round",
   start |-> "start_round", fmread |-> "fmread", fmwrite |-> "fmwrite",
   config |-> "config"]
Flags == DOMAIN ShortName

DefaultOption ==
  [num_request |-> 10, output_dir |-> <<".">>, output_prefix |-> <<"current">>,
   trace |-> <<>>, repeat |-> 1, start |-> 0, fmread |-> <<>>, fmwrite |-> <<>>,
   config |-> <<>>]

\* Flags that take a number; the others take a string.
Numeric == {"num_request", "repeat", "start"}

-----------------------------------------------------------------------------
(* ValueReader: stream extraction into the flag's type. *)

\* uint64_t accepts a sign and wraps; a number too large for its type becomes
\* the largest one, and the stream's failure is not looked at.
ReadNumber(f, n) ==
  IF f = "num_request"
    THEN IF n > UIntMax \/ n < -UIntMax THEN UIntMax ELSE n % (UIntMax + 1)
    ELSE IF n > IntMax THEN IntMax ELSE IF n < -IntMax - 1 THEN -IntMax - 1 ELSE n

\* An extraction that finds a sign and no digit has taken the sign, left nothing
\* over, and sets 0; its failure is not looked at either.
LoneSign(w) == Len(w) = 1 /\ w[1] \in Signs
IsNumber(w) == (BeginsNumber(w) /\ Len(w) = Digits(w)) \/ LoneSign(w)
Number(w)   == IF LoneSign(w) THEN 0 ELSE Integer(w)

\* Characters that are left over are an error; an empty value is not.
Readable(f, v) == f \in Numeric => LSkip(v) = <<>> \/ IsNumber(LSkip(v))

\* An empty value leaves a number as it was.
ValueRead(f, v) ==
  IF f \notin Numeric THEN v
  ELSE IF LSkip(v) = <<>> THEN option[f]
  ELSE ReadNumber(f, Number(LSkip(v)))

-----------------------------------------------------------------------------
(* The forms of an argument. *)

IsTerminator(a) == ~terminated /\ a = <<"--">>
IsLong(a)       == ~terminated /\ Len(a) > 1 /\ a[1] = "--"
IsShort(a)      == ~terminated /\ Len(a) > 1 /\ a[1] = "-"

Separator(a) ==
  IF \E i \in 2 .. Len(a) : a[i] = "="
    THEN CHOOSE i \in 2 .. Len(a) : a[i] = "=" /\ \A j \in 2 .. i - 1 : a[j] # "="
    ELSE Len(a) + 1

\* The name an argument asks for, and whether it brings its value along: an
\* empty rest counts as a value after "=", but not behind a short flag.
Named(a, short, long) ==
  \/ IsLong(a) /\ SubSeq(a, 2, Separator(a) - 1) = <<long>>
  \/ IsShort(a) /\ a[2] = short
Matched(a)  == {f \in Flags : Named(a, ShortName[f], LongName[f])}
AsksHelp(a) == Named(a, "h", "help")

(* Mutant: an empty rest counts as a value in both spellings. *)
JoinedAlways(a) == IsShort(a) \/ Separator(a) <= Len(a)

Joined(a) == IF IsLong(a) THEN Separator(a) <= Len(a) ELSE Len(a) > 2
JoinedValue(a) ==
  IF IsLong(a) THEN SubSeq(a, Separator(a) + 1, Len(a)) ELSE SubSeq(a, 3, Len(a))

-----------------------------------------------------------------------------
(* ParseArgs: one action per branch, one step per argument. *)

CliInit(line) ==
  /\ argv = line
  /\ terminated = FALSE
  /\ option = DefaultOption
  /\ cli = "parsing"

More == cli = "parsing" /\ argv # <<>>

\* ValueFlag::ParseValue.  (What a refused value leaves behind is never read.)
ParseValue(f, v) ==
  /\ IF Readable(f, v)
       THEN option' = [option EXCEPT ![f] = ValueRead(f, v)] /\ UNCHANGED cli
       ELSE cli' = "error" /\ UNCHANGED option
  /\ UNCHANGED terminated

Terminate ==
  /\ More /\ IsTerminator(Head(argv))
  /\ terminated' = TRUE
  /\ argv' = Tail(argv)
  /\ UNCHANGED <<option, cli>>

(* Mutant: the parser stays at an argument that brings its value along. *)
FlagWithValueStays(f) ==
  /\ More /\ f \in Matched(Head(argv)) /\ Joined(Head(argv))
  /\ ParseValue(f, JoinedValue(Head(argv)))
  /\ UNCHANGED argv

FlagWithValue(f) ==
  /\ More /\ f \in Matched(Head(argv)) /\ Joined(Head(argv))
  /\ ParseValue(f, JoinedValue(Head(argv)))
  /\ argv' = Tail(argv)

\* Whatever comes next is the value, a flag or "--" too.
FlagThenValue(f) ==
  /\ More /\ f \in Matched(Head(argv)) /\ ~Joined(Head(argv))
  /\ Len(argv) > 1
  /\ ParseValue(f, argv[2])
  /\ argv' = SubSeq(argv, 3, Len(argv))

\* HelpFlag::Match throws before anything else is done with the argument.
AskForHelp ==
  /\ More /\ AsksHelp(Head(argv))
  /\ cli' = "help"
  /\ UNCHANGED <<argv, terminated, option>>

\* A flag without its value, one nobody declared, or a positional argument,
\* for which main declares no place.
Refuse ==
  /\ More
  /\ LET a == Head(argv)
     IN ~IsTerminator(a) /\ ~AsksHelp(a)
          /\ (Matched(a) # {} => ~Joined(a) /\ Len(argv) = 1)
  /\ cli' = "error"
  /\ UNCHANGED <<argv, terminated, option>>

EndOfArguments ==
  /\ cli = "parsing" /\ argv = <<>>
  /\ cli' = "parsed"
  /\ UNCHANGED <<argv, terminated, option>>

ParseCLI ==
  \/ Terminate \/ AskForHelp \/ Refuse \/ EndOfArguments
  \/ \E f \in Flags : FlagWithValue(f) \/ FlagThenValue(f)
=============================================================================
