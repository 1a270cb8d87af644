------------------------------ MODULE Startup ------------------------------
(***************************************************************************)
(* From main's first line to its first round: the command line, the        *)
(* configuration file, Config's parameters, the address layout made of     *)
(* them (AddressMapping), and the choice of the generator.                 *)
(*                                                                         *)
(* A start is what the user typed and what is on the disk.  Each argument  *)
(* and each line comes with what its writer meant by it; only the          *)
(* properties look at that.                                                *)
(***************************************************************************)
EXTENDS CommandLine, IniFile, SequencesExt

CONSTANTS
  Starts,     \* [args : arguments [chunks, means], disk : path -> lines [text, means]]
  Kilo,       \* 1024
  HexWords    \* words stoull reads in base 16, if a uint64_t holds the number

VARIABLES
  start,      \* the start of this behaviour
  params,     \* Config's parameters, <<>> before they are read
  status,     \* where main is, or how the process ended
  campaign    \* what the rounds will run with, <<>> before

vars == <<cliVars, iniVars, start, params, status, campaign>>

Layout == INSTANCE AddressMapping WITH
  Configs <- {}, config <- params,
  position <- 0, sent <- <<>>, gen_addr <- {}, recv_addr <- <<>>

\* What main gets as argv, and the reader as its file.
ChunksOf(args) == [i \in 1 .. Len(args) |-> args[i].chunks]
TextsOf(lines) == [i \in 1 .. Len(lines) |-> Append(lines[i].text, "\n")]
ArgvOf(args) == FlattenSeq(ChunksOf(args))
Contents(lines) == FlattenSeq(TextsOf(lines))

ASSUME TextAssumption ==
  \A s \in Starts :
    /\ DOMAIN s.args = 1 .. Len(s.args) /\ Len(s.args) \in Nat
    /\ ChunksOf(s.args) \in Seq(Seq(Seq(STRING)))
    /\ \A path \in DOMAIN s.disk :
         LET lines == s.disk[path]
         IN /\ DOMAIN lines = 1 .. Len(lines) /\ Len(lines) \in Nat
            /\ TextsOf(lines) \in Seq(Seq(STRING))
            /\ \A i \in DOMAIN lines : /\ lines[i].text \in Seq(STRING)
                                       /\ \A j \in DOMAIN lines[i].text : lines[i].text[j] # "\n"

\* int holds the defaults, and long what int holds.
ASSUME IntAssumption == IntMax >= 65536 /\ LongMax >= IntMax

Ended == {"exit 0", "exit 1", "aborted", "crashed", "running"}

Init ==
  /\ start \in Starts
  /\ CliInit(ArgvOf(start.args))
  /\ IniInit
  /\ params = <<>> /\ campaign = <<>>
  /\ status = "arguments"

-----------------------------------------------------------------------------
(* main, as far as Config. *)

ParseArguments ==
  /\ status = "arguments"
  /\ ParseCLI
  /\ UNCHANGED <<iniVars, start, params, status, campaign>>

\* Help is the one way to leave with 0; a command line without -c is refused
\* after it has been parsed.
Leave ==
  /\ status = "arguments"
  /\ \/ cli = "help" /\ status' = "exit 0"
     \/ cli = "error" /\ status' = "exit 1"
     \/ cli = "parsed" /\ option.config = <<>> /\ status' = "exit 1"
  /\ UNCHANGED <<cliVars, iniVars, start, params, campaign>>

OpenConfig ==
  /\ status = "arguments" /\ cli = "parsed" /\ option.config # <<>>
  /\ IF option.config \in DOMAIN start.disk
       THEN OpenFile(Contents(start.disk[option.config]))
       ELSE OpenMissing
  /\ status' = "reading"
  /\ UNCHANGED <<cliVars, start, params, campaign>>

-----------------------------------------------------------------------------
(* Config::Config. *)

ReadConfig ==
  /\ status = "reading"
  /\ ParseStream
  /\ UNCHANGED <<cliVars, start, params, status, campaign>>

\* The rows' default is 1 << 16, the columns' 1 << 10.
DefaultParams ==
  [channel_size |-> 1024, channels |-> 1, bus_width |-> 64,
   address_mapping |-> <<"ch", "ro", "ba", "bg", "ra", "co">>,
   bankgroups |-> 2, banks_per_group |-> 2, bankgroup_enable |-> TRUE,
   rows |-> 65536, columns |-> 1024, device_width |-> 8, BL |-> 8,
   fault_rate |-> <<"0", ".001">>, generator_system |-> <<"RandomGenerator">>,
   memory_system |-> <<"NaiveMemorySystem">>, fault_model |-> <<"NaiveFaultModel">>,
   thread |-> <<"SingleThread">>, thread_num |-> 1,
   beta_dist_alpha |-> <<"0", ".5">>, beta_dist_beta |-> <<"0", ".5">>,
   data_pattern |-> <<"Random">>, fault_trace |-> <<"Off">>, size_of_codeword |-> 64]

(* Mutant: the integer is not brought to the width of int. *)
NotNarrowed(n) == n

\* static_cast<int> of a long: its low bits.
Narrowed(n) == ((n + IntMax + 1) % (2 * (IntMax + 1))) - IntMax - 1

IntegersOf(sec, names) == [p \in names |-> Narrowed(GetInteger(sec, p, DefaultParams[p]))]
StringsOf(sec, names)  == [p \in names |-> Get(sec, p, DefaultParams[p])]
RealsOf(sec, names)    == [p \in names |-> GetDouble(sec, p, DefaultParams[p])]

\* The parameters of two groups; TLC's @@, which has no definition to reason from.
Overlay(f, g) ==
  [p \in DOMAIN f \cup DOMAIN g |-> IF p \in DOMAIN f THEN f[p] ELSE g[p]]

SystemParams ==
  Overlay(IntegersOf("system", {"channel_size", "channels", "bus_width"}),
          StringsOf("system", {"address_mapping"}))

DRAMParams ==
  Overlay(IntegersOf("dram_structure",
            {"bankgroups", "banks_per_group", "rows", "columns", "device_width", "BL"}),
          [bankgroup_enable |-> GetBoolean("dram_structure", "bankgroup_enable",
                                           DefaultParams.bankgroup_enable)])

FaultModelParams ==
  Overlay(IntegersOf("fault_system", {"thread_num", "size_of_codeword"}),
    Overlay(StringsOf("fault_system", {"generator_system", "memory_system", "fault_model",
                                       "thread", "data_pattern", "fault_trace"}),
            RealsOf("fault_system", {"fault_rate", "beta_dist_alpha", "beta_dist_beta"})))

\* stoull throws when a data pattern does not begin with a hexadecimal number
\* (invalid_argument), or with one of more than 64 bits (out_of_range).
PatternThrows(p) ==
  LET s == LSkip(p)
  IN p # <<"Random">> /\ (Len(s) < Digits(s) \/ s[Digits(s)] \notin HexWords)

CannotLoad ==
  /\ status = "reading" /\ ini = "parsed" /\ error < 0
  /\ status' = "aborted"
  /\ UNCHANGED <<cliVars, iniVars, start, params, campaign>>

\* A syntax error (error > 0) is not looked at.
InitParams ==
  /\ status = "reading" /\ ini = "parsed" /\ error >= 0
  /\ params' = Overlay(SystemParams, Overlay(DRAMParams, FaultModelParams))
  /\ status' = IF PatternThrows(params'.data_pattern) THEN "aborted" ELSE "parsed"
  /\ UNCHANGED <<cliVars, iniVars, start, campaign>>

Configure ==
  /\ Layout!Configure
  /\ UNCHANGED <<cliVars, iniVars, start, campaign>>

-----------------------------------------------------------------------------
(* main, as far as the first round. *)

\* With -t no generator is made; a name nobody knows means the random one.
Generator ==
  IF option.trace # <<>> THEN "none"
  ELSE IF params.generator_system = <<"SequentialGenerator">> THEN "SequentialGenerator"
  ELSE "RandomGenerator"

\* repeat_round += start_round, on int: beyond the type's ends the sum wraps,
\* or the compiler keeps it.
RoundLimits ==
  LET sum == option.start + option.repeat
      range == -IntMax - 1 .. IntMax
  IN {sum} \cup {wrapped \in {sum - 2 * (IntMax + 1), sum + 2 * (IntMax + 1)} :
                   sum \notin range /\ wrapped \in range}

\* The sizes the constructors allocate with, outermost first.  new[] throws at
\* one below zero, unless one before it is zero and the loop does not get there;
\* the buffers of one burst are allocated in any case.
ArraySizes ==
  LET s == Layout!Size(params) IN <<s.ch, s.ra, s.bg, s.ba, s.ro, s.co>>
CannotAllocate ==
  \/ params.BL < 0
  \/ \E i \in DOMAIN ArraySizes :
       ArraySizes[i] < 0 /\ \A j \in 1 .. i - 1 : ArraySizes[j] > 0

\* Behind the generator's constructor: the machine may have no room for the
\* arrays, and the file of -r may not open or be of another memory
\* (FaultMapFile).
GeneratorFails ==
  /\ status = "ready" /\ Generator # "none"
  /\ status' = "aborted"
  /\ UNCHANGED <<cliVars, iniVars, start, params, campaign>>

MakeGenerator ==
  /\ status = "ready"
  /\ Generator # "none" => ~CannotAllocate
  /\ \E limit \in RoundLimits :
       campaign' = [generator |-> Generator, first |-> option.start, limit |-> limit,
                    num_request |-> option.num_request]
  /\ status' = "running"
  /\ UNCHANGED <<cliVars, iniVars, start, params>>

\* Nothing of the start-up is left to do.
Finished == status \in Ended /\ UNCHANGED vars

Next ==
  \/ ParseArguments \/ Leave \/ OpenConfig
  \/ ReadConfig \/ CannotLoad \/ InitParams \/ Configure
  \/ GeneratorFails \/ MakeGenerator
  \/ Finished

Spec == Init /\ [][Next]_vars

-----------------------------------------------------------------------------
(* What the user meant. *)

Args == start.args
Kind(i) == Args[i].means.kind

\* Every argument is either a whole setting, or help, or wrong in itself: no
\* flag stands without a value and takes the next argument for it.
Plain == \A i \in DOMAIN Args : Kind(i) \in {"set", "help", "wrong"}

\* The first argument that is no setting.
Stop == FirstIn(Args, {i \in DOMAIN Args : Kind(i) # "set"})

\* What the writer of an argument may write: a flag and its value, joined or
\* apart, in either spelling;
JoinedForms(f, v) ==
  {<<"--", LongName[f], "=">> \o v} \cup {a \in {<<"-", ShortName[f]>> \o v} : v # <<>>}
SplitForms(f)     == {<<"--", LongName[f]>>, <<"-", ShortName[f]>>}
Spellings(f, v)   == {<<a>> : a \in JoinedForms(f, v)} \cup {<<a, v>> : a \in SplitForms(f)}

\* (what its flag's type can hold)
Fits(f, v) ==
  /\ f = "num_request" => v \in 0 .. UIntMax
  /\ f \in {"repeat", "start"} => v \in -IntMax - 1 .. IntMax

\* a value that means the number or is the text;
Denotes(f, v, value) ==
  IF f \notin Numeric THEN v = value
  ELSE Readable(f, v) /\ (Fits(f, value) => LSkip(v) # <<>> /\ Number(LSkip(v)) = value)

\* a request for help, to which something may be added;
HelpForm(a) ==
  /\ Len(a) > 1
  /\ \/ a[1] = "-" /\ a[2] = "h"
     \/ a[1] = "--" /\ a[2] = "help" /\ (Len(a) > 2 => a[3] = "=")

\* a name that main declares for nothing, or none.
Unknown(a) ==
  /\ a # <<"--">>
  /\ Len(a) > 1 =>
       /\ a[1] = "-" => a[2] \notin {ShortName[f] : f \in Flags} \cup {"h"}
       /\ a[1] = "--" => \/ a[2] \notin {LongName[f] : f \in Flags} \cup {"help"}
                         \/ Len(a) > 2 /\ a[3] # "="

\* The ghost meaning of an argument is one its text can be given.
ASSUME MeaningAssumption ==
  \A s \in Starts : \A i \in DOMAIN s.args :
    LET chunks == s.args[i].chunks  means == s.args[i].means
    IN CASE means.kind = "set" ->
              /\ means.flag \in Flags
              /\ \E v \in Suffixes(Last(chunks)) :
                    chunks \in Spellings(means.flag, v) /\ Denotes(means.flag, v, means.value)
         [] means.kind = "help" -> Len(chunks) = 1 /\ HelpForm(chunks[1])
         [] means.kind = "wrong" ->
              /\ Len(chunks) = 1
              /\ \/ Unknown(chunks[1])
                 \/ \E f \in Flags : \E v \in Suffixes(chunks[1]) :
                      chunks[1] \in JoinedForms(f, v) /\ ~Readable(f, v)
         [] OTHER -> TRUE

\* The last of some places.
Latest(at) == CHOOSE i \in at : \A j \in at : j <= i

\* The last value meant for a flag.
Meant(f) ==
  LET at == {i \in DOMAIN Args : Kind(i) = "set" /\ Args[i].means.flag = f}
  IN IF at = {} THEN DefaultOption[f] ELSE Args[Latest(at)].means.value

\* The configuration file, as lines.
Opened == status # "arguments" /\ option.config \in DOMAIN start.disk
Lines  == start.disk[option.config]
Means(i) == Lines[i].means

\* A line as an editor shows it, but for the white space around it.
Shown(lines, i) ==
  LET text == lines[i].text
  IN LSkip(RStrip(IF i = 1 /\ text # <<>> /\ Head(text) = "BOM" THEN Tail(text) ELSE text))

\* The first of chars in a text stands at place n, before any comment.
Marked(s, n, chars) ==
  /\ n \in 1 .. Len(s) /\ s[n] \in chars
  /\ \A i \in 1 .. n : ~InlineComment(s, i) /\ (s[i] \in chars => i = n)

\* The parameters looked at, with the sections Config looks for them in.
IntegerParams ==
  {<<"system", "channel_size">>, <<"system", "channels">>, <<"system", "bus_width">>,
   <<"dram_structure", "rows">>, <<"dram_structure", "columns">>,
   <<"dram_structure", "BL">>, <<"fault_system", "thread_num">>}
StringParams ==
  {<<"system", "address_mapping">>, <<"fault_system", "generator_system">>,
   <<"fault_system", "data_pattern">>}

\* Names are the same whatever their case.
Spells(words, name) == Lower(words) = Lower(<<name>>)

\* What the format makes of a line by itself is what its writer meant.
ASSUME LineAssumption ==
  \A s \in Starts : \A path \in DOMAIN s.disk : \A i \in DOMAIN s.disk[path] :
    LET t == Shown(s.disk[path], i)
        means == s.disk[path][i].means
        comment == t # <<>> /\ t[1] \in CommentPrefixes
        heading == t # <<>> /\ t[1] = "["
    IN \/ means.kind = "blank" /\ t = <<>>
       \/ means.kind = "comment" /\ comment
       \/ /\ means.kind = "heading" /\ heading
          /\ \E n \in 1 .. Len(Tail(t)) :
               /\ Marked(Tail(t), n, {"]"})
               /\ \A p \in IntegerParams \cup StringParams :
                    means.section = p[1] <=> Spells(Before(Tail(t), n), p[1])
       \/ /\ means.kind = "pair" /\ ~comment /\ ~heading
          /\ \E n \in 1 .. Len(t) :
               /\ Marked(t, n, {"=", ":"})
               /\ \A p \in IntegerParams \cup StringParams :
                    means.name = p[2] <=> Spells(RStrip(Before(t, n)), p[2])
               /\ means.value = WithoutComment(LSkip(After(t, n)))
       \/ /\ means.kind = "nonsense" /\ t # <<>> /\ ~comment
          /\ IF heading THEN \A n \in 1 .. Len(Tail(t)) : ~Marked(Tail(t), n, {"]"})
                        ELSE \A n \in 1 .. Len(t) : ~Marked(t, n, {"=", ":"})

\* The heading a line stands under.
Under(i) ==
  LET at == {j \in 1 .. i : Means(j).kind = "heading"}
  IN IF at = {} THEN "" ELSE Means(Latest(at)).section

\* Lines the parser need not see as their writer does: one that makes no sense,
\* one longer than the buffer, and an indented one below a pair, which is read
\* as more of the pair's value.
Nonsense(i) == Means(i).kind = "nonsense"
Overlong(i) == Len(Lines[i].text) > MaxLine - 2
Swallowed(i) ==
  /\ Means(i).kind \notin {"blank", "comment"} /\ Head(Lines[i].text) = " "
  /\ \E j \in 1 .. i - 1 : /\ Means(j).kind = "pair"
                          /\ \A m \in j .. i - 1 : Means(m).kind # "heading"

\* The first of them.
Trouble ==
  FirstIn(Lines, {i \in DOMAIN Lines : Nonsense(i) \/ Overlong(i) \/ Swallowed(i)})
Untroubled == Trouble > Len(Lines)

\* x is what int holds of n: n itself, or its low bits - those of the nearest
\* long, where not even long holds it.
HeldAs(n, x) ==
  /\ x \in -IntMax - 1 .. IntMax
  /\ n \in -IntMax - 1 .. IntMax => x = n
  /\ (x - Saturated(n)) % (2 * (IntMax + 1)) = 0

\* The lines that name a parameter, and those that give it a value.
Namers(sec, name) ==
  {i \in DOMAIN Lines : Means(i).kind = "pair" /\ Under(i) = sec /\ Means(i).name = name}
Givers(sec, name) == {i \in Namers(sec, name) : Means(i).value # <<>>}

\* The stages the start-up goes through, counted down.
Stage == [arguments |-> 4, reading |-> 3, parsed |-> 2, ready |-> 1]
StageOf(s) == IF s \in DOMAIN Stage THEN Stage[s] ELSE 0

-----------------------------------------------------------------------------
(* Types of the variables. *)
StartTypeOK ==
  /\ DOMAIN option = Flags
  /\ option.num_request \in 0 .. UIntMax
  /\ option.repeat \in -IntMax - 1 .. IntMax /\ option.start \in -IntMax - 1 .. IntMax
  /\ cli \in {"parsing", "parsed", "help", "error"}
  /\ terminated \in BOOLEAN
  /\ ini \in {"closed", "parsing", "parsed"}
  /\ error \in -1 .. lineno
  /\ Len(section) < MaxSection /\ Len(prev_name) < MaxName
  /\ status \in Ended \cup {"arguments", "reading", "parsed", "ready"}

(* However a setting is spelled - long or short, its value joined or apart -  *)
(* and whatever comes before it, each flag ends with the last value the user  *)
(* gave it that fits its type; help and errors are obeyed in the order in     *)
(* which they stand (ParseArgs, ValueReader, and main's two catch clauses).   *)
OptionsAsMeant ==
  Plain /\ cli # "parsing" =>
    /\ cli = IF Stop > Len(Args) THEN "parsed"
             ELSE IF Kind(Stop) = "help" THEN "help" ELSE "error"
    /\ cli = "parsed" =>
         \A f \in Flags : Fits(f, Meant(f)) => option[f] = Meant(f)

(* ParseError() is the number of the first line that makes no sense, and 0    *)
(* if every line does - unless an indented or an overlong line before it has  *)
(* been taken for something else (ini_parse_stream).                          *)
ErrorNamesFirstBadLine ==
  Opened /\ ini = "parsed" =>
    /\ Untroubled => error = 0
    /\ ~Untroubled =>
         (Nonsense(Trouble) /\ ~Overlong(Trouble) /\ ~Swallowed(Trouble) => error = Trouble)

(* From the text of the file to Config's parameters, through headings, case,  *)
(* comments, repeated keys and the buffers' ends: an integer is the one that  *)
(* the first line to give it gives, or what strtol and the cast to int leave  *)
(* of it, as long as that line comes before any trouble; without trouble, a   *)
(* parameter that no line gives has its default, and a string that one line   *)
(* names is that line's.  A syntax error, which Config ignores, can only      *)
(* change what stands below it.                                               *)
ParametersAsWritten ==
  params # <<>> /\ Opened =>
    /\ \A p \in IntegerParams :
         LET g == Givers(p[1], p[2])
             first == FirstIn(Lines, g)
             v == Means(first).value
         IN /\ g # {} /\ first < Trouble /\ BeginsNumber(v) =>
                 HeldAs(Integer(v), params[p[2]])
            /\ g = {} /\ Untroubled => params[p[2]] = DefaultParams[p[2]]
    /\ Untroubled =>
         \A p \in StringParams :
           LET n == Namers(p[1], p[2])
           IN /\ \A i \in n : n = {i} => params[p[2]] = Means(i).value
              /\ n = {} => params[p[2]] = DefaultParams[p[2]]

(* The start-up ends: every step of a parser leaves fewer arguments, or less  *)
(* of the file, or is its last, and no step leads back (ParseArgs with its    *)
(* two ways to advance the iterator, ini_parse_stream with lines cut by the   *)
(* buffer).  With deadlock checked, no other state is left without a step.    *)
InputConsumed ==
  [][ \/ StageOf(status') < StageOf(status)
      \/ /\ status = "arguments" /\ status' = status /\ cli = "parsing"
         /\ Len(argv') < Len(argv) \/ cli' # "parsing"
      \/ /\ status = "reading" /\ status' = status /\ ini = "parsing"
         /\ Len(stream') < Len(stream) \/ ini' = "parsed" ]_vars
=============================================================================
