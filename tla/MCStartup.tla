------------------------------ MODULE MCStartup ------------------------------
(* Every command line of up to three arguments with one small file, and one *)
(* command line with every file of two headings' choice and up to three     *)
(* lines below, out of the vocabulary.  Lines have room for ten characters. *)
EXTENDS Startup

MCNumeral ==
  "0" :> 0 @@ "1" :> 1 @@ "2" :> 2 @@ "4" :> 4 @@ "9" :> 9 @@ "512" :> 512
    @@ "16384" :> 16384 @@ "32768" :> 32768
    @@ "131071" :> 131071      \* IntMax
    @@ "786441" :> 786441      \* three times the numbers of int, and 9
    @@ "9999999" :> 9999999    \* more than any type holds
MCLowerCase == "SYSTEM" :> "system" @@ "ROWS" :> "rows"
MCHexWords  == {"f0f0", "4"}
MCFractions == {".5", ".001"}

-----------------------------------------------------------------------------
Arg(chunks, kind)        == [chunks |-> chunks, means |-> [kind |-> kind]]
Set(chunks, flag, value) == [chunks |-> chunks,
                             means |-> [kind |-> "set", flag |-> flag, value |-> value]]

ConfigFlag == Set(<< <<"-", "c">>, <<"a.ini">> >>, "config", <<"a.ini">>)

Arguments ==
  { ConfigFlag,
    Set(<< <<"--", "config", "=", "a.ini">> >>, "config", <<"a.ini">>),
    Set(<< <<"-", "c", "b.ini">> >>, "config", <<"b.ini">>),
    Set(<< <<"-", "n", "4">> >>, "num_request", 4),
    Set(<< <<"--", "num-request">>, <<"2">> >>, "num_request", 2),
    Set(<< <<"-", "n">>, <<"-", "1">> >>, "num_request", -1),
    Set(<< <<"-", "n">>, <<"9999999">> >>, "num_request", 9999999),
    Set(<< <<"--", "num-request", "=">> >>, "num_request", 9999999),
    Set(<< <<"-", "d", "4">> >>, "repeat", 4),
    Set(<< <<"-", "s">>, <<"131071">> >>, "start", 131071),
    Set(<< <<"-", "s">>, <<"-">> >>, "start", 0),
    Set(<< <<"--", "num-request", "=", "+">> >>, "num_request", 0),
    Set(<< <<"-", "r", "a.map">> >>, "fmread", <<"a.map">>),
    Set(<< <<"-", "s">>, <<"-", "2">> >>, "start", -2),
    Set(<< <<"-", "t", "=", "trace">> >>, "trace", <<"=", "trace">>),
    Set(<< <<"--", "output-dir">>, <<"--">> >>, "output_dir", <<"--">>),
    Arg(<< <<"-", "o">> >>, "bare"),
    Arg(<< <<"--", "fmwrite">> >>, "bare"),
    Arg(<< <<"-", "h", "n">> >>, "help"),
    Arg(<< <<"--", "help", "=", "x">> >>, "help"),
    Arg(<< <<"-", "n", "2", "x">> >>, "wrong"),
    Arg(<< <<"-", "n", "-", "x">> >>, "wrong"),
    Arg(<< <<"-", "x">> >>, "wrong"),
    Arg(<< <<"--", "configs">> >>, "wrong"),
    Arg(<< <<"a.ini">> >>, "wrong"),
    Arg(<< <<"--">> >>, "bare"),
    Arg(<< <<"-">> >>, "wrong") }

-----------------------------------------------------------------------------
Line(text, kind)        == [text |-> text, means |-> [kind |-> kind]]
Section(text, sec)      == [text |-> text, means |-> [kind |-> "heading", section |-> sec]]
Gives(text, name, value) ==
  [text |-> text, means |-> [kind |-> "pair", name |-> name, value |-> value]]

Headings ==
  { Section(<<"[", "dram_structure", "]">>, "dram_structure"),
    Section(<<"[", "SYSTEM", "]", " ", ";", "x">>, "system") }

OtherLines ==
  { Section(<<"[", "fault_system", "]">>, "fault_system"),
    Section(<<"[", "x", "x", "x", "]">>, "x x x"),
    Section(<<" ", "[", "system", "]">>, "system"),
    Line(<<"[", "system">>, "nonsense"),
    Line(<<"[", "system", " ", ";", "]">>, "nonsense"),
    Gives(<<"rows", " ", "=", " ", "32768">>, "rows", <<"32768">>),
    Gives(<<"ROWS", ":", "16384", " ", ";", "x">>, "rows", <<"16384">>),
    Gives(<<"rows", "=">>, "rows", <<>>),
    Gives(<<"columns", "=", "x">>, "columns", <<"x">>),
    Gives(<<"columns", "=", "512", "x">>, "columns", <<"512", "x">>),
    Gives(<<"x", "x", "x", "=", "4">>, "x x x", <<"4">>),
    Gives(<<"BL", "=", "0">>, "BL", <<"0">>),
    Gives(<<" ", "BL", "=", "4">>, "BL", <<"4">>),
    Gives(<<"BL", "=", "-", "4">>, "BL", <<"-", "4">>),
    Gives(<<"columns", "=", "786441">>, "columns", <<"786441">>),
    Gives(<<"address_mapping", "=", "ro", "ch", "ra", "ba", "bg", "co">>,
          "address_mapping", <<"ro", "ch", "ra", "ba", "bg", "co">>),
    Gives(<<"address_mapping", "=">>, "address_mapping", <<>>),
    Gives(<<"address_mapping", "=", "ro", ";", "ch">>, "address_mapping", <<"ro", ";", "ch">>),
    Gives(<<"channel_size", "=", "-", "9999999">>, "channel_size", <<"-", "9999999">>),
    Gives(<<"data_pattern", "=", "f0f0">>, "data_pattern", <<"f0f0">>),
    Gives(<<"data_pattern", "=", "x">>, "data_pattern", <<"x">>),
    Gives(<<"generator_system", "=", "SequentialGenerator">>, "generator_system",
          <<"SequentialGenerator">>),
    Gives(<<"fault_rate", "=", "0", ".5">>, "fault_rate", <<"0", ".5">>),
    Line(<<"rows", "4">>, "nonsense"),
    Line(<<"#", "x", "x", "x", "x", "x", "x", "x", "x", "x", "BL", "=", "2">>, "comment"),
    Line(<<"#", "BL", "=", "2">>, "comment"),
    Line(<<>>, "blank") }

BySize(S, n) == UNION {[1 .. k -> S] : k \in 0 .. n}

SmallFile == <<CHOOSE h \in Headings : h.means.section = "dram_structure",
               Gives(<<"BL", "=", "4">>, "BL", <<"4">>)>>
Files == {<<h>> \o f : h \in Headings, f \in BySize(OtherLines, 3)}
           \cup {<< Line(<<"BOM", "#">>, "comment") >> \o f : f \in BySize(Headings, 2)}

MCStarts ==
  [args : BySize(Arguments, 3), disk : {<<"a.ini">> :> SmallFile}]
    \cup [args : {<<ConfigFlag>>}, disk : {<<"a.ini">> :> f : f \in Files}]
=============================================================================
