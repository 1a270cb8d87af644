# A verification project for DRAMFaultSim

DRAMFaultSim damages a simulated DRAM array with hard and variable-retention
(VRT) faults, sends memory requests to it, and reports what they lost. This
directory holds TLA+ models of it, the TLC configurations that check them on
small instances, and proofs that TLAPS checks for every value of the constants.

Source lines below are those of `src/` of the repository.

## The system

| Component | State | Operations | Talks to |
|---|---|---|---|
| Command-line parser (`ext/headers/args.hxx`) | the arguments left, the value of each flag | `ParseCLI` | called by `main` |
| `.ini` parser (`ext/headers/INIReader.h`) | the line buffer, section and name in force, the map of values | `ini_parse_stream`, the getters | called by `Config` |
| `Config` (`configuration.cc`) | sizes, address layout, options | the constructor, `CalculateSize`, `SetAddressMapping`, `AddressMapping`, `ReverseAddressMapping` | read by all |
| `Generator`s (`generator.cc`) | data buffer, loop position | `AccessMemory` | calls the memory system, counts in `Stat` |
| `NaiveMemorySystem` (`memory_system.cc`) | the array `data_block_`, `fault_mask`, `fault_data` | `RecvRequest` (`Read`, `Write`, `FaultData`, `CheckFaultMask`) | calls the fault model, `FaultResult`, `FaultTrace`; counts in `Stat` |
| `NaiveFaultModel`, `BetaDistFaultModel` (`faultmodel.cc`) | fault map, `ErrorMask` | `ErrorInjection`; generators of the map on threads; destructor stores the map | `FaultMapReader`, `FaultMapWriter`, `Stat` |
| `FaultMapReader`, `FaultMapWriter` (`faultmap.cc`) | one stream each | `Read`, `Write` | the file given with `-r` or `-w` |
| `Stat` (`stat.cc`) | all counters, `repeat_round`, one output stream | `PrintStat`, `ResetStat` | shared by everyone, the signal handler included |
| `FaultResult`, `FaultTrace` | one output stream each | open, print, close | one file per round |
| `SignalHandler` (`sighandler.cc`) | `g_is_sig_term`, `p_user_signal_handler` | `set_signal`, `signal_handler`, `print_result` | suspends main anywhere, shares its `Stat` and streams |
| `main` (`main.cc`) | the start-up, then the campaign: rounds of requests | | everyone |

What is hard in it:

- **One thread, but a handler that cuts in anywhere.** A signal may stop a
  request between two counters, a row of the CSV file between its number and its
  end, `PrintStat` between open and close, or `ResetStat` between two counters;
  the handler then prints and resets the same objects.
- **Buffers and counters that outlive what they belong to.** `ErrorMask`,
  `fault_data`, `data_block_` and the generator's buffer are reused by every
  request, the counters by every round, and none of them is initialised.
- **Two accounts of the same damage.** The fault model counts faults before the
  memory system compares the mask with the data; reader's data and verdict are
  computed from different buffers.
- **Threads without locks** generate the fault map.
- **A file that may be cut off anywhere**, written and read without a look at
  the stream, perhaps under another burst length.
- **Integer divisions and logarithms** that derive the address layout.
- **Two parsers that go on after nonsense.** A syntax error in the `.ini` file is
  reported and ignored, a line that is too long is read as two, an indented line
  belongs to the one above, numbers are read from a stream whose failure nobody
  looks at, and an integer of the file saturates and is then cut to the width of
  `int`.

`PROJECT.json` lists these, and smaller ones, as hazards at their lines.

## The modules

```
Stat <- MemorySystem <- Simulator          FaultyMemory (abstract)
             |  \ implements ----------------^
             <- MemorySystemProofs <- MemorySystemRefines
                                   <- SimulatorProofs (with Simulator)

Text <- CommandLine, IniFile <- Startup <- StartupProofs
                                   : instance
                                AddressMapping <- AddressMappingProofs

FaultMapFile <- FaultMapFileProofs
FaultModelGenerators <- FaultModelGeneratorsProofs

Arithmetic <- AddressMappingProofs, FaultMapFileProofs, StartupProofs
```

`MC*` modules give the constants their small values; each `.cfg` is one run.

**`Stat`** - the counters as one record, and the assignments of `ResetStat` in
their order, which forget the four per-request classes.

**`FaultyMemory`** - what a request promises, in two steps: `Accept` stores its
burst; `Judge` loses exactly the stored 1s that the cell's hard faults and some
of its weak bits pull down, and counts the request faulty or correct.

**`MemorySystem`** - one request, one statement per step wherever a counter
changes or a row or line is written, as the handler may print there:
`AccessMemory` counts the request, `RecvRequest` its columns (and stores the
burst and clears the mask), then `HardFaultError`, `VRTFaultError` (with
`FaultData`), and `CheckFaultMask`: for each column `CorrectColumn`, or
`MaskedColumn` and `ClassifyColumn` (its class), `NumberRow` and `PrintRow` for
each lost bit, `FaultColumn`; then `ClassifyRequest`, `JudgeRequest`,
`PrintFaultTrace`. Statements of which at most one changes a counter share a
step. The two loops of the fault model count bit by bit in the code and are one
step each: they are done before anything is compared with their counters, which
the properties bound from below only. A word is the set of its 1 bits, so `|=`, `&~` and the bit loops
are union, difference and cardinality. A coordinate of the seven-dimensional
array is an element of `Cells`, `Decode` is the address mapping. The random roll
of each VRT entry is nondeterministic; both fault models are there and differ in
the range of the roll and in `>` against `>=`.

**`Simulator`** extends it with the process: registration of the signals, the
rounds, both generators, `print_result` (parameterised by who runs it) from the
open of the stats file to `ResetStat`, which clears one counter per step, the
teardown, and the environment - signals, `SIGKILL`, files that cannot be opened.
After `delete stat` the handler works on freed memory: it may crash, fail or get
away with it. With `-t` there is no generator: its call ends the process, and
where no round was asked for its deletion does, or finds a null pointer and
stores no map. `opts` is the
command line, chosen in the initial state.

**`Text`**, **`CommandLine`**, **`IniFile`** - text is a sequence of pieces: white
space, the characters a parser looks for, and whole words. Cutting at `=`, `]` or
`;`, skipping blanks, joining a repeated key and filling a buffer are what the
code does; a word is never taken apart. `CommandLine` is `ParseCLI` with the flags
`main` declares, one step per argument and one action per branch of `ParseArgs`;
numbers wrap and saturate as stream extraction makes them, and a lone sign is 0.
`IniFile` is `ini_parse_stream` through a buffer of `MaxLine` pieces, one step per `fgets` and
one action per branch, with `ValueHandler` and the getters; a number has a sign
or none, and `strtol` saturates at `LongMax`.

**`Startup`** - from main's first line to its first round: the command line, the
configuration, `Config`'s constructor with every parameter, section and default
(the layout is `AddressMapping`'s, instantiated on those parameters; an integer
is cut to the width of `int`, `Narrowed`), the choice of the generator, its
constructor, which may abort the process - a size below zero, no memory, a map
file that does not open or does not match -, the round limits, and each way to
leave early. An initial state is
what the user typed and what is on the disk, each argument and line with what its
writer meant by it: the properties compare that with what comes out.

**`AddressMapping`** - `CalculateSize`, `SetAddressMapping`, both conversions
and the address arithmetic of both generators, on addresses as bit sets. A
layout is a sequence of six field names instead of twelve characters. Division
is C's, towards zero (`Quotient`), since a file may give negative sizes and
`Startup` goes on with them. In the runs and proofs of the module itself sizes are
natural numbers and there is a channel (`ConfigAssumption`). The properties
say what else they need of a file: that a burst is no longer than a row, that
sizes are powers of two, and, for the width of an address, that the bus has whole
bytes and the devices a power of two of pins.

**`FaultModelGenerators`** - both generators of the fault map on threads, with
every `|=`, `++` and `push_back` split into load and store. Overlapping
`push_back`s are undefined behaviour: an entry is lost, a slot stays unwritten,
or the heap is corrupted and the program dies.

**`FaultMapFile`** - the stored map as a sequence of bytes between a run that
writes and a run that reads. Either may find that the file cannot be opened, and
aborts. A kill or a full disk leaves any prefix. A failed
read leaves the variable as it was, or with only its first bytes new. A read
behind the end of a vector finds `Junk`, or, if that is empty, crashes.

`map` in `PROJECT.json` names the lines behind each definition. Operators marked
"Mutant" are the same definitions with a plausible bug; the properties are known
to notice them.

## The runs

| Run | Shows | Bounds |
|---|---|---|
| `startup` | Every flag ends with what the user gave it; help and errors come in order; parameters are those written, and the error number names the first bad line; the start-up ends | up to 3 of 27 arguments with a small file; a heading and up to 3 of 27 lines below it with a plain command line; buffers of 12 pieces a line and 2 a section or name; `int` of 18 bits, `long` and `uint64_t` of 21 |
| `memory_requests` | Ledgers of requests, columns and bits balance at every statement where a signal may print them; the mask is the damage of the addressed cell; verdict and data agree; the whole implements `FaultyMemory` | `BetaDistFaultModel`, 2 cells behind 3 addresses, bursts of 2 words of 4 bits, 3 requests: every pair of successive requests to the same and to different cells, words with hard faults, VRT entries, both on one bit, and neither |
| `campaign` | Files of finished rounds are complete and agree; which report a signal may overwrite; where the process may abort; rounds have their length; it ends | `NaiveFaultModel`, 2 rounds, up to 3 requests, 2 signals, 7 command lines with `-n` below, at and above the sweep, and `-t` with and without a round |
| `failing_campaign` | The same process with heap garbage in the counters and files that cannot be opened; entries of probability 0 never fire, certain ones always | 2 rounds of 2 requests |
| `address_layout` | No address leaves the array; the sequential sweep hits the columns it was made for; fields fill the address | `Kilo` = 2 instead of 1024, rows of 1 to 4, columns of 4 and 6, 1 or 2 of the rest, with and without powers of two, valid and refused layouts |
| `fault_map_file` | What of a stored map comes back, whole, cut or missing, under the same or another burst length | 4 columns of 0, 1 or 2 entries; 1 or 2 channels and planes |
| `fault_map_generation` | What races can lose; shares and class ranges do not overlap; generation ends | 2 words of 2 bits, 3 hard faults, 4 classes, 1 to 3 threads, counts that wrap at 2 |
| `others_class`, `columns_partition`, `request_classes`, `random_coverage`, `map_round_trip` | Disagreements between the code and its documentation, see below | those of the run of the same module |

A hazard here needs two requests (stale mask), two rounds (stale counters), two
threads (races), two entries in a word (wrong index, wrapped count) or two
configurations; the bounds are one above that wherever it is affordable.

The widths of `startup` are small because TLC counts on 32 bits; they hold every
default of the configuration (65536 rows), one number that `int` does not hold and
`long` does, and one that no type holds. Products of parameters that overflow
`int` in `CalculateSize` are undefined in the code and not modelled.

Three lines hold two pairs of parameters in conflict, a heading between two pairs,
a nonsense line above or below, and a pair with its indented continuation; three
arguments hold a flag, its value and one that follows, or a flag given twice.

Deadlock is checked in `startup`, where `Finished` is a step and every other
state must have one. `InputConsumed` says that each step brings the end nearer,
so no fairness is needed there. In the other runs deadlock is not checked: a
process ends, a file is read to its end, and the request runs stop at
`MaxRequests`.

`MaxRequests` also bounds an endless round (`-n 0` with the random generator):
there main stops drawing requests, which is why `Termination` leaves those
command lines out. `SignalEndsProcess` covers them.

**Fairness.** `Simulator`: weak fairness of main and of the handler. There is
one thread, it never waits for anything, and the operating system runs it; a
signal need never come. The model gives library calls no locks: that the
handler's allocations return is assumed, not shown. `FaultModelGenerators`: weak
fairness of each thread and of main's joins, for the same reason. No other run
needs fairness.

## What the code does otherwise than it says

- `others_class`: the `else` of `CheckFaultMask` belongs to `== 3` alone
  (`memory_system.cc:131-134`), so single and double faults, and masked columns
  that lost nothing, count as "Others" too.
- `columns_partition`: a masked column whose masked bits are all 0 is neither a
  fault column nor a correct one (`memory_system.cc:138-145`).
- `request_classes`: `ResetStat` leaves the four per-request classes alone
  (`stat.cc:91-113`), so later rounds report those of all earlier ones.
- `random_coverage`: random addresses are masked to burst addresses
  (`configuration.cc:172`) and shifted by the burst bits again in
  `AddressMapping`; the upper part of the array is never visited.
- `map_round_trip`: `Write` indexes the entries with the channel
  (`faultmap.cc:141,143`).

Also in the models, without a run of its own: both examples in main's help text
(`main.cc:28-29`) give the configuration as a plain argument, for which main
declares no place (`Refuse`: the parser throws and the process exits with 1);
the line number of a syntax error counts what `fgets` delivered, not lines, once
a line is too long; `-t` leads to a call through an uninitialised pointer
(`main.cc:139`), or with `-d 0` to its deletion (`main.cc:151`); a signal inside
`ResetStat`, or between it and `repeat_round++`, replaces a finished report with
half-cleared counters (`HandlerReport` and `FinishedReportKept` state exactly
this window); an integer of the configuration beyond `int` becomes another one
(`ParametersAsWritten` says which); and `SingleThread` with `thread_num` above 1
leaves most classes out.

## The proofs

`MemorySystemProofs`, for every array, burst length, word width, mapping, set of
fault maps, fault model and number of requests:

- `TypeCorrect` - with the strengthening that the column index is in the burst
  while columns are checked, and that fault maps never change and so keep
  `FaultMapAssumption`: without it `VRTFaultError` could index behind a vector.
- `RequestsAlwaysBalance` and `ColumnsNeverOvercounted` - from a ledger that
  says, at each statement at which a signal can stop a request, what it has
  already been counted for. The ledger is inductive; the two properties are read
  off it. Between the two counters of `AccessMemory` a request has no columns
  yet: the property says so.
- `MaskIsCellDamage` - the mask is empty while the request is at `hard`, the hard
  faults at `vrt`, and hard faults plus fired entries at `check`. The middle two
  facts are what the property leaves out and its induction needs.
- `VerdictIsAboutData` - the running total is 0 exactly when no checked column
  has lost a bit, and the array holds what the generator's buffer holds. The
  second part is where `Read` storing the request's data is used.
- `RollsRespectProbability` - entries of probability 0 never fire under either
  model, certain ones always do under `NaiveFaultModel`.

- `ReportLevelsNest` - requests, columns, bits, CSV rows and trace lines, but for
  the row or line being written. What the induction adds: the lost bits of a
  column that have no row yet (`unnumbered`), and that a burst that has lost a bit
  is a fault column before its request is counted.
- `LostBitsAreCountedFaults` - the counted faults cover the whole mask when it is
  made, and then what `CheckFaultMask` has still to look at besides the bits
  already reported. A column takes as many bits out of what waits as its word
  has, and cannot lose more; two entries naming one bit count twice and mask it
  once, which is why the property is an inequality.

`MemorySystemRefines`:

- `ServesAsFaultyMemory` - `MemorySystem` implements `FaultyMemory`. The initial
  states map to initial states, `RecvRequest` to `Accept`, `JudgeRequest` to
  `Judge` with the bits of the mask that weak entries explain, every other step
  to a stutter. It needs `MaskIsCellDamage`'s invariant and that the running
  total of `CheckFaultMask` is the number of places lost so far.

The assumptions are the named ones of `MemorySystem`; TLC evaluates them on
every run of it.

`AddressMappingProofs`, for every parameter file, every layout of the fields and
every address:

- `NoAddressLeavesTheArray` - a masked field is a set of bits below its width, so
  a number below the power of two that `LogBase2` rounded the size down to; for
  the columns, the power the burst length divides out of it. That a size is not 0
  follows from a rank of at least a megabyte: `Configure` has divided by it.
- `SweepComesBack` - a field pushed below an address is its lowest bits and the
  rest above them (`PushPop`), and two shifts are one: so the mask at each
  field's position finds the field, in any order of the six. The loops' indices
  fit the widths as each quotient is below what is left of the product.
- `LayoutMatchesSize` - the logarithm of every size is a sum of those it is made
  of: products add them, divisions that leave something subtract them.

They rest on what `LogBase2` and `Pow2` compute for every number: both are
recursive functions, shown to exist by induction over a set of numbers
(`Arithmetic`'s `Induction`, from the well-foundedness of `<`), and `LogBase2` to
be the exponent between whose powers its argument lies. The invariant
(`AddressInv`) says that a request is only made with sizes that could be
computed, and for which position of the sweep.

`FaultMapFileProofs`, for every pair of configurations, every map and every file:

- `FileTypes` - also a column holds as many pairs as it was given, which needs
  what the recursive function behind them returns.
- `LoadedMapIsUsable` - a loaded map never has another number of entries than
  its `vrt_size`, whatever bytes the file holds and wherever it ends: loading
  establishes what `MemorySystem` assumes of its maps. The induction needs that
  a column not yet read has no entries, and so that the loops visit no
  coordinate twice.
- `WholeMapRestoresFaults`, `EntriesStayHome`, `CutMapIsPrefix` - from `MapInv`:
  there is a place in the file for each turn of `Write`'s loops (`Offsets`) from
  which its struct's bytes stand (`Recorded`); `Read` is at that place before its
  own turn, or the file has ended behind some turn `cut` (`SoFar`). Under another
  burst length the turns are different loops over the same columns in the same
  order (`TurnIsColumn`, `SharedSizes`), by uniqueness of quotient and remainder.

`FaultModelGeneratorsProofs`, for every number of threads, size of the map and
table of counts:

- `GeneratorsTypeCorrect` - with what a thread holds between load and store at
  each of its places, and that the class it works on is inside the table.
- `RacesLoseBitsOnly` - every drawn fault is paid for by an iteration that has
  drawn (`Work`), and the iterations of all threads are not more than the
  faults asked for, as each has the quotient and the remainder is dropped. That
  no word ends up empty needs that a thread about to store into it holds a bit.
- `AloneLosesNothing` - the only thread finds at its store what it left at its
  load (`HardAlone`, `RegsAlone`); a size is its vector's length plus the entry
  still owed, on 8 bits (`SizesAlone`); a class has as many entries as were made
  of it (`MadeAlone`).
- `ClassesAreKept` - the entries of a class are as many as the iterations that
  made them, of all threads (`MadeByIterations`), and no two threads visit one
  class (`OneVisitor`): a thread's range ends before that of the next begins,
  whatever the division drops between them.

`SimulatorProofs`, for every memory, sweep, number of rounds, set of signals and
set of command lines; it uses that a call of the memory system keeps its types
(`CallInv0` of `MemorySystemProofs`):

- `CampaignTypeCorrect` - with `Control`: where main can be, and that it is in a
  round of the campaign and has a coordinate of the sweep to go on with.
- `AbortsNeedTheHandler`, `ReportsAreKept` - from `StreamInv`: which label of main
  and of the handler goes with an open stream, and from where on a report is
  main's.
- `LaterRoundsAgree` - from `RoundInv`: what main has done of the round it is in
  (`Progress`), as long as no handler has cut in, which counters `ResetStat` has
  cleared, and that the rounds behind it are left alone (`Past`). `Stat`'s
  constructor leaves the counters as the heap had them, so nothing is claimed of
  the first round.
- `RoundsAreFull` - what a round behind main has executed was fixed when it ended:
  by `-n`, or by the end of a sweep which had a request for each of its columns.
- `HandlerReportsTheRound` - from `HandlerInv`: the report that the handler is
  about to write, or has written, agrees with the CSV and the trace file at each
  label main may be suspended at, up to the row or line main was writing; if main
  was clearing, with what `ResetStat` had left; and no file is there for a round
  ahead.
  Both theorems hold for whatever the counters held at the start, and speak of the
  first round only where that was zero (`Counted`): with garbage, `-n` may be
  reached at once.
- `ReturnsWhenAllDone` - also from `EndInv`: main is past its last round when it
  reaches the destructors, and past the map when it returns, unless `-t` left it
  without a generator. It assumes nothing of the counters: the first round's files
  are there, and agree where it was counted from zero.

`StartupProofs`, for every command line, every set of files, and all sizes of
the buffers and numbers:

- `StartupProgresses` - what is left to read is text (`TextInv`), and `fgets`
  takes at least one piece of it: the first end of a piece exists, by the
  well-foundedness of the natural numbers.
- `StartupTypeCorrect` - each value read fits its flag's type, and what is kept
  of a heading or a name is shorter than its buffer.
- `OptionsMean` - from `ReadAsMeant`: the parser always stands between two of the
  arguments the user wrote (`Rest`, what is left behind the first k of them), all
  those behind it were settings, and each flag holds the last value they give it.
  The property speaks of the end only and is not inductive. A step takes one
  argument's chunks, one or two, off the front whatever the spelling
  (`JoinedRead`, `SplitRead`, `HelpRead`, `UnknownRead`): names do not overlap, so
  exactly one flag matches and exactly one of the parser's actions is enabled. That
  `argv` is the arguments one after another is `FlattenIsFlat` and `TakenOff`.

- `BadLineNamed` - from `FileAsMeant`: until the first line in trouble, what is
  left of the file is what stands below its first k lines (`Below`), `lineno` is k
  and no error is set. One line is one piece of `fgets` (`PieceIsLine`), stripping
  leaves what an editor shows (`LineScanned`), and a name is only there to be
  continued below a pair with no heading in between (`Continuable`), so a line that
  is not swallowed goes to the branch its writer meant (`LineTaken`). Behind the
  line in trouble nothing is claimed but that an error once set stays.
- `ParametersRead` - from `AsWritten`, which says of each parameter what the reader
  has of it after k lines (`Stored`): whether a line named it, the first value given
  to it at the head of what it has, and the whole value when a single line named
  it. A key is a parameter's exactly when section and name are (`KeyMatches`): the
  `=` between them stands in no other place of a parameter's key, in any case of
  letters; and a section cut by its buffer is still no parameter's
  (`BufferSpells`). What `strtol` and the cast make of the number that is found is
  `IntegerRead` and `NarrowedHolds`: the number itself if `int` holds it, else the
  low bits of the nearest `long`; `SmallDefaults` says that they leave the defaults
  alone, which needs an `int` of at least 18 bits (`IntAssumption`). Values are only ever appended to, so the head survives
  whatever the parser makes of the lines below a bad one (`ReaderStep`).

`TextAssumption` says that each argument and each line is text, with no line end
inside a line. `MeaningAssumption` says of each argument alone what its writer may
type for what it means: a flag's long or short name with the value joined or
apart, `-h` or `--help`, a name main does not declare, or a value that no number
starts. `LineAssumption` says of each line alone, as an editor shows it, what it
may mean: a heading closed by the first `]` before any comment, a pair cut at the
first `=` or `:`, a comment, nothing, or no sense. What the whole command line and
the whole file then mean is the theorems'. `LowerAssumption` says that `tolower`
neither changes nor yields `=`. TLC evaluates all of them, like the other named
assumptions, on every run of the module.

Two properties were wrong, and the proofs showed it; TLC then found both once its
vocabulary of lines had the case. An indented *heading* below a pair is swallowed
like any other indented line, which `Swallowed` did not say; and a later line that
names a string parameter without giving a value still appends a line end to it, so
that `ParametersAsWritten` now speaks of strings that one line names.

Checked by TLC only:

- Liveness (`Termination`, `SignalEndsProcess`, `GenerationEnds`), which is
  beyond TLAPS altogether.
- `CompletedRounds`, the files of the first round too: it holds where the counters
  start at 0, as `campaign` lets them, and `LaterRoundsAgree` is what is true
  without.
- The five disagreements above: a counterexample is an instance.

## Not modelled

- `ext/headers/json.hpp`, 20587 of the repository's 27593 lines of code: no
  source file of the program includes it. `cmake-build-debug` holds what CMake
  once generated on its author's machine (1592 lines of compiler tests); the
  build files have no behaviour of the program's.
- Of `args.hxx`, what main does not use: positional arguments, groups, lists and
  maps of values, and the layout of the help text, which is most of it.
- Of the `.ini` text, the inside of words: a number is a sign and a word, whatever
  base the word is written in.
- Overflow of `int` in the products of `CalculateSize`, which is undefined.
- The beta distribution: the numbers of faults it yields are constants.
- Layout of the report, the CSV rows and the trace lines.
- `SIGPIPE` and locks inside the C and C++ libraries: a handler that allocates
  while main is inside `malloc` may hang; the model has no such state.
- `SignalHandler::set_ignore` and `is_term`, and `DataDependentFaultError`, which
  nobody calls or which are empty.

## Plan

Done: the start-up with both parsers, the request path with its refinement, the
campaign around it, addresses, map generation and the map file; proofs about
each. Next:

1. A module that composes `FaultModelGenerators` with `FaultMapFile` and
   `MemorySystem`, so that the maps the request path assumes are those the
   threads and the file can leave.
