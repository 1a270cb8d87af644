---------------------------- MODULE MemorySystem ----------------------------
(***************************************************************************)
(* The life of one memory request: Generator::AccessMemory counts it,      *)
(* NaiveMemorySystem::RecvRequest stores its data, asks the fault model    *)
(* (NaiveFaultModel or BetaDistFaultModel) for an error mask, applies the  *)
(* mask and classifies the damage in the shared statistics.                *)
(*                                                                         *)
(* A 64-bit word is the set of its bits that are 1, a burst is a function  *)
(* from 0 .. BL-1 to words, and one (channel, rank, bank group, bank, row, *)
(* column) coordinate is an element of Cells.  The call is synchronous,    *)
(* but a signal handler may print the statistics between any two           *)
(* instructions, so every statement that changes a counter or writes a row *)
(* is a step of its own: rpc is the place reached, "idle" between calls.   *)
(* Only the loops of the fault model, which count bit by bit, stay one     *)
(* step each; the properties bound their two counters from below.          *)
(***************************************************************************)
EXTENDS Stat, Integers, Sequences, FiniteSets

CONSTANTS
  Addresses,     \* request addresses the generators produce
  Cells,         \* coordinates of the memory array
  Decode,        \* Config::AddressMapping, as a function of the address
  BL,            \* burst length
  BusWidth,      \* bits per word
  FaultModel,    \* "NaiveFaultModel" or "BetaDistFaultModel"
  RollMax,       \* largest random roll (1000 in the code)
  FaultMaps,     \* fault maps the generators or a map file can yield
  DataPatterns,  \* bursts the generators write
  FaultTraceOn,  \* config_.fault_trace_on
  MaxCarried,    \* bound: per-request fault classes inherited from a round
  MaxRequests    \* bound: requests of one run of this module

Burst == 0 .. BL - 1
Bits  == 0 .. BusWidth - 1
Words == SUBSET Bits

VrtEntries   == [bit : Bits, prob : Nat]
FaultStructs == [hardfault : Words, vrt_size : Nat, vrt : Seq(VrtEntries)]

ASSUME ShapeAssumption ==
  /\ BL \in Nat \ {0}
  /\ BusWidth \in Nat \ {0}
  /\ RollMax \in Nat
  /\ MaxCarried \in Nat
  /\ MaxRequests \in Nat
  /\ FaultTraceOn \in BOOLEAN
ASSUME MappingAssumption == Decode \in [Addresses -> Cells]
ASSUME DataAssumption == DataPatterns \subseteq [Burst -> Words]
\* vrt_size never exceeds the vector: what the generators and the reader leave
\* when no two threads race (FaultModelGenerators in the README).
ASSUME FaultMapAssumption ==
  /\ FaultMaps \subseteq [Cells -> [Burst -> FaultStructs]]
  /\ \A fm \in FaultMaps, c \in Cells, i \in Burst :
       fm[c][i].vrt_size <= Len(fm[c][i].vrt)

VARIABLES
  stat,              \* the shared counters
  data_block,        \* data_block_[...]: the simulated array
  fault_map,         \* fault_map_[...]: hard and variable-retention faults
  vrt_prev,          \* <<cell, i, j>> whose vrt[j] last fired (std::get<2>)
  ErrorMask,         \* the fault model's mask, one buffer for all requests
  fault_data,        \* what a reader of the faulty burst would see
  rpc,               \* where the current request is
  recv_addr,         \* address of the current request
  gen_data,          \* the generator's data buffer
  column,            \* loop index i of CheckFaultMask
  fault_count_in_BL, \* CheckFaultMask's running total
  unnumbered,        \* lost bits of column i without a row number yet
  result_rows,       \* rows written to the round's _FaultResult.csv
  trace_lines        \* lines written to the round's _FaultTrace.txt

arrayVars  == <<data_block, fault_map, vrt_prev>>
burstVars  == <<ErrorMask, fault_data, recv_addr, gen_data>>
loopVars   == <<column, fault_count_in_BL, unnumbered>>
reportVars == <<result_rows, trace_lines>>
memVars == <<arrayVars, burstVars, rpc, loopVars, reportVars>>
vars == <<stat, memVars>>

cell == Decode[recv_addr]

-----------------------------------------------------------------------------
(* The state after the constructors.  fault_data and gen_data are raw new[] *)
(* arrays that every request writes before it reads them; ErrorMask is one  *)
(* too, and any content is allowed for it.                                  *)

MemInit ==
  /\ data_block \in [Cells -> DataPatterns]
  /\ fault_map \in FaultMaps
  /\ vrt_prev = {}
  /\ ErrorMask \in [Burst -> Words]
  /\ fault_data = [i \in Burst |-> {}]
  /\ gen_data = [i \in Burst |-> {}]
  /\ rpc = "idle"
  /\ recv_addr \in Addresses
  /\ column = 0
  /\ fault_count_in_BL = 0
  /\ unnumbered = 0
  /\ result_rows = 0
  /\ trace_lines = 0

\* A round starts with what ResetStat leaves of the previous one.
Init ==
  /\ MemInit
  /\ \E bl \in [BLCounters -> 0 .. MaxCarried] :
       stat = [c \in Counters |-> IF c \in BLCounters THEN bl[c] ELSE 0]

-----------------------------------------------------------------------------
(* Mutant: a read request leaves the stored burst alone. *)
ReadWithoutStore(addr, data) == data_block

\* NaiveMemorySystem::Read stores the request's data, as Write does.
Read(addr, data)  == [data_block EXCEPT ![Decode[addr]] = data]
Write(addr, data) == [data_block EXCEPT ![Decode[addr]] = data]

(* Mutant: the mask keeps what the previous request left in it. *)
KeepErrorMask == ErrorMask

\* The first loop of ErrorInjection.
ClearedErrorMask == [i \in Burst |-> {}]

\* Generator::AccessMemory counts the request ...
AccessMemory ==
  /\ rpc = "idle"
  /\ stat' = [stat EXCEPT !.executed_request_num = @ + 1]
  /\ rpc' = "accepted"
  /\ UNCHANGED <<arrayVars, burstVars, loopVars, reportVars>>

\* ... and then its columns.  Then the head of RecvRequest and ErrorInjection.
RecvRequest(addr, data, is_write) ==
  /\ rpc = "accepted"
  /\ stat' = [stat EXCEPT !.executed_column_num = @ + BL]
  /\ recv_addr' = addr
  /\ gen_data' = data
  /\ data_block' = IF is_write THEN Write(addr, data) ELSE Read(addr, data)
  /\ ErrorMask' = ClearedErrorMask
  /\ rpc' = "hard"
  /\ UNCHANGED <<fault_map, vrt_prev, fault_data, loopVars, reportVars>>

\* The bits set in a burst of words.
Pairs(w) == {p \in Burst \X Bits : p[2] \in w[p[1]]}

\* The cells stuck at 0 go into the mask.
HardMask == [i \in Burst |-> ErrorMask[i] \cup fault_map[cell][i].hardfault]

(* Mutant: the bits are counted before the fault map is merged in. *)
HardFaultsBeforeMerge == Cardinality(Pairs(ErrorMask))

\* The inner loop of HardFaultError: every bit of the merged mask.
HardFaultCount == Cardinality(Pairs(HardMask))

\* HardFaultError.
HardFaultError ==
  /\ rpc = "hard"
  /\ ErrorMask' = HardMask
  /\ stat' = [stat EXCEPT !.hard_fault_bit_num = @ + HardFaultCount]
  /\ rpc' = "vrt"
  /\ UNCHANGED <<arrayVars, fault_data, recv_addr, gen_data, loopVars,
                 reportVars>>

\* The vrt entries VRTFaultError visits: the first vrt_size of each position.
Entries ==
  UNION {{i} \X (1 .. fault_map[cell][i].vrt_size) : i \in Burst}

Entry(e) == fault_map[cell][e[1]].vrt[e[2]]

\* The two models draw the roll from different ranges ...
Rolls ==
  IF FaultModel = "BetaDistFaultModel" THEN 0 .. RollMax ELSE 1 .. RollMax

(* Mutant: each model compares as the other one does. *)
FiresSwapped(prob, roll) ==
  IF FaultModel = "BetaDistFaultModel" THEN prob >= roll ELSE prob > roll

\* ... and compare it with the entry's probability differently.
Fires(prob, roll) ==
  IF FaultModel = "BetaDistFaultModel" THEN prob > roll ELSE prob >= roll

(* Mutant: the entry's bit number is used without mirroring it, from 1. *)
VrtBitOffByOne(e) == BusWidth - Entry(e).bit

\* Entries number bits from the left of the word.
VrtBit(e) == (BusWidth - 1) - Entry(e).bit

\* FaultData: a fault can only pull a bit down.
FaultData(mask) == [i \in Burst |-> gen_data[i] \ mask[i]]

\* VRTFaultError, then FaultData on the finished mask.
VRTFaultError ==
  /\ rpc = "vrt"
  /\ \E roll \in [Entries -> Rolls] :
       LET fired == {e \in Entries : Fires(Entry(e).prob, roll[e])}
           mask  == [i \in Burst |->
                       ErrorMask[i] \cup {VrtBit(e) : e \in {f \in fired : f[1] = i}}]
       IN /\ ErrorMask' = mask
          /\ stat' = [stat EXCEPT !.vrt_fault_bit_num = @ + Cardinality(fired)]
          /\ vrt_prev' = (vrt_prev \ ({cell} \X Entries)) \cup ({cell} \X fired)
          /\ fault_data' = FaultData(mask)
  /\ rpc' = "check"
  /\ column' = 0
  /\ fault_count_in_BL' = 0
  /\ UNCHANGED <<data_block, fault_map, recv_addr, gen_data, unnumbered,
                 reportVars>>

(* Mutant: a fault is any bit of the mask, whatever the stored bit is. *)
MaskedBits(i) == Cardinality(ErrorMask[i])

\* Only a stored 1 can be lost.
FaultCountInColumn(i) == Cardinality(ErrorMask[i] \cap data_block[cell][i])

\* CheckFaultMask, column i of the burst: nothing of it is masked.
CorrectColumn ==
  /\ rpc = "check" /\ column < BL
  /\ ErrorMask[column] = {}
  /\ stat' = [stat EXCEPT !.correct_column_num = @ + 1]
  /\ column' = column + 1
  /\ UNCHANGED <<arrayVars, burstVars, rpc, fault_count_in_BL, unnumbered,
                 reportVars>>

\* Some of it is masked and n stored bits are lost: the first two classes.
\* fault_count_in_BL is a local that nobody reads before the loop is over.
MaskedColumn ==
  /\ rpc = "check" /\ column < BL
  /\ ErrorMask[column] # {}
  /\ LET n == FaultCountInColumn(column)
     IN /\ stat' = [stat EXCEPT !.single_fault_in_column_num = @ + One(n = 1),
                                !.double_fault_in_column_num = @ + One(n = 2)]
        /\ fault_count_in_BL' = fault_count_in_BL + n
        /\ unnumbered' = n
  /\ rpc' = "class"
  /\ UNCHANGED <<arrayVars, burstVars, column, reportVars>>

(* Mutant: the test for a column without lost bits is missing. *)
ReportUntested == TRUE

\* Only a column with lost bits is printed and counted faulty.
ReportColumn == unnumbered # 0

\* The other two classes.  The "else" belongs to the test for 3 alone, so
\* every masked column but a triple one counts as "others".
ClassifyColumn ==
  /\ rpc = "class"
  /\ stat' = [stat EXCEPT !.triple_fault_in_column_num = @ + One(unnumbered = 3),
                          !.others_fault_in_column_num = @ + One(unnumbered # 3)]
  /\ IF ReportColumn
       THEN rpc' = "number" /\ UNCHANGED column
       ELSE rpc' = "check" /\ column' = column + 1
  /\ UNCHANGED <<arrayVars, burstVars, fault_count_in_BL, unnumbered,
                 reportVars>>

(* Mutant: fault_column_num++ sits in PrintFaultResult's loop over bits. *)
NumberAndCountColumn ==
  [stat EXCEPT !.all_fault_bit_num = @ + 1, !.fault_column_num = @ + 1]

CountBit == [stat EXCEPT !.all_fault_bit_num = @ + 1]

\* PrintFaultResult numbers the row of a lost bit with all_fault_bit_num ...
NumberRow ==
  /\ rpc = "number" /\ unnumbered > 0
  /\ stat' = CountBit
  /\ unnumbered' = unnumbered - 1
  /\ rpc' = "row"
  /\ UNCHANGED <<arrayVars, burstVars, column, fault_count_in_BL, reportVars>>

\* ... and ends it.  A row without its end of line is not counted.
PrintRow ==
  /\ rpc = "row"
  /\ result_rows' = result_rows + 1
  /\ rpc' = "number"
  /\ UNCHANGED <<stat, arrayVars, burstVars, loopVars, trace_lines>>

\* PrintFaultResult has returned.
FaultColumn ==
  /\ rpc = "number" /\ unnumbered = 0
  /\ stat' = [stat EXCEPT !.fault_column_num = @ + 1]
  /\ column' = column + 1
  /\ rpc' = "check"
  /\ UNCHANGED <<arrayVars, burstVars, fault_count_in_BL, unnumbered,
                 reportVars>>

\* After the loop: the class of the whole burst.
ClassifyRequest ==
  /\ rpc = "check" /\ column = BL
  /\ stat' = [stat EXCEPT
       !.single_fault_in_BL_num = @ + One(fault_count_in_BL = 1),
       !.double_fault_in_BL_num = @ + One(fault_count_in_BL = 2),
       !.triple_fault_in_BL_num = @ + One(fault_count_in_BL = 3),
       !.others_fault_in_BL_num = @ + One(fault_count_in_BL >= 4)]
  /\ rpc' = "verdict"
  /\ UNCHANGED <<arrayVars, burstVars, loopVars, reportVars>>

(* Mutant: correct_request_num++ is not in the else branch. *)
CountVerdictNoElse(n) ==
  [stat EXCEPT !.fault_request_num = @ + One(n # 0),
               !.correct_request_num = @ + 1]

\* The verdict on a request whose burst lost n bits.
CountVerdict(n) ==
  [stat EXCEPT !.fault_request_num = @ + One(n # 0),
               !.correct_request_num = @ + One(n = 0)]

JudgeRequest ==
  /\ rpc = "verdict"
  /\ stat' = CountVerdict(fault_count_in_BL)
  /\ rpc' = IF fault_count_in_BL # 0 /\ FaultTraceOn THEN "trace" ELSE "idle"
  /\ UNCHANGED <<arrayVars, burstVars, loopVars, reportVars>>

\* The line of a faulty request is complete.
PrintFaultTrace ==
  /\ rpc = "trace"
  /\ trace_lines' = trace_lines + 1
  /\ rpc' = "idle"
  /\ UNCHANGED <<stat, arrayVars, burstVars, loopVars, result_rows>>

\* CheckFaultMask.
CheckFaultMask ==
  \/ CorrectColumn \/ MaskedColumn \/ ClassifyColumn
  \/ NumberRow \/ PrintRow \/ FaultColumn
  \/ ClassifyRequest \/ JudgeRequest \/ PrintFaultTrace

\* The call in progress goes on.
Serve == HardFaultError \/ VRTFaultError \/ CheckFaultMask

Next ==
  \/ stat.executed_request_num < MaxRequests /\ AccessMemory
  \/ \E addr \in Addresses, data \in DataPatterns, is_write \in BOOLEAN :
       RecvRequest(addr, data, is_write)
  \/ Serve

Spec == Init /\ [][Next]_vars

-----------------------------------------------------------------------------
\* Places of a call: in CheckFaultMask, and in the body of its loop.
InColumn == {"class", "number", "row"}
Checking == {"check", "verdict", "trace"} \cup InColumn

(* Types of the variables.  column reaches BL, the loop's exit value. *)
TypeOK ==
  /\ stat \in Stats
  /\ data_block \in [Cells -> [Burst -> Words]]
  /\ fault_map \in [Cells -> [Burst -> FaultStructs]]
  /\ vrt_prev \subseteq Cells \X (Burst \X Nat)
  /\ ErrorMask \in [Burst -> Words]
  /\ fault_data \in [Burst -> Words]
  /\ rpc \in {"idle", "accepted", "hard", "vrt"} \cup Checking
  /\ recv_addr \in Addresses
  /\ gen_data \in [Burst -> Words]
  /\ column \in 0 .. BL
  /\ fault_count_in_BL \in Nat
  /\ unnumbered \in Nat
  /\ result_rows \in Nat
  /\ trace_lines \in Nat

(* Every request the generator counted is judged exactly once, faulty or    *)
(* correct: at most the one in progress is missing, and its columns only    *)
(* while AccessMemory is between its two counters, wherever a signal stops  *)
(* the call (stat counters of AccessMemory and CheckFaultMask).             *)
RequestsBalance ==
  /\ stat.executed_request_num =
       stat.fault_request_num + stat.correct_request_num
         + One(rpc \notin {"idle", "trace"})
  /\ stat.executed_column_num + BL * One(rpc = "accepted")
       = BL * stat.executed_request_num

\* Columns of the current request CheckFaultMask has still to count.
UncheckedColumns ==
  CASE rpc \in {"idle", "accepted"} -> 0
    [] rpc \in Checking -> BL - column
    [] OTHER -> BL

(* No column is reported twice: the faulty and the correct columns and those *)
(* still to be checked never exceed the executed ones (CheckFaultMask).      *)
ColumnsNotOvercounted ==
  stat.fault_column_num + stat.correct_column_num + UncheckedColumns
    <= stat.executed_column_num

(* The three levels of the report agree at any moment it can be printed: a  *)
(* faulty request has a faulty column, a faulty column a faulty bit, every  *)
(* faulty bit is one row of the CSV file and every faulty request one line  *)
(* of the trace, but for the row or line being written; the column classes  *)
(* claim no more bits than were lost, those without a row yet included.     *)
FaultCountsNested ==
  /\ stat.fault_request_num <= stat.fault_column_num
  /\ stat.fault_column_num <= stat.all_fault_bit_num
  /\ result_rows + One(rpc = "row") = stat.all_fault_bit_num
  /\ FaultTraceOn => trace_lines + One(rpc = "trace") = stat.fault_request_num
  /\ stat.single_fault_in_column_num + 2 * stat.double_fault_in_column_num
       + 3 * stat.triple_fault_in_column_num <= stat.all_fault_bit_num + unnumbered

(* No bit is reported lost without a hard or a variable-retention fault     *)
(* counted for it, although the two are counted by the fault model before   *)
(* the memory system compares mask and data.                                *)
FaultBitsExplained ==
  stat.all_fault_bit_num <= stat.hard_fault_bit_num + stat.vrt_fault_bit_num

(* The mask the memory system receives is the damage of the addressed cell  *)
(* and nothing else: every hard fault of the cell is in it, every entry     *)
(* that fired is in it, and it holds no bit the cell's fault map does not   *)
(* explain - in particular none left over from the previous request.        *)
MaskMatchesFaultMap ==
  rpc \in Checking =>
    \A i \in Burst :
      LET fs    == fault_map[cell][i]
          fired == {j \in 1 .. fs.vrt_size : <<cell, <<i, j>>>> \in vrt_prev}
      IN ErrorMask[i] = fs.hardfault \cup {BusWidth - 1 - fs.vrt[j].bit : j \in fired}

(* The verdict is about data: a request is counted faulty exactly when the  *)
(* burst a reader would get differs from the burst stored in the array,     *)
(* although one is computed from the generator's buffer and the other from  *)
(* the array and the mask (FaultData against CheckFaultMask).               *)
VerdictMatchesData ==
  rpc = "verdict" =>
    (fault_count_in_BL # 0 <=> fault_data # data_block[cell])

(* Doc claim, stat.cc:79: "Number of Others Bit Fault in Column" counts the *)
(* columns that are neither single, double nor triple, as the counter of    *)
(* the same name for requests does.                                         *)
OthersMeansFourOrMore ==
  [][stat'.others_fault_in_column_num > stat.others_fault_in_column_num
       => FaultCountInColumn(column) >= 4]_vars

(* Doc claim, stat.cc:66-68: executed columns are fault columns and correct *)
(* columns.                                                                 *)
ColumnsPartitioned ==
  rpc = "idle" =>
    stat.executed_column_num = stat.fault_column_num + stat.correct_column_num

-----------------------------------------------------------------------------
\* The places of cell c that a hard fault or a vrt entry can pull down.
HardPlaces(c) == {p \in Burst \X Bits : p[2] \in fault_map[c][p[1]].hardfault}
WeakPlaces(c) ==
  {p \in Burst \X Bits :
     \E j \in 1 .. fault_map[c][p[1]].vrt_size :
       p[2] = BusWidth - 1 - fault_map[c][p[1]].vrt[j].bit}

Abstract == INSTANCE FaultyMemory WITH
  Places  <- Burst \X Bits,
  array   <- [c \in Cells |-> Pairs(data_block[c])],
  hard    <- [c \in Cells |-> HardPlaces(c)],
  weak    <- [c \in Cells |-> WeakPlaces(c)],
  busy    <- rpc \notin {"idle", "accepted", "trace"},
  target  <- cell,
  faulty  <- stat.fault_request_num,
  correct <- stat.correct_request_num,
  lost    <- stat.all_fault_bit_num + unnumbered
               - (IF rpc \in InColumn \cup {"check", "verdict"}
                    THEN fault_count_in_BL ELSE 0)

(* RecvRequest, with its loops over columns, entries and bits and its shared *)
(* buffers, serves every request as FaultyMemory does in one step: the bits  *)
(* it adds to the report are exactly the stored ones that the cell's hard    *)
(* faults and some of its weak bits pull down.                               *)
ImplementsFaultyMemory == Abstract!Spec

(* An entry of probability 0 never fires, and under NaiveFaultModel one of   *)
(* probability RollMax always does: the two models compare with > and >= and *)
(* draw from 0 and from 1, so both ends of the scale are off-by-one ground.  *)
EntriesFireByProbability ==
  /\ \A p \in vrt_prev : fault_map[p[1]][p[2][1]].vrt[p[2][2]].prob > 0
  /\ rpc \in Checking /\ FaultModel = "NaiveFaultModel" =>
       \A e \in Entries : Entry(e).prob >= RollMax => <<cell, e>> \in vrt_prev

=============================================================================
