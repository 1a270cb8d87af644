------------------------ MODULE MemorySystemRefines ------------------------
(***************************************************************************)
(* Every behaviour of MemorySystem is one of FaultyMemory: the loops over  *)
(* columns, entries and bits, the shared mask, the counters and the rows   *)
(* add up to one step that accepts a burst and one that judges it.         *)
(***************************************************************************)
EXTENDS MemorySystemProofs

-----------------------------------------------------------------------------
(* The running total of CheckFaultMask. *)

\* The places of the columns before k that the mask takes from the array.
LostBefore(k) ==
  {p \in Pairs(ErrorMask) : p[1] < k /\ p[2] \in data_block[cell][p[1]]}

\* The first column the total does not include.
Seen == IF rpc \in InColumn THEN column + 1 ELSE column

\* CheckFaultMask's running total means something.
Totalling == rpc \in {"check", "verdict"} \cup InColumn

TotalInv == Totalling => fault_count_in_BL = Cardinality(LostBefore(Seen))

(* The places of lost bits can be counted. *)
LEMMA LostFinite ==
  ASSUME NEW k
  PROVE  IsFiniteSet(LostBefore(k)) /\ Cardinality(LostBefore(k)) \in Nat
<1>1. LostBefore(k) \subseteq Burst \X Bits
  BY DEF LostBefore, Pairs
<1> QED BY <1>1, PlacesFinite, FS_Subset, FS_CardinalityType

(* A checked column adds its lost bits to the total. *)
LEMMA ColumnAddsToTotal ==
  ASSUME TypeOK, column \in Burst
  PROVE  Cardinality(LostBefore(column + 1))
           = Cardinality(LostBefore(column)) + FaultCountInColumn(column)
<1> DEFINE word == ErrorMask[column] \cap data_block[cell][column]
           here == {column} \X word
<1>1. column \in Nat /\ Burst \subseteq Nat
  BY DEF Burst
<1>2. word \in Words /\ ErrorMask[column] \in Words
  BY DEF TypeOK, Words
<1>3. IsFiniteSet(word) /\ Cardinality(word) \in Nat
  BY <1>2, WordCardinality
<1>4. IsFiniteSet(here) /\ Cardinality(here) = Cardinality(word)
  <2>1. IsFiniteSet({column}) /\ Cardinality({column}) = 1
    BY FS_Singleton
  <2> HIDE DEF word
  <2>2. IsFiniteSet(here) /\ Cardinality(here) = 1 * Cardinality(word)
    BY <1>3, <2>1, FS_Product
  <2> QED BY <1>3, <2>2
<1>5. LostBefore(column + 1) = LostBefore(column) \cup here
  <2>1. \A p \in Pairs(ErrorMask) :
          p[1] < column + 1 <=> (p[1] < column \/ p[1] = column)
    <3>1. \A p \in Pairs(ErrorMask) : p[1] \in Burst
      BY DEF Pairs
    <3>2. \A i \in Burst : i < column + 1 <=> (i < column \/ i = column)
      BY <1>1
    <3> QED BY <3>1, <3>2
  <2>2. \A p : p \in here <=> /\ p \in Pairs(ErrorMask) /\ p[1] = column
                              /\ p[2] \in data_block[cell][p[1]]
    BY <1>2 DEF Pairs, Words
  <2> QED BY <2>1, <2>2 DEF LostBefore
<1>6. LostBefore(column) \cap here = {}
  <2>1. \A p \in here : p[1] = column /\ ~ column < column
    BY <1>1
  <2> QED BY <2>1 DEF LostBefore
<1>7. Cardinality(LostBefore(column + 1))
        = Cardinality(LostBefore(column)) + Cardinality(here) - 0
  <2>1. IsFiniteSet(LostBefore(column))
    BY LostFinite
  <2>2. Cardinality({}) = 0
    BY FS_EmptySet
  <2> HIDE DEF here
  <2> QED BY <1>4, <1>5, <1>6, <2>1, <2>2, FS_Union
<1>8. Cardinality(word) = FaultCountInColumn(column)
  BY DEF FaultCountInColumn
<1> HIDE DEF here, word
<1> QED BY <1>3, <1>4, <1>7, <1>8, LostFinite

(* Every step keeps the total the number of places lost so far. *)
LEMMA NextTotal == Inv0 /\ TotalInv /\ [Next]_vars => TotalInv'
<1> SUFFICES ASSUME Inv0, TotalInv, [Next]_vars PROVE TotalInv'
  OBVIOUS
<1> USE DEF InColumn
<1>0. column \in Nat
  BY DEF Inv0, TypeOK
<1>1. ASSUME rpc' \in {"idle", "accepted", "hard", "vrt", "trace"}
      PROVE  TotalInv'
  BY <1>1 DEF TotalInv, Totalling
<1>2. CASE VRTFaultError
  <2>1. rpc' = "check" /\ column' = 0 /\ fault_count_in_BL' = 0
    BY <1>2 DEF VRTFaultError
  <2>2. LostBefore(Seen)' = {}
    <3>1. \A i \in Burst : ~ i < 0
      BY DEF Burst
    <3> QED BY <2>1, <3>1 DEF LostBefore, Pairs, Seen
  <2>3. Cardinality(LostBefore(Seen)') = 0
    BY <2>2, FS_EmptySet
  <2> QED BY <2>1, <2>3 DEF TotalInv
<1>3. ASSUME CheckFaultMask
      PROVE  \A k : LostBefore(k)' = LostBefore(k)
  BY <1>3, CheckLeavesData DEF arrayVars, burstVars, LostBefore, Pairs
<1>4. CASE CorrectColumn \/ MaskedColumn
  <2>1. rpc = "check" /\ column \in Burst
    BY <1>4, ShapeAssumption DEF CorrectColumn, MaskedColumn, Inv0, TypeOK, Burst
  <2>2. PICK n \in Nat : /\ n = FaultCountInColumn(column)
                         /\ n = 0 <=> ErrorMask[column] \cap data_block[cell][column] = {}
    BY <2>1, FaultCountType DEF Inv0
  <2>3. fault_count_in_BL' = fault_count_in_BL + n
    <3>1. CASE CorrectColumn
      <4>1. n = 0 /\ fault_count_in_BL' = fault_count_in_BL
        BY <2>2, <3>1 DEF CorrectColumn
      <4> QED BY <4>1 DEF Inv0, TypeOK
    <3>2. CASE MaskedColumn
      BY <2>2, <3>2 DEF MaskedColumn
    <3> QED BY <1>4, <3>1, <3>2
  <2>4. Seen' = column + 1 /\ Seen = column
    BY <1>0, <1>4, <2>1 DEF CorrectColumn, MaskedColumn, Seen
  <2>5. Cardinality(LostBefore(column + 1)) = Cardinality(LostBefore(column)) + n
    BY <2>1, <2>2, ColumnAddsToTotal DEF Inv0
  <2>6. fault_count_in_BL = Cardinality(LostBefore(column))
    BY <2>1, <2>4 DEF TotalInv, Totalling
  <2>7. LostBefore(Seen)' = LostBefore(column + 1)
    BY <1>3, <1>4, <2>4 DEF CheckFaultMask, LostBefore
  <2> QED BY <2>3, <2>5, <2>6, <2>7 DEF TotalInv
<1>5. CASE \/ ClassifyColumn \/ NumberRow \/ PrintRow \/ FaultColumn
           \/ ClassifyRequest
  <2>1. /\ Seen' = Seen /\ Totalling /\ fault_count_in_BL' = fault_count_in_BL
    BY <1>0, <1>5 DEF ClassifyColumn, NumberRow, PrintRow, FaultColumn,
                      ClassifyRequest, loopVars, Seen, Totalling
  <2>2. LostBefore(Seen)' = LostBefore(Seen)
    BY <1>3, <1>5, <2>1 DEF CheckFaultMask, LostBefore
  <2> QED BY <2>1, <2>2 DEF TotalInv
<1>6. CASE UNCHANGED vars
  BY <1>6 DEF vars, memVars, arrayVars, burstVars, loopVars, TotalInv, Totalling,
              Seen, LostBefore, Pairs, cell
<1> QED
  BY <1>1, <1>2, <1>4, <1>5, <1>6
     DEF Next, Serve, CheckFaultMask, AccessMemory, RecvRequest, HardFaultError,
         JudgeRequest, PrintFaultTrace

-----------------------------------------------------------------------------
(* Initial states and steps of FaultyMemory. *)

(* The initial states are initial ones of FaultyMemory. *)
LEMMA RefinesInit == Init => Abstract!Init
<1> SUFFICES ASSUME Init PROVE Abstract!Init
  OBVIOUS
<1>1. Inv0 /\ cell \in Cells
  BY InitInv0, MappingAssumption DEF Inv0, TypeOK, cell
<1>2. PICK bl \in [BLCounters -> 0 .. MaxCarried] :
        stat = [c \in Counters |-> IF c \in BLCounters THEN bl[c] ELSE 0]
  BY DEF Init
<1>3. \A c \in Counters \ BLCounters : stat[c] = 0
  BY <1>2
<1>4. /\ stat.fault_request_num = 0 /\ stat.correct_request_num = 0
      /\ stat.all_fault_bit_num = 0
  BY <1>3 DEF Counters, BLCounters
<1>5. rpc = "idle" /\ unnumbered = 0
  BY DEF Init, MemInit
<1>6. \A c \in Cells : /\ Pairs(data_block[c]) \subseteq Burst \X Bits
                       /\ HardPlaces(c) \subseteq Burst \X Bits
                       /\ WeakPlaces(c) \subseteq Burst \X Bits
  BY DEF Pairs, HardPlaces, WeakPlaces
<1> QED BY <1>1, <1>4, <1>5, <1>6 DEF Abstract!Init, InColumn

(* FaultyMemory counts as this module does. *)
LEMMA SameCardinality == \A S : Abstract!Cardinality(S) = Cardinality(S)
BY DEF Abstract!Cardinality, Cardinality

(* The fault map never changes, and with it the places that may fail. *)
LEMMA PlacesStay ==
  ASSUME fault_map' = fault_map
  PROVE  /\ [c \in Cells |-> HardPlaces(c)]' = [c \in Cells |-> HardPlaces(c)]
         /\ [c \in Cells |-> WeakPlaces(c)]' = [c \in Cells |-> WeakPlaces(c)]
BY DEF HardPlaces, WeakPlaces

(* A request accepted: its burst is in the array. *)
LEMMA RefinesAccept ==
  ASSUME Inv0, NEW addr \in Addresses, NEW data \in DataPatterns,
         NEW is_write \in BOOLEAN, RecvRequest(addr, data, is_write)
  PROVE  Abstract!Accept(Decode[addr], Pairs(data))
<1>1. /\ rpc = "accepted" /\ rpc' = "hard" /\ recv_addr' = addr
      /\ fault_map' = fault_map /\ unnumbered' = unnumbered
      /\ data_block' = [data_block EXCEPT ![Decode[addr]] = data]
  BY DEF RecvRequest, Read, Write, loopVars
<1>2. cell' = Decode[addr] /\ Decode[addr] \in Cells
  BY <1>1, MappingAssumption DEF cell
<1>3. /\ stat'.fault_request_num = stat.fault_request_num
      /\ stat'.correct_request_num = stat.correct_request_num
      /\ stat'.all_fault_bit_num = stat.all_fault_bit_num
  BY RequestCounters, CounterNames DEF OnlyCounts
<1>4. [c \in Cells |-> Pairs(data_block[c])]'
        = [[c \in Cells |-> Pairs(data_block[c])] EXCEPT ![Decode[addr]] = Pairs(data)]
  <2>1. \A c \in Cells :
          data_block'[c] = IF c = Decode[addr] THEN data ELSE data_block[c]
    BY <1>1 DEF Inv0, TypeOK
  <2>2. [c \in Cells |-> Pairs(data_block[c])]' = [c \in Cells |-> Pairs(data_block'[c])]
    BY DEF Pairs
  <2> QED BY <1>2, <2>1, <2>2
<1> QED
  BY <1>1, <1>2, <1>3, <1>4, PlacesStay DEF Abstract!Accept, InColumn

(* A request judged: what it has lost is what hard faults and some weak bits *)
(* of its cell take from the array.                                          *)
LEMMA RefinesJudge ==
  ASSUME Inv0, MaskInv, TotalInv, JudgeRequest
  PROVE  Abstract!Judge(Pairs(ErrorMask) \cap WeakPlaces(cell))
         /\ cell \in Cells
<1> DEFINE failing == Pairs(ErrorMask) \cap WeakPlaces(cell)
           gone == Pairs(data_block[cell]) \cap (HardPlaces(cell) \cup failing)
           n == fault_count_in_BL
<1>1. /\ rpc = "verdict" /\ rpc' \in {"idle", "trace"} /\ cell' = cell
      /\ UNCHANGED <<data_block, fault_map, unnumbered>>
      /\ column = BL /\ unnumbered = 0
  BY DEF JudgeRequest, arrayVars, burstVars, loopVars, cell, Inv0, PlacesOK, InColumn
<1>2. cell \in Cells
  BY MappingAssumption DEF Inv0, TypeOK, cell
<1>3. Pairs(ErrorMask) = HardPlaces(cell) \cup failing
  <2>1. \A i \in Burst : ErrorMask[i] = fault_map[cell][i].hardfault \cup FiredBits(i)
    BY <1>1 DEF MaskInv, Checking
  <2>2. \A p \in HardPlaces(cell) : p \in Pairs(ErrorMask)
    BY <2>1 DEF HardPlaces, Pairs
  <2>3. ASSUME NEW p \in Pairs(ErrorMask), p \notin HardPlaces(cell)
        PROVE  p \in WeakPlaces(cell)
    <3>1. p \in Burst \X Bits /\ p[1] \in Burst /\ p[2] \in FiredBits(p[1])
      BY <2>1, <2>3 DEF Pairs, HardPlaces
    <3>2. PICK j \in 1 .. fault_map[cell][p[1]].vrt_size :
            p[2] = BusWidth - 1 - fault_map[cell][p[1]].vrt[j].bit
      BY <3>1 DEF FiredBits
    <3> QED BY <3>1, <3>2 DEF WeakPlaces
  <2> QED BY <2>2, <2>3
<1>4. LostBefore(BL) = gone
  <2>1. \A p \in Pairs(ErrorMask) : p \in Burst \X Bits /\ p[1] < BL
    <3>1. \A i \in Burst : i < BL
      BY ShapeAssumption DEF Burst
    <3> QED BY <3>1 DEF Pairs
  <2>2. LostBefore(BL) = Pairs(ErrorMask) \cap Pairs(data_block[cell])
    BY <2>1 DEF LostBefore, Pairs
  <2> QED BY <1>3, <2>2
<1>5. n = Cardinality(gone) /\ n \in Nat /\ (n = 0 <=> gone = {})
  <2>1. IsFiniteSet(gone) /\ n = Cardinality(gone)
    BY <1>1, <1>4, LostFinite DEF TotalInv, Totalling, Seen, InColumn
  <2> QED BY <2>1, FS_CardinalityType, FS_EmptySet
<1>6. /\ stat'.fault_request_num = stat.fault_request_num + One(n # 0)
      /\ stat'.correct_request_num = stat.correct_request_num + One(n = 0)
      /\ stat'.all_fault_bit_num = stat.all_fault_bit_num
      /\ stat.fault_request_num \in Nat /\ stat.correct_request_num \in Nat
      /\ stat.all_fault_bit_num \in Nat
  BY VerdictCounters, CounterNames DEF OnlyCounts, Inv0, TypeOK, Stats
<1> HIDE DEF gone
<1>7. /\ stat'.fault_request_num
           = IF gone = {} THEN stat.fault_request_num ELSE stat.fault_request_num + 1
      /\ stat'.correct_request_num
           = IF gone = {} THEN stat.correct_request_num + 1 ELSE stat.correct_request_num
      /\ stat'.all_fault_bit_num + unnumbered' - 0
           = (stat.all_fault_bit_num + unnumbered - n) + Cardinality(gone)
  BY <1>1, <1>5, <1>6 DEF One
<1>8. gone = [c \in Cells |-> Pairs(data_block[c])][cell]
               \cap ([c \in Cells |-> HardPlaces(c)][cell] \cup failing)
  BY <1>2 DEF gone
<1>9. [c \in Cells |-> Pairs(data_block[c])]' = [c \in Cells |-> Pairs(data_block[c])]
  BY <1>1 DEF Pairs
<1> HIDE DEF failing, n
<1>10. Abstract!Judge(failing)
  <2>1. /\ [c \in Cells |-> HardPlaces(c)]' = [c \in Cells |-> HardPlaces(c)]
        /\ [c \in Cells |-> WeakPlaces(c)]' = [c \in Cells |-> WeakPlaces(c)]
    BY <1>1, PlacesStay
  <2> QED
    BY <1>1, <1>7, <1>8, <1>9, <2>1, SameCardinality DEF Abstract!Judge, n, InColumn
<1> QED BY <1>2, <1>10 DEF failing

\* The steps that FaultyMemory does not see.
Internal ==
  \/ AccessMemory \/ HardFaultError \/ VRTFaultError
  \/ CorrectColumn \/ MaskedColumn \/ ClassifyColumn \/ NumberRow \/ PrintRow
  \/ FaultColumn \/ ClassifyRequest \/ PrintFaultTrace
  \/ UNCHANGED vars

(* Every other step is none of FaultyMemory's.  A column that is checked adds *)
(* the same number to the lost bits and to the running total, and its rows    *)
(* move bits from the unnumbered ones to the numbered ones.                   *)
LEMMA RefinesStutter ==
  ASSUME Inv0, Internal
  PROVE  UNCHANGED Abstract!ledgerVars
<1>0. /\ stat \in [Counters -> Nat] /\ stat.all_fault_bit_num \in Nat
      /\ fault_count_in_BL \in Nat /\ unnumbered \in Nat
  BY CounterNames DEF Inv0, TypeOK, Stats
<1> USE DEF InColumn
<1> DEFINE busy == rpc \notin {"idle", "accepted", "trace"}
           total == IF rpc \in InColumn \cup {"check", "verdict"}
                      THEN fault_count_in_BL ELSE 0
           lost == stat.all_fault_bit_num + unnumbered - total
<1>1. /\ data_block' = data_block /\ fault_map' = fault_map /\ cell' = cell
      /\ busy' = busy
  <2>1. CASE CheckFaultMask
    <3>1. busy' = busy
      BY <2>1 DEF Internal, CorrectColumn, MaskedColumn, ClassifyColumn, NumberRow,
                  PrintRow, FaultColumn, ClassifyRequest, PrintFaultTrace,
                  AccessMemory, HardFaultError, VRTFaultError, vars, memVars
    <3> QED BY <2>1, <3>1, CheckLeavesData DEF arrayVars
  <2>2. CASE AccessMemory \/ HardFaultError \/ VRTFaultError \/ UNCHANGED vars
    BY <2>2 DEF AccessMemory, HardFaultError, VRTFaultError, vars, memVars,
                arrayVars, burstVars, cell
  <2> QED BY <2>1, <2>2 DEF Internal, CheckFaultMask
<1>2. [c \in Cells |-> Pairs(data_block[c])]' = [c \in Cells |-> Pairs(data_block[c])]
  BY <1>1 DEF Pairs
<1>3. /\ [c \in Cells |-> HardPlaces(c)]' = [c \in Cells |-> HardPlaces(c)]
      /\ [c \in Cells |-> WeakPlaces(c)]' = [c \in Cells |-> WeakPlaces(c)]
  BY <1>1, PlacesStay
<1>4. /\ stat'.fault_request_num = stat.fault_request_num
      /\ stat'.correct_request_num = stat.correct_request_num
      /\ lost' = lost
  <2> USE DEF OnlyCounts
  <2>1. CASE AccessMemory
    BY <1>0, <2>1, RequestCounters, CounterNames DEF AccessMemory, loopVars
  <2>2. CASE HardFaultError
    BY <1>0, <2>2, RequestCounters, CounterNames DEF HardFaultError, loopVars
  <2>3. CASE VRTFaultError
    BY <1>0, <2>3, RequestCounters, CounterNames DEF VRTFaultError
  <2>4. CASE CorrectColumn
    BY <1>0, <2>4, ColumnCounters, CounterNames DEF CorrectColumn
  <2>5. CASE MaskedColumn
    <3>1. column \in Burst /\ rpc = "check" /\ rpc' = "class" /\ unnumbered = 0
      BY <2>5, ShapeAssumption DEF MaskedColumn, Inv0, PlacesOK, TypeOK, Burst
    <3>2. PICK k \in Nat : /\ unnumbered' = k
                           /\ fault_count_in_BL' = fault_count_in_BL + k
      BY <2>5, <3>1, FaultCountType DEF MaskedColumn, Inv0
    <3> QED BY <1>0, <2>5, <3>1, <3>2, ColumnCounters, CounterNames
  <2>6. CASE ClassifyColumn
    BY <1>0, <2>6, ColumnCounters, CounterNames DEF ClassifyColumn
  <2>7. CASE NumberRow
    BY <1>0, <2>7, ColumnCounters, CounterNames DEF NumberRow
  <2>8. CASE PrintRow
    BY <1>0, <2>8 DEF PrintRow, loopVars
  <2>9. CASE FaultColumn
    BY <1>0, <2>9, ColumnCounters, CounterNames DEF FaultColumn
  <2>10. CASE ClassifyRequest
    BY <1>0, <2>10, VerdictCounters, CounterNames DEF ClassifyRequest, loopVars, BLCounters
  <2>11. CASE PrintFaultTrace
    BY <1>0, <2>11 DEF PrintFaultTrace, loopVars
  <2>12. CASE UNCHANGED vars
    BY <2>12 DEF vars, memVars, loopVars
  <2> QED
    BY <2>1, <2>2, <2>3, <2>4, <2>5, <2>6, <2>7, <2>8, <2>9, <2>10, <2>11, <2>12
       DEF Internal
<1> QED BY <1>1, <1>2, <1>3, <1>4 DEF Abstract!ledgerVars

(* RecvRequest serves every request as FaultyMemory does, for every array,   *)
(* fault map, fault model and number of requests: the bits it adds to the    *)
(* report are exactly the stored ones that the hard faults of the addressed  *)
(* cell and some of its weak bits pull down, and nothing else changes.       *)
THEOREM ServesAsFaultyMemory == Spec => ImplementsFaultyMemory
<1> DEFINE RefInv == Inv0 /\ MaskInv /\ TotalInv
<1>1. Init => MaskInv /\ TotalInv
  BY DEF Init, MemInit, MaskInv, TotalInv, Totalling, Checking, InColumn
<1>2. Spec => []RefInv
  BY InitInv0, NextInv0, NextMask, NextTotal, <1>1, PTL DEF Spec
<1>3. RefInv /\ [Next]_vars => [Abstract!Next]_(Abstract!ledgerVars)
  <2> SUFFICES ASSUME Inv0, MaskInv, TotalInv, [Next]_vars
               PROVE  Abstract!Next \/ UNCHANGED Abstract!ledgerVars
    OBVIOUS
  <2>1. ASSUME NEW addr \in Addresses, NEW data \in DataPatterns,
               NEW is_write \in BOOLEAN, RecvRequest(addr, data, is_write)
        PROVE  Abstract!Next
    <3>1. Decode[addr] \in Cells /\ Pairs(data) \in SUBSET (Burst \X Bits)
      BY MappingAssumption DEF Pairs
    <3>2. Abstract!Accept(Decode[addr], Pairs(data))
      BY <2>1, RefinesAccept
    <3> QED BY <3>1, <3>2 DEF Abstract!Next
  <2>2. CASE JudgeRequest
    <3> DEFINE failing == Pairs(ErrorMask) \cap WeakPlaces(cell)
    <3>1. Abstract!Judge(failing) /\ cell \in Cells
      BY <2>2, RefinesJudge
    <3>2. failing \in SUBSET [c \in Cells |-> WeakPlaces(c)][cell]
      BY <3>1
    <3> HIDE DEF failing
    <3> QED BY <3>1, <3>2 DEF Abstract!Next
  <2>3. CASE Internal
    BY <2>3, RefinesStutter
  <2> QED BY <2>1, <2>2, <2>3 DEF Next, Serve, CheckFaultMask, Internal
<1> QED
  BY RefinesInit, <1>2, <1>3, PTL DEF Spec, ImplementsFaultyMemory, Abstract!Spec
=============================================================================
