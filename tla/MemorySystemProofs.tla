------------------------- MODULE MemorySystemProofs -------------------------
(***************************************************************************)
(* Theorems of MemorySystem, for every array, burst length, bus width,     *)
(* fault map and number of requests.                                       *)
(***************************************************************************)
EXTENDS MemorySystem, FiniteSetTheorems, TLAPS

-----------------------------------------------------------------------------
(* Finite sets of bits and of places in a burst. *)

(* The places of a word can be counted. *)
LEMMA PlacesFinite ==
  /\ IsFiniteSet(Bits) /\ IsFiniteSet(Burst)
  /\ IsFiniteSet(Burst \X Bits)
<1>1. IsFiniteSet(Bits)
  BY ShapeAssumption, FS_Interval DEF Bits
<1>2. IsFiniteSet(Burst)
  BY ShapeAssumption, FS_Interval DEF Burst
<1> QED
  BY <1>1, <1>2, FS_Product

(* A word with no 1 bit is the empty one, and the others can be counted. *)
LEMMA WordCardinality ==
  ASSUME NEW w \in Words
  PROVE  /\ IsFiniteSet(w)
         /\ Cardinality(w) \in Nat
         /\ Cardinality(w) = 0 <=> w = {}
<1>1. IsFiniteSet(w)
  BY PlacesFinite, FS_Subset DEF Words
<1> QED
  BY <1>1, FS_CardinalityType, FS_EmptySet

(* So can the places of a burst. *)
LEMMA PairsCardinality ==
  ASSUME NEW w
  PROVE  IsFiniteSet(Pairs(w)) /\ Cardinality(Pairs(w)) \in Nat
<1>1. Pairs(w) \subseteq Burst \X Bits
  BY DEF Pairs
<1> QED
  BY <1>1, PlacesFinite, FS_Subset, FS_CardinalityType

(* The counters named in the properties are counters. *)
LEMMA CounterNames ==
  /\ "executed_request_num" \in Counters
  /\ "fault_request_num" \in Counters
  /\ "correct_request_num" \in Counters
  /\ "executed_column_num" \in Counters
  /\ "fault_column_num" \in Counters
  /\ "correct_column_num" \in Counters
  /\ "all_fault_bit_num" \in Counters
  /\ "hard_fault_bit_num" \in Counters
  /\ "vrt_fault_bit_num" \in Counters
  /\ "single_fault_in_column_num" \in Counters
  /\ "double_fault_in_column_num" \in Counters
  /\ "triple_fault_in_column_num" \in Counters
  /\ "others_fault_in_column_num" \in Counters
  /\ "single_fault_in_BL_num" \in Counters
  /\ "double_fault_in_BL_num" \in Counters
  /\ "triple_fault_in_BL_num" \in Counters
  /\ "others_fault_in_BL_num" \in Counters
BY DEF Counters, BLCounters

-----------------------------------------------------------------------------
(* Types.  The fault map is one of the possible ones for ever, so the       *)
(* entries VRTFaultError visits exist; the loop of CheckFaultMask is inside *)
(* the burst while it looks at a column, and past it for the verdict.       *)

PlacesOK ==
  /\ rpc \in InColumn => column < BL
  /\ rpc = "verdict" => column = BL
  /\ rpc \notin InColumn => unnumbered = 0

Inv0 == TypeOK /\ fault_map \in FaultMaps /\ PlacesOK

(* VRTFaultError never indexes behind a vector. *)
LEMMA EntriesExist ==
  ASSUME Inv0, NEW e \in Entries
  PROVE  /\ e \in Burst \X Nat
         /\ e[1] \in Burst
         /\ e[2] \in 1 .. fault_map[cell][e[1]].vrt_size
         /\ Entry(e) \in VrtEntries
         /\ VrtBit(e) \in Bits
<1>1. cell \in Cells
  BY MappingAssumption DEF Inv0, TypeOK, cell
<1>2. PICK i \in Burst : e \in {i} \X (1 .. fault_map[cell][i].vrt_size)
  BY DEF Entries
<1>3. fault_map[cell][i] \in FaultStructs
  BY <1>1 DEF Inv0, TypeOK
<1>4. fault_map[cell][i].vrt_size <= Len(fault_map[cell][i].vrt)
  BY <1>1, FaultMapAssumption DEF Inv0
<1>5. e[1] = i /\ e[2] \in 1 .. fault_map[cell][i].vrt_size
  BY <1>2
<1>6. fault_map[cell][i].vrt[e[2]] \in VrtEntries
  BY <1>3, <1>4, <1>5 DEF FaultStructs
<1>7. VrtBit(e) \in Bits
  BY <1>5, <1>6, ShapeAssumption DEF VrtBit, Entry, VrtEntries, Bits
<1>8. e \in Burst \X Nat
  BY <1>2, <1>3 DEF FaultStructs
<1> QED
  BY <1>5, <1>6, <1>7, <1>8 DEF Entry

(* The entries of a burst can be counted. *)
LEMMA EntriesFinite ==
  ASSUME Inv0
  PROVE  IsFiniteSet(Entries)
<1>1. cell \in Cells
  BY MappingAssumption DEF Inv0, TypeOK, cell
<1> DEFINE Slice(i) == {i} \X (1 .. fault_map[cell][i].vrt_size)
<1> DEFINE Slices == {Slice(i) : i \in Burst}
<1>2. \A i \in Burst : IsFiniteSet(Slice(i))
  <2> SUFFICES ASSUME NEW i \in Burst
               PROVE  IsFiniteSet(Slice(i))
    OBVIOUS
  <2>1. fault_map[cell][i].vrt_size \in Nat
    BY <1>1 DEF Inv0, TypeOK, FaultStructs
  <2>2. IsFiniteSet(1 .. fault_map[cell][i].vrt_size)
    BY <2>1, FS_Interval
  <2>3. IsFiniteSet({i})
    BY FS_Singleton
  <2> QED
    BY <2>2, <2>3, FS_Product
<1>3. IsFiniteSet(Slices)
  <2> DEFINE f == [i \in Burst |-> Slice(i)]
  <2>1. f \in Surjection(Burst, Slices)
    BY DEF Surjection
  <2> QED
    BY <2>1, PlacesFinite, FS_Surjection
<1>4. \A S \in Slices : IsFiniteSet(S)
  BY <1>2
<1>5. IsFiniteSet(UNION Slices)
  BY <1>3, <1>4, FS_UNION
<1> QED
  BY <1>5 DEF Entries

(* The mask of the hard faults is a burst of words, *)
LEMMA HardMaskType ==
  ASSUME Inv0
  PROVE  HardMask \in [Burst -> Words]
<1>1. cell \in Cells
  BY MappingAssumption DEF Inv0, TypeOK, cell
<1>2. \A i \in Burst : fault_map[cell][i].hardfault \in Words
  BY <1>1 DEF Inv0, TypeOK, FaultStructs
<1> QED
  BY <1>2 DEF Inv0, TypeOK, HardMask, Words

\* The mask of VRTFaultError, named for the proofs.
VrtMask(fired) ==
  [i \in Burst |->
     ErrorMask[i] \cup {VrtBit(e) : e \in {f \in fired : f[1] = i}}]

(* and stays one with the fired entries. *)
LEMMA VrtMaskType ==
  ASSUME Inv0, NEW fired \in SUBSET Entries
  PROVE  /\ VrtMask(fired) \in [Burst -> Words]
         /\ IsFiniteSet(fired) /\ Cardinality(fired) \in Nat
         /\ {cell} \X fired \subseteq Cells \X (Burst \X Nat)
<1>1. \A e \in fired : VrtBit(e) \in Bits /\ e \in Burst \X Nat
  BY EntriesExist
<1>2. VrtMask(fired) \in [Burst -> Words]
  BY <1>1 DEF VrtMask, Words, Inv0, TypeOK
<1>3. IsFiniteSet(fired) /\ Cardinality(fired) \in Nat
  BY EntriesFinite, FS_Subset, FS_CardinalityType
<1>4. cell \in Cells
  BY MappingAssumption DEF Inv0, TypeOK, cell
<1> QED
  BY <1>1, <1>2, <1>3, <1>4

(* The faults of a request are counted by a natural number. *)
LEMMA FaultCountType ==
  ASSUME TypeOK, NEW i \in Burst
  PROVE  /\ FaultCountInColumn(i) \in Nat
         /\ FaultCountInColumn(i) = 0 <=> ErrorMask[i] \cap data_block[cell][i] = {}
<1>1. ErrorMask[i] \cap data_block[cell][i] \in Words
  BY DEF TypeOK, Words
<1> QED
  BY <1>1, WordCardinality DEF FaultCountInColumn

(* The memory starts with its types. *)
LEMMA InitInv0 == Init => Inv0
<1> SUFFICES ASSUME Init
             PROVE  Inv0
  OBVIOUS
<1>1. stat \in Stats
  <2>1. PICK bl \in [BLCounters -> 0 .. MaxCarried] :
          stat = [c \in Counters |-> IF c \in BLCounters THEN bl[c] ELSE 0]
    BY DEF Init
  <2>2. \A c \in BLCounters : bl[c] \in Nat
    BY <2>1, ShapeAssumption
  <2> QED
    BY <2>1, <2>2 DEF Stats
<1>2. fault_map \in FaultMaps
  BY DEF Init, MemInit
<1>3. fault_map \in [Cells -> [Burst -> FaultStructs]]
  BY <1>2, FaultMapAssumption
<1>4. data_block \in [Cells -> [Burst -> Words]]
  BY DataAssumption DEF Init, MemInit
<1>5. fault_data \in [Burst -> Words] /\ gen_data \in [Burst -> Words]
  BY DEF Init, MemInit, Words
<1>6. column \in 0 .. BL
  BY ShapeAssumption DEF Init, MemInit
<1> QED
  BY <1>1, <1>2, <1>3, <1>4, <1>5, <1>6
     DEF Inv0, TypeOK, PlacesOK, InColumn, Init, MemInit

\* A step of a request, however many there have been.
Call ==
  \/ AccessMemory
  \/ \E addr \in Addresses, data \in DataPatterns, is_write \in BOOLEAN :
       RecvRequest(addr, data, is_write)
  \/ Serve

\* A step changes no counter but these.
OnlyCounts(C) == \A c \in Counters \ C : stat'[c] = stat[c]

(* What the steps before the columns are checked do to the counters. *)
LEMMA RequestCounters ==
  ASSUME Inv0
  PROVE  /\ AccessMemory =>
              /\ stat' \in Stats
              /\ stat'.executed_request_num = stat.executed_request_num + 1
              /\ OnlyCounts({"executed_request_num"})
         /\ \A addr, data, is_write :
              RecvRequest(addr, data, is_write) =>
                /\ stat' \in Stats
                /\ stat'.executed_column_num = stat.executed_column_num + BL
                /\ OnlyCounts({"executed_column_num"})
         /\ HardFaultError =>
              /\ stat' \in Stats
              /\ stat'.hard_fault_bit_num = stat.hard_fault_bit_num + HardFaultCount
              /\ OnlyCounts({"hard_fault_bit_num"})
         /\ VRTFaultError =>
              \E fired \in SUBSET Entries :
                /\ stat' \in Stats
                /\ ErrorMask' = VrtMask(fired)
                /\ stat'.vrt_fault_bit_num = stat.vrt_fault_bit_num + Cardinality(fired)
                /\ OnlyCounts({"vrt_fault_bit_num"})
<1>0. stat \in [Counters -> Nat] /\ BL \in Nat
  BY ShapeAssumption DEF Inv0, TypeOK, Stats
<1> USE DEF OnlyCounts, Stats
<1>1. ASSUME AccessMemory
      PROVE  /\ stat' \in Stats
             /\ stat'.executed_request_num = stat.executed_request_num + 1
             /\ OnlyCounts({"executed_request_num"})
  BY <1>0, <1>1, CounterNames DEF AccessMemory
<1>2. ASSUME NEW addr, NEW data, NEW is_write, RecvRequest(addr, data, is_write)
      PROVE  /\ stat' \in Stats
             /\ stat'.executed_column_num = stat.executed_column_num + BL
             /\ OnlyCounts({"executed_column_num"})
  BY <1>0, <1>2, CounterNames DEF RecvRequest
<1>3. ASSUME HardFaultError
      PROVE  /\ stat' \in Stats
             /\ stat'.hard_fault_bit_num = stat.hard_fault_bit_num + HardFaultCount
             /\ OnlyCounts({"hard_fault_bit_num"})
  <2>1. HardFaultCount \in Nat
    BY PairsCardinality DEF HardFaultCount
  <2> QED
    BY <1>0, <1>3, <2>1, CounterNames DEF HardFaultError
<1>4. ASSUME VRTFaultError
      PROVE  \E fired \in SUBSET Entries :
               /\ stat' \in Stats
               /\ ErrorMask' = VrtMask(fired)
               /\ stat'.vrt_fault_bit_num = stat.vrt_fault_bit_num + Cardinality(fired)
               /\ OnlyCounts({"vrt_fault_bit_num"})
  <2>1. PICK fired \in SUBSET Entries :
          /\ ErrorMask' = VrtMask(fired)
          /\ stat' = [stat EXCEPT !.vrt_fault_bit_num = @ + Cardinality(fired)]
    BY <1>4 DEF VRTFaultError, VrtMask
  <2>2. PICK n \in Nat : n = Cardinality(fired)
    BY VrtMaskType
  <2>3. stat' = [stat EXCEPT !.vrt_fault_bit_num = @ + n]
    BY <2>1, <2>2
  <2>4. /\ stat' \in Stats
        /\ stat'.vrt_fault_bit_num = stat.vrt_fault_bit_num + n
        /\ OnlyCounts({"vrt_fault_bit_num"})
    BY <1>0, <2>3, CounterNames
  <2> QED
    BY <2>1, <2>2, <2>4
<1> HIDE DEF OnlyCounts, Stats
<1> QED
  BY <1>1, <1>2, <1>3, <1>4

(* What the steps of CheckFaultMask's loop do to them, *)
LEMMA ColumnCounters ==
  ASSUME Inv0
  PROVE  /\ CorrectColumn =>
              /\ stat' \in Stats
              /\ stat'.correct_column_num = stat.correct_column_num + 1
              /\ OnlyCounts({"correct_column_num"})
         /\ MaskedColumn =>
              /\ stat' \in Stats
              /\ stat'.single_fault_in_column_num
                   = stat.single_fault_in_column_num + One(unnumbered' = 1)
              /\ stat'.double_fault_in_column_num
                   = stat.double_fault_in_column_num + One(unnumbered' = 2)
              /\ OnlyCounts({"single_fault_in_column_num", "double_fault_in_column_num"})
         /\ ClassifyColumn =>
              /\ stat' \in Stats
              /\ stat'.triple_fault_in_column_num
                   = stat.triple_fault_in_column_num + One(unnumbered = 3)
              /\ OnlyCounts({"triple_fault_in_column_num", "others_fault_in_column_num"})
         /\ NumberRow =>
              /\ stat' \in Stats
              /\ stat'.all_fault_bit_num = stat.all_fault_bit_num + 1
              /\ OnlyCounts({"all_fault_bit_num"})
         /\ FaultColumn =>
              /\ stat' \in Stats
              /\ stat'.fault_column_num = stat.fault_column_num + 1
              /\ OnlyCounts({"fault_column_num"})
<1>0. stat \in [Counters -> Nat]
  BY DEF Inv0, TypeOK, Stats
<1> USE DEF OnlyCounts, Stats
<1>1. ASSUME CorrectColumn
      PROVE  /\ stat' \in Stats
             /\ stat'.correct_column_num = stat.correct_column_num + 1
             /\ OnlyCounts({"correct_column_num"})
  BY <1>0, <1>1, CounterNames DEF CorrectColumn
<1>2. ASSUME MaskedColumn
      PROVE  /\ stat' \in Stats
             /\ stat'.single_fault_in_column_num
                  = stat.single_fault_in_column_num + One(unnumbered' = 1)
             /\ stat'.double_fault_in_column_num
                  = stat.double_fault_in_column_num + One(unnumbered' = 2)
             /\ OnlyCounts({"single_fault_in_column_num", "double_fault_in_column_num"})
  <2>1. /\ unnumbered' = FaultCountInColumn(column)
        /\ stat' = [stat EXCEPT
             !.single_fault_in_column_num = @ + One(FaultCountInColumn(column) = 1),
             !.double_fault_in_column_num = @ + One(FaultCountInColumn(column) = 2)]
    BY <1>2 DEF MaskedColumn
  <2>2. PICK a \in Nat, b \in Nat :
          a = One(unnumbered' = 1) /\ b = One(unnumbered' = 2)
    BY DEF One
  <2>3. stat' = [stat EXCEPT !.single_fault_in_column_num = @ + a,
                            !.double_fault_in_column_num = @ + b]
    BY <2>1, <2>2, Zenon
  <2>4. /\ stat' \in Stats
        /\ stat'.single_fault_in_column_num = stat.single_fault_in_column_num + a
        /\ stat'.double_fault_in_column_num = stat.double_fault_in_column_num + b
        /\ OnlyCounts({"single_fault_in_column_num", "double_fault_in_column_num"})
    <3>1. stat' = [c \in Counters |->
                    IF c = "single_fault_in_column_num" THEN stat[c] + a
                    ELSE IF c = "double_fault_in_column_num" THEN stat[c] + b
                    ELSE stat[c]]
      BY <1>0, <2>3, CounterNames
    <3> QED
      BY <1>0, <3>1, CounterNames
  <2> QED
    BY <2>2, <2>4
<1>3. ASSUME ClassifyColumn
      PROVE  /\ stat' \in Stats
             /\ stat'.triple_fault_in_column_num
                  = stat.triple_fault_in_column_num + One(unnumbered = 3)
             /\ OnlyCounts({"triple_fault_in_column_num", "others_fault_in_column_num"})
  <2>1. PICK a \in Nat, b \in Nat :
          a = One(unnumbered = 3) /\ b = One(unnumbered # 3)
    BY DEF One
  <2>2. stat' = [stat EXCEPT !.triple_fault_in_column_num = @ + a,
                            !.others_fault_in_column_num = @ + b]
    BY <1>3, <2>1 DEF ClassifyColumn
  <2>3. /\ stat' \in Stats
        /\ stat'.triple_fault_in_column_num = stat.triple_fault_in_column_num + a
        /\ OnlyCounts({"triple_fault_in_column_num", "others_fault_in_column_num"})
    <3>1. stat' = [c \in Counters |->
                    IF c = "triple_fault_in_column_num" THEN stat[c] + a
                    ELSE IF c = "others_fault_in_column_num" THEN stat[c] + b
                    ELSE stat[c]]
      BY <1>0, <2>2, CounterNames
    <3> QED
      BY <1>0, <3>1, CounterNames
  <2> QED
    BY <2>1, <2>3
<1>4. ASSUME NumberRow
      PROVE  /\ stat' \in Stats
             /\ stat'.all_fault_bit_num = stat.all_fault_bit_num + 1
             /\ OnlyCounts({"all_fault_bit_num"})
  BY <1>0, <1>4, CounterNames DEF NumberRow, CountBit
<1>5. ASSUME FaultColumn
      PROVE  /\ stat' \in Stats
             /\ stat'.fault_column_num = stat.fault_column_num + 1
             /\ OnlyCounts({"fault_column_num"})
  BY <1>0, <1>5, CounterNames DEF FaultColumn
<1> HIDE DEF OnlyCounts, Stats
<1> QED
  BY <1>1, <1>2, <1>3, <1>4, <1>5

(* and those of its verdict.  The row and the trace line count nothing. *)
LEMMA VerdictCounters ==
  ASSUME Inv0
  PROVE  /\ ClassifyRequest => stat' \in Stats /\ OnlyCounts(BLCounters)
         /\ JudgeRequest =>
              /\ stat' \in Stats
              /\ stat'.fault_request_num
                   = stat.fault_request_num + One(fault_count_in_BL # 0)
              /\ stat'.correct_request_num
                   = stat.correct_request_num + One(fault_count_in_BL = 0)
              /\ OnlyCounts({"fault_request_num", "correct_request_num"})
         /\ PrintRow \/ PrintFaultTrace => stat' = stat
<1>0. stat \in [Counters -> Nat]
  BY DEF Inv0, TypeOK, Stats
<1> USE DEF OnlyCounts, Stats
<1>1. ASSUME ClassifyRequest
      PROVE  stat' \in Stats /\ OnlyCounts(BLCounters)
  <2>1. PICK a \in Nat, b \in Nat, c \in Nat, d \in Nat :
          /\ a = One(fault_count_in_BL = 1) /\ b = One(fault_count_in_BL = 2)
          /\ c = One(fault_count_in_BL = 3) /\ d = One(fault_count_in_BL >= 4)
    BY DEF One
  <2>2. stat' = [stat EXCEPT !.single_fault_in_BL_num = @ + a,
                            !.double_fault_in_BL_num = @ + b,
                            !.triple_fault_in_BL_num = @ + c,
                            !.others_fault_in_BL_num = @ + d]
    BY <1>1, <2>1 DEF ClassifyRequest
  <2>3. stat' = [x \in Counters |->
                  IF x = "single_fault_in_BL_num" THEN stat[x] + a
                  ELSE IF x = "double_fault_in_BL_num" THEN stat[x] + b
                  ELSE IF x = "triple_fault_in_BL_num" THEN stat[x] + c
                  ELSE IF x = "others_fault_in_BL_num" THEN stat[x] + d
                  ELSE stat[x]]
    BY <1>0, <2>2, CounterNames
  <2> QED
    BY <1>0, <2>3, CounterNames DEF BLCounters
<1>2. ASSUME JudgeRequest
      PROVE  /\ stat' \in Stats
             /\ stat'.fault_request_num
                  = stat.fault_request_num + One(fault_count_in_BL # 0)
             /\ stat'.correct_request_num
                  = stat.correct_request_num + One(fault_count_in_BL = 0)
             /\ OnlyCounts({"fault_request_num", "correct_request_num"})
  <2>1. PICK a \in Nat, b \in Nat :
          a = One(fault_count_in_BL # 0) /\ b = One(fault_count_in_BL = 0)
    BY DEF One
  <2>2. stat' = [stat EXCEPT !.fault_request_num = @ + a, !.correct_request_num = @ + b]
    BY <1>2, <2>1 DEF JudgeRequest, CountVerdict
  <2>3. /\ stat' \in Stats
        /\ stat'.fault_request_num = stat.fault_request_num + a
        /\ stat'.correct_request_num = stat.correct_request_num + b
        /\ OnlyCounts({"fault_request_num", "correct_request_num"})
    <3>1. stat' = [c \in Counters |->
                    IF c = "fault_request_num" THEN stat[c] + a
                    ELSE IF c = "correct_request_num" THEN stat[c] + b
                    ELSE stat[c]]
      BY <1>0, <2>2, CounterNames
    <3> QED
      BY <1>0, <3>1, CounterNames
  <2> QED
    BY <2>1, <2>3
<1>3. PrintRow \/ PrintFaultTrace => stat' = stat
  BY DEF PrintRow, PrintFaultTrace
<1> HIDE DEF OnlyCounts, Stats
<1> QED
  BY <1>1, <1>2, <1>3

(* CheckFaultMask only looks at the array and the request's buffers. *)
LEMMA CheckLeavesData ==
  ASSUME CheckFaultMask
  PROVE  /\ UNCHANGED <<arrayVars, burstVars>>
         /\ cell' = cell
         /\ rpc \in Checking /\ rpc' \in Checking \cup {"idle"}
BY DEF CheckFaultMask, CorrectColumn, MaskedColumn, ClassifyColumn, NumberRow,
       PrintRow, FaultColumn, ClassifyRequest, JudgeRequest, PrintFaultTrace,
       Checking, InColumn, burstVars, cell

(* A call takes typed states to typed states, one action at a time. *)
LEMMA CallInv0 == Inv0 /\ [Call]_vars => Inv0'
<1> SUFFICES ASSUME Inv0, [Call]_vars
             PROVE  Inv0'
  OBVIOUS
<1> USE DEF Inv0, PlacesOK, Checking, InColumn, arrayVars, burstVars, loopVars, reportVars
<1>1. CASE AccessMemory
  BY <1>1, RequestCounters DEF AccessMemory, TypeOK
<1>2. ASSUME NEW addr \in Addresses, NEW data \in DataPatterns,
             NEW is_write \in BOOLEAN, RecvRequest(addr, data, is_write)
      PROVE  Inv0'
  <2>1. stat' \in Stats
    BY <1>2, RequestCounters
  <2>2. data \in [Burst -> Words]
    BY DataAssumption
  <2>3. Decode[addr] \in Cells
    BY MappingAssumption
  <2>4. data_block' \in [Cells -> [Burst -> Words]]
    BY <1>2, <2>2, <2>3 DEF RecvRequest, Read, Write, TypeOK
  <2>5. ErrorMask' \in [Burst -> Words]
    BY <1>2 DEF RecvRequest, ClearedErrorMask, Words
  <2> QED
    BY <1>2, <2>1, <2>2, <2>4, <2>5 DEF RecvRequest, TypeOK
<1>3. CASE HardFaultError
  BY <1>3, RequestCounters, HardMaskType DEF HardFaultError, TypeOK
<1>4. CASE VRTFaultError
  <2>1. PICK roll \in [Entries -> Rolls] :
          LET fired == {e \in Entries : Fires(Entry(e).prob, roll[e])}
          IN /\ ErrorMask' = VrtMask(fired)
             /\ vrt_prev' = (vrt_prev \ ({cell} \X Entries)) \cup ({cell} \X fired)
             /\ fault_data' = FaultData(VrtMask(fired))
    BY <1>4 DEF VRTFaultError, VrtMask
  <2> DEFINE fired == {e \in Entries : Fires(Entry(e).prob, roll[e])}
  <2>2. fired \in SUBSET Entries
    OBVIOUS
  <2> HIDE DEF fired
  <2>3. /\ ErrorMask' \in [Burst -> Words]
        /\ {cell} \X fired \subseteq Cells \X (Burst \X Nat)
    BY <2>1, <2>2, VrtMaskType DEF fired
  <2>4. stat' \in Stats
    BY <1>4, RequestCounters
  <2>5. vrt_prev' \subseteq Cells \X (Burst \X Nat)
    BY <2>1, <2>3 DEF TypeOK, fired
  <2>6. fault_data' \in [Burst -> Words]
    BY <2>1 DEF FaultData, TypeOK, Words
  <2>7. column' \in 0 .. BL /\ fault_count_in_BL' \in Nat
    BY <1>4, ShapeAssumption DEF VRTFaultError
  <2> QED
    BY <1>4, <2>3, <2>4, <2>5, <2>6, <2>7 DEF VRTFaultError, TypeOK
<1>5. CASE CorrectColumn
  <2>1. column + 1 \in 0 .. BL
    BY <1>5, ShapeAssumption DEF CorrectColumn, TypeOK
  <2> QED
    BY <1>5, <2>1, ColumnCounters DEF CorrectColumn, TypeOK
<1>6. CASE MaskedColumn
  <2>1. column \in Burst
    BY <1>6, ShapeAssumption DEF MaskedColumn, TypeOK, Burst
  <2>2. FaultCountInColumn(column) \in Nat
    BY <2>1, FaultCountType
  <2> QED
    BY <1>6, <2>2, ColumnCounters DEF MaskedColumn, TypeOK
<1>7. CASE ClassifyColumn
  <2>1. column + 1 \in 0 .. BL /\ column < BL
    BY <1>7, ShapeAssumption DEF ClassifyColumn, TypeOK
  <2> QED
    BY <1>7, <2>1, ColumnCounters DEF ClassifyColumn, ReportColumn, TypeOK
<1>8. CASE NumberRow
  BY <1>8, ColumnCounters DEF NumberRow, TypeOK
<1>9. CASE PrintRow
  BY <1>9 DEF PrintRow, TypeOK
<1>10. CASE FaultColumn
  <2>1. column + 1 \in 0 .. BL
    BY <1>10, ShapeAssumption DEF FaultColumn, TypeOK
  <2> QED
    BY <1>10, <2>1, ColumnCounters DEF FaultColumn, TypeOK
<1>11. CASE ClassifyRequest
  BY <1>11, VerdictCounters DEF ClassifyRequest, TypeOK
<1>12. CASE JudgeRequest
  BY <1>12, VerdictCounters DEF JudgeRequest, TypeOK
<1>13. CASE PrintFaultTrace
  BY <1>13 DEF PrintFaultTrace, TypeOK
<1>14. CASE UNCHANGED vars
  BY <1>14 DEF vars, memVars, TypeOK
<1> QED
  BY <1>1, <1>2, <1>3, <1>4, <1>5, <1>6, <1>7, <1>8, <1>9, <1>10, <1>11, <1>12,
     <1>13, <1>14 DEF Call, Serve, CheckFaultMask

(* A step of the module is one of a call. *)
LEMMA NextIsCall == [Next]_vars => [Call]_vars
BY DEF Next, Call

(* So does the step from one state to the next. *)
LEMMA NextInv0 == Inv0 /\ [Next]_vars => Inv0'
BY NextIsCall, CallInv0

(* Every variable keeps its type, and in particular the shift by            *)
(* (bus_width - 1) - bit of VRTFaultError never leaves the word.            *)
THEOREM TypeCorrect == Spec => []TypeOK
<1>1. Spec => []Inv0
  BY InitInv0, NextInv0, PTL DEF Spec
<1>2. Inv0 => TypeOK
  BY DEF Inv0
<1> QED
  BY <1>1, <1>2, PTL

-----------------------------------------------------------------------------
(* The request and column ledgers. *)

(* Every counted request is judged exactly once, and the columns never claim *)
(* more than was executed, in every state a signal handler can print.        *)
LedgerInv == RequestsBalance /\ ColumnsNotOvercounted

(* The ledger is balanced at first. *)
LEMMA InitLedger == Init => LedgerInv
<1> SUFFICES ASSUME Init
             PROVE  LedgerInv
  OBVIOUS
<1>1. PICK bl \in [BLCounters -> 0 .. MaxCarried] :
        stat = [c \in Counters |-> IF c \in BLCounters THEN bl[c] ELSE 0]
  BY DEF Init
<1>2. \A c \in Counters \ BLCounters : stat[c] = 0
  BY <1>1
<1>3. /\ stat.executed_request_num = 0 /\ stat.fault_request_num = 0
      /\ stat.correct_request_num = 0 /\ stat.executed_column_num = 0
      /\ stat.fault_column_num = 0    /\ stat.correct_column_num = 0
  BY <1>2 DEF Counters, BLCounters
<1>4. rpc = "idle" /\ BL * 0 = 0
  BY ShapeAssumption DEF Init, MemInit
<1>5. RequestsBalance
  BY <1>3, <1>4 DEF RequestsBalance, One
<1>6. ColumnsNotOvercounted
  BY <1>3, <1>4 DEF ColumnsNotOvercounted, UncheckedColumns, Checking, InColumn
<1> QED
  BY <1>5, <1>6 DEF LedgerInv

(* Every step keeps it. *)
LEMMA NextLedger == Inv0 /\ LedgerInv /\ [Next]_vars => LedgerInv'
<1> SUFFICES ASSUME Inv0, LedgerInv, [Next]_vars
             PROVE  LedgerInv'
  OBVIOUS
<1>0. /\ stat.executed_request_num \in Nat /\ stat.fault_request_num \in Nat
      /\ stat.correct_request_num \in Nat  /\ stat.executed_column_num \in Nat
      /\ stat.fault_column_num \in Nat     /\ stat.correct_column_num \in Nat
      /\ column \in 0 .. BL /\ BL \in Nat
  BY CounterNames, ShapeAssumption DEF Inv0, TypeOK, Stats
<1> DEFINE Same(C) ==
      /\ "requests" \in C =>
           /\ stat'.executed_request_num = stat.executed_request_num
           /\ stat'.executed_column_num = stat.executed_column_num
      /\ "verdicts" \in C =>
           /\ stat'.fault_request_num = stat.fault_request_num
           /\ stat'.correct_request_num = stat.correct_request_num
      /\ "columns" \in C =>
           /\ stat'.fault_column_num = stat.fault_column_num
           /\ stat'.correct_column_num = stat.correct_column_num
<1> DEFINE InProgress == rpc \notin {"idle", "trace"}
\* Steps that leave the ledgers alone.
<1>a. ASSUME Same({"requests", "verdicts", "columns"}),
             rpc # "accepted", rpc' # "accepted", InProgress <=> InProgress',
             UncheckedColumns' \in Nat, UncheckedColumns' <= UncheckedColumns
      PROVE  LedgerInv'
  <2>1. One(InProgress) = One(InProgress') /\ One(rpc = "accepted") = One((rpc = "accepted")')
    BY <1>a DEF One
  <2>2. RequestsBalance'
    BY <1>0, <1>a, <2>1 DEF LedgerInv, RequestsBalance
  <2>3. UncheckedColumns \in Nat
    BY <1>0 DEF UncheckedColumns
  <2>4. ColumnsNotOvercounted'
    BY <1>0, <1>a, <2>3 DEF LedgerInv, ColumnsNotOvercounted
  <2> QED
    BY <2>2, <2>4 DEF LedgerInv
<1> USE DEF OnlyCounts, Inv0, PlacesOK, Checking, InColumn, UncheckedColumns
<1>1. CASE AccessMemory
  <2>1. /\ stat'.executed_request_num = stat.executed_request_num + 1
        /\ stat'.executed_column_num = stat.executed_column_num
        /\ Same({"verdicts", "columns"})
    BY <1>1, RequestCounters, CounterNames
  <2>2. rpc = "idle" /\ rpc' = "accepted"
    BY <1>1 DEF AccessMemory
  <2>3. BL * (stat.executed_request_num + 1) = BL * stat.executed_request_num + BL
    BY <1>0
  <2> QED
    BY <1>0, <2>1, <2>2, <2>3 DEF LedgerInv, RequestsBalance, ColumnsNotOvercounted, One
<1>2. ASSUME NEW addr \in Addresses, NEW data \in DataPatterns,
             NEW is_write \in BOOLEAN, RecvRequest(addr, data, is_write)
      PROVE  LedgerInv'
  <2>1. /\ stat'.executed_request_num = stat.executed_request_num
        /\ stat'.executed_column_num = stat.executed_column_num + BL
        /\ Same({"verdicts", "columns"})
    BY <1>2, RequestCounters, CounterNames
  <2>2. rpc = "accepted" /\ rpc' = "hard"
    BY <1>2 DEF RecvRequest
  <2> QED
    BY <1>0, <2>1, <2>2 DEF LedgerInv, RequestsBalance, ColumnsNotOvercounted, One
<1>3. CASE HardFaultError
  <2>1. Same({"requests", "verdicts", "columns"})
    BY <1>3, RequestCounters, CounterNames
  <2> QED
    BY <1>0, <1>3, <1>a, <2>1 DEF HardFaultError
<1>4. CASE VRTFaultError
  <2>1. Same({"requests", "verdicts", "columns"})
    BY <1>4, RequestCounters, CounterNames
  <2> QED
    BY <1>0, <1>4, <1>a, <2>1 DEF VRTFaultError
<1>5. CASE CorrectColumn
  <2>1. /\ Same({"requests", "verdicts"})
        /\ stat'.fault_column_num = stat.fault_column_num
        /\ stat'.correct_column_num = stat.correct_column_num + 1
    BY <1>5, ColumnCounters, CounterNames
  <2>2. rpc = "check" /\ rpc' = "check" /\ column' = column + 1
    BY <1>5 DEF CorrectColumn
  <2> QED
    BY <1>0, <2>1, <2>2 DEF LedgerInv, RequestsBalance, ColumnsNotOvercounted, One
<1>6. CASE FaultColumn
  <2>1. /\ Same({"requests", "verdicts"})
        /\ stat'.fault_column_num = stat.fault_column_num + 1
        /\ stat'.correct_column_num = stat.correct_column_num
    BY <1>6, ColumnCounters, CounterNames
  <2>2. rpc = "number" /\ rpc' = "check" /\ column' = column + 1
    BY <1>6 DEF FaultColumn
  <2> QED
    BY <1>0, <2>1, <2>2 DEF LedgerInv, RequestsBalance, ColumnsNotOvercounted, One
<1>7. CASE MaskedColumn
  <2>1. Same({"requests", "verdicts", "columns"})
    BY <1>7, ColumnCounters, CounterNames
  <2> QED
    BY <1>0, <1>7, <1>a, <2>1 DEF MaskedColumn
<1>8. CASE ClassifyColumn
  <2>1. Same({"requests", "verdicts", "columns"})
    BY <1>8, ColumnCounters, CounterNames
  <2> QED
    BY <1>0, <1>8, <1>a, <2>1 DEF ClassifyColumn
<1>9. CASE NumberRow
  <2>1. Same({"requests", "verdicts", "columns"})
    BY <1>9, ColumnCounters, CounterNames
  <2> QED
    BY <1>0, <1>9, <1>a, <2>1 DEF NumberRow
<1>10. CASE PrintRow
  BY <1>0, <1>10, <1>a DEF PrintRow, loopVars
<1>11. CASE ClassifyRequest
  <2>1. Same({"requests", "verdicts", "columns"})
    BY <1>11, VerdictCounters, CounterNames DEF BLCounters
  <2> QED
    BY <1>0, <1>11, <1>a, <2>1 DEF ClassifyRequest, loopVars
<1>12. CASE JudgeRequest
  <2>1. /\ Same({"requests", "columns"})
        /\ stat'.fault_request_num
             = stat.fault_request_num + One(fault_count_in_BL # 0)
        /\ stat'.correct_request_num
             = stat.correct_request_num + One(fault_count_in_BL = 0)
    BY <1>12, VerdictCounters, CounterNames
  <2>2. rpc = "verdict" /\ rpc' \in {"idle", "trace"} /\ column' = column
    BY <1>12 DEF JudgeRequest, loopVars
  <2>3. stat'.fault_request_num + stat'.correct_request_num
          = stat.fault_request_num + stat.correct_request_num + 1
    <3>1. CASE fault_count_in_BL = 0
      BY <1>0, <2>1, <3>1 DEF One
    <3>2. CASE fault_count_in_BL # 0
      BY <1>0, <2>1, <3>2 DEF One
    <3> QED
      BY <3>1, <3>2
  <2> QED
    BY <1>0, <2>1, <2>2, <2>3 DEF LedgerInv, RequestsBalance, ColumnsNotOvercounted, One
<1>13. CASE PrintFaultTrace
  BY <1>0, <1>13, <1>a DEF PrintFaultTrace, loopVars
<1>14. CASE UNCHANGED vars
  BY <1>14 DEF vars, memVars, loopVars, LedgerInv, RequestsBalance,
               ColumnsNotOvercounted
<1> QED
  BY <1>1, <1>2, <1>3, <1>4, <1>5, <1>6, <1>7, <1>8, <1>9, <1>10, <1>11, <1>12,
     <1>13, <1>14 DEF Next, Serve, CheckFaultMask

(* Wherever the call is interrupted, executed requests are faulty ones plus *)
(* correct ones plus the one in progress, and executed columns BL times as  *)
(* many but for the request between AccessMemory's two counters.            *)
THEOREM RequestsAlwaysBalance == Spec => []RequestsBalance
<1>1. Spec => [](Inv0 /\ LedgerInv)
  BY InitInv0, NextInv0, InitLedger, NextLedger, PTL DEF Spec
<1>2. Inv0 /\ LedgerInv => RequestsBalance
  BY DEF LedgerInv
<1> QED
  BY <1>1, <1>2, PTL

(* CheckFaultMask never reports more columns than the generator executed. *)
THEOREM ColumnsNeverOvercounted == Spec => []ColumnsNotOvercounted
<1>1. Spec => [](Inv0 /\ LedgerInv)
  BY InitInv0, NextInv0, InitLedger, NextLedger, PTL DEF Spec
<1>2. Inv0 /\ LedgerInv => ColumnsNotOvercounted
  BY DEF LedgerInv
<1> QED
  BY <1>1, <1>2, PTL

-----------------------------------------------------------------------------
(* The mask is the damage of the addressed cell and of no other request.    *)

\* What VRTFaultError put into position i, read from the fault map.
FiredBits(i) ==
  LET fs == fault_map[cell][i]
  IN {BusWidth - 1 - fs.vrt[j].bit :
        j \in {k \in 1 .. fs.vrt_size : <<cell, <<i, k>>>> \in vrt_prev}}

MaskInv ==
  /\ rpc = "hard" => \A i \in Burst : ErrorMask[i] = {}
  /\ rpc = "vrt" => \A i \in Burst : ErrorMask[i] = fault_map[cell][i].hardfault
  /\ rpc \in Checking =>
       \A i \in Burst :
         ErrorMask[i] = fault_map[cell][i].hardfault \cup FiredBits(i)

(* Every step keeps the mask the damage of the addressed cell. *)
LEMMA NextMask == Inv0 /\ MaskInv /\ [Next]_vars => MaskInv'
<1> SUFFICES ASSUME Inv0, MaskInv, [Next]_vars
             PROVE  MaskInv'
  OBVIOUS
<1> USE DEF Checking, InColumn
<1>1. ASSUME NEW addr \in Addresses, NEW data \in DataPatterns,
             NEW is_write \in BOOLEAN, RecvRequest(addr, data, is_write)
      PROVE  MaskInv'
  BY <1>1 DEF RecvRequest, ClearedErrorMask, MaskInv
<1>2. CASE HardFaultError
  <2>1. rpc = "hard" /\ rpc' = "vrt"
    BY <1>2 DEF HardFaultError
  <2>2. ErrorMask' = HardMask /\ fault_map' = fault_map /\ cell' = cell
    BY <1>2 DEF HardFaultError, cell, arrayVars
  <2>3. \A i \in Burst : ErrorMask'[i] = fault_map'[cell'][i].hardfault
    BY <2>1, <2>2 DEF MaskInv, HardMask
  <2> QED
    BY <2>1, <2>3 DEF MaskInv
<1>3. CASE VRTFaultError
  <2>1. PICK roll \in [Entries -> Rolls] :
          LET fired == {e \in Entries : Fires(Entry(e).prob, roll[e])}
          IN /\ ErrorMask' = VrtMask(fired)
             /\ vrt_prev' = (vrt_prev \ ({cell} \X Entries)) \cup ({cell} \X fired)
    BY <1>3 DEF VRTFaultError, VrtMask
  <2> DEFINE fired == {e \in Entries : Fires(Entry(e).prob, roll[e])}
  <2>2. fired \in SUBSET Entries
    OBVIOUS
  <2>3. /\ ErrorMask' = VrtMask(fired)
        /\ vrt_prev' = (vrt_prev \ ({cell} \X Entries)) \cup ({cell} \X fired)
    BY <2>1
  <2> HIDE DEF fired
  <2>4. rpc = "vrt" /\ rpc' = "check" /\ fault_map' = fault_map /\ cell' = cell
    BY <1>3 DEF VRTFaultError, cell
  <2>5. ASSUME NEW i \in Burst
        PROVE  ErrorMask'[i] = fault_map[cell][i].hardfault \cup FiredBits(i)'
    <3> DEFINE fs == fault_map[cell][i]
    <3> DEFINE here == {k \in 1 .. fs.vrt_size : <<i, k>> \in fired}
    <3>1. \A k \in 1 .. fs.vrt_size : <<i, k>> \in Entries
      BY DEF Entries
    <3>2. \A k \in 1 .. fs.vrt_size :
            <<cell, <<i, k>>>> \in vrt_prev' <=> <<i, k>> \in fired
      BY <2>2, <2>3, <3>1
    <3>3. FiredBits(i)' = {BusWidth - 1 - fs.vrt[j].bit : j \in here}
      BY <2>4, <3>2 DEF FiredBits
    <3>4. \A e \in {f \in fired : f[1] = i} :
            /\ e[2] \in here
            /\ VrtBit(e) = BusWidth - 1 - fs.vrt[e[2]].bit
      <4> SUFFICES ASSUME NEW e \in fired, e[1] = i
                   PROVE  /\ e[2] \in here
                          /\ VrtBit(e) = BusWidth - 1 - fs.vrt[e[2]].bit
        OBVIOUS
      <4>1. e \in Entries
        BY <2>2
      <4>2. e = <<i, e[2]>> /\ e[2] \in 1 .. fs.vrt_size
        BY <4>1, EntriesExist
      <4> QED
        BY <4>2 DEF VrtBit, Entry
    <3>5. \A j \in here : VrtBit(<<i, j>>) = BusWidth - 1 - fs.vrt[j].bit
      BY DEF VrtBit, Entry
    <3>6. {VrtBit(e) : e \in {f \in fired : f[1] = i}}
            = {BusWidth - 1 - fs.vrt[j].bit : j \in here}
      BY <3>4, <3>5
    <3>7. ErrorMask[i] = fault_map[cell][i].hardfault
      BY <2>4 DEF MaskInv
    <3> QED
      BY <2>3, <3>3, <3>6, <3>7 DEF VrtMask
  <2> QED
    BY <2>4, <2>5 DEF MaskInv
<1>4. CASE CheckFaultMask
  BY <1>4, CheckLeavesData DEF arrayVars, burstVars, MaskInv, FiredBits
<1>5. CASE AccessMemory
  BY <1>5 DEF AccessMemory, MaskInv
<1>6. CASE UNCHANGED vars
  BY <1>6 DEF vars, memVars, arrayVars, burstVars, MaskInv, FiredBits, cell
<1> QED
  BY <1>1, <1>2, <1>3, <1>4, <1>5, <1>6 DEF Next, Serve

(* The mask holds every hard fault of the addressed cell, every entry that  *)
(* fired, and nothing else: ErrorInjection's one shared buffer never leaks  *)
(* the faults of an earlier request into a later one.                       *)
THEOREM MaskIsCellDamage == Spec => []MaskMatchesFaultMap
<1>1. Init => MaskInv
  BY DEF Init, MemInit, MaskInv, Checking, InColumn
<1>2. Spec => [](Inv0 /\ MaskInv)
  BY InitInv0, NextInv0, <1>1, NextMask, PTL DEF Spec
<1>3. Inv0 /\ MaskInv => MaskMatchesFaultMap
  BY DEF MaskInv, MaskMatchesFaultMap, FiredBits
<1> QED
  BY <1>2, <1>3, PTL

-----------------------------------------------------------------------------
(* The verdict. *)

\* The columns CheckFaultMask has compared, the one it works on included.
Compared(i) == IF rpc \in InColumn THEN i <= column ELSE i < column

VerdictInv ==
  /\ rpc \notin {"idle", "accepted"} => gen_data = data_block[cell]
  /\ rpc \in {"check", "verdict"} \cup InColumn =>
       /\ fault_data = FaultData(ErrorMask)
       /\ fault_count_in_BL # 0 <=>
            \E i \in Burst : Compared(i) /\ ErrorMask[i] \cap data_block[cell][i] # {}

(* Every step keeps the running total about the stored data. *)
LEMMA NextVerdict == Inv0 /\ VerdictInv /\ [Next]_vars => VerdictInv'
<1> SUFFICES ASSUME Inv0, VerdictInv, [Next]_vars
             PROVE  VerdictInv'
  OBVIOUS
<1> USE DEF Checking, InColumn
<1>1. CASE AccessMemory
  BY <1>1 DEF AccessMemory, VerdictInv
<1>2. ASSUME NEW addr \in Addresses, NEW data \in DataPatterns,
             NEW is_write \in BOOLEAN, RecvRequest(addr, data, is_write)
      PROVE  VerdictInv'
  <2>1. Decode[addr] \in Cells /\ cell' = Decode[addr]
    BY <1>2, MappingAssumption DEF RecvRequest, cell
  <2>2. data_block'[cell'] = gen_data'
    BY <1>2, <2>1 DEF RecvRequest, Read, Write, Inv0, TypeOK
  <2> QED
    BY <1>2, <2>2 DEF RecvRequest, VerdictInv
<1>3. CASE HardFaultError
  BY <1>3 DEF HardFaultError, arrayVars, VerdictInv, cell
<1>4. CASE VRTFaultError
  <2>1. PICK mask : ErrorMask' = mask /\ fault_data' = FaultData(mask)
    BY <1>4 DEF VRTFaultError
  <2>2. /\ rpc = "vrt" /\ rpc' = "check" /\ column' = 0 /\ fault_count_in_BL' = 0
        /\ cell' = cell /\ gen_data' = gen_data /\ data_block' = data_block
    BY <1>4 DEF VRTFaultError, cell
  <2>3. ~ \E i \in Burst : i < 0
    BY DEF Burst
  <2>4. (fault_data = FaultData(ErrorMask))'
    BY <2>1, <2>2 DEF FaultData
  <2> QED
    BY <2>2, <2>3, <2>4 DEF VerdictInv, Compared
<1>5. ASSUME CheckFaultMask
      PROVE  /\ UNCHANGED <<data_block, gen_data, fault_data, ErrorMask>>
             /\ cell' = cell /\ FaultData(ErrorMask)' = FaultData(ErrorMask)
             /\ (rpc \notin {"idle", "accepted"} => gen_data = data_block[cell])'
             /\ fault_data = FaultData(ErrorMask)
                  => (fault_data = FaultData(ErrorMask))'
  <2>1. /\ UNCHANGED <<data_block, gen_data, fault_data, ErrorMask>> /\ cell' = cell
        /\ rpc \in Checking
    BY <1>5, CheckLeavesData DEF arrayVars, burstVars
  <2>2. FaultData(ErrorMask)' = FaultData(ErrorMask)
    BY <2>1 DEF FaultData
  <2> QED
    BY <2>1, <2>2 DEF VerdictInv
\* Steps in the loop that compare nothing new.
<1>b. ASSUME CheckFaultMask, rpc' \in {"check", "verdict"} \cup InColumn,
             rpc \in {"check", "verdict"} \cup InColumn,
             fault_count_in_BL' = fault_count_in_BL,
             \A i \in Burst : /\ Compared(i) => Compared(i)'
                              /\ Compared(i)' => Compared(i) \/ ErrorMask[i] = {}
      PROVE  VerdictInv'
  BY <1>b, <1>5 DEF VerdictInv
<1>6. CASE CorrectColumn
  <2>1. /\ rpc = "check" /\ rpc' = "check" /\ column' = column + 1
        /\ fault_count_in_BL' = fault_count_in_BL /\ ErrorMask[column] = {}
    BY <1>6 DEF CorrectColumn
  <2>2. \A i \in Burst : Compared(i)' <=> Compared(i) \/ i = column
    BY <2>1 DEF Compared, Burst, Inv0, TypeOK
  <2> QED
    BY <1>b, <1>6, <2>1, <2>2 DEF CheckFaultMask
<1>7. CASE MaskedColumn
  <2>1. /\ rpc = "check" /\ rpc' = "class" /\ column < BL /\ column' = column
    BY <1>7 DEF MaskedColumn
  <2>2. column \in Burst /\ column \in Nat
    BY <2>1, ShapeAssumption DEF Inv0, TypeOK, Burst
  <2>3. PICK n \in Nat :
          /\ n = FaultCountInColumn(column)
          /\ n = 0 <=> ErrorMask[column] \cap data_block[cell][column] = {}
    BY <2>2, FaultCountType DEF Inv0
  <2>4. fault_count_in_BL' = fault_count_in_BL + n
    BY <1>7, <2>3 DEF MaskedColumn
  <2>5. fault_count_in_BL' # 0 <=> fault_count_in_BL # 0 \/ n # 0
    BY <2>4 DEF Inv0, TypeOK
  <2>6. \A i \in Burst : Compared(i)' <=> Compared(i) \/ i = column
    BY <2>1, <2>2 DEF Compared, Burst
  <2>7. fault_count_in_BL' # 0 <=>
          \E i \in Burst : Compared(i)' /\ ErrorMask[i] \cap data_block[cell][i] # {}
    BY <2>1, <2>2, <2>3, <2>5, <2>6 DEF VerdictInv
  <2> QED
    BY <1>5, <1>7, <2>1, <2>7 DEF CheckFaultMask, VerdictInv
<1>8. CASE ClassifyColumn
  <2>1. /\ rpc = "class" /\ fault_count_in_BL' = fault_count_in_BL
        /\ \/ rpc' = "number" /\ column' = column
           \/ rpc' = "check" /\ column' = column + 1
    BY <1>8 DEF ClassifyColumn
  <2>2. \A i \in Burst : Compared(i)' <=> Compared(i)
    BY <2>1 DEF Compared, Burst, Inv0, TypeOK
  <2> QED
    BY <1>b, <1>8, <2>1, <2>2 DEF CheckFaultMask
<1>9. CASE FaultColumn
  <2>1. /\ rpc = "number" /\ fault_count_in_BL' = fault_count_in_BL
        /\ rpc' = "check" /\ column' = column + 1
    BY <1>9 DEF FaultColumn
  <2>2. \A i \in Burst : Compared(i)' <=> Compared(i)
    BY <2>1 DEF Compared, Burst, Inv0, TypeOK
  <2> QED
    BY <1>b, <1>9, <2>1, <2>2 DEF CheckFaultMask
<1>10. CASE NumberRow \/ PrintRow
  <2>1. /\ rpc \in {"number", "row"} /\ fault_count_in_BL' = fault_count_in_BL
        /\ rpc' \in {"number", "row"} /\ column' = column
    BY <1>10 DEF NumberRow, PrintRow, loopVars
  <2>2. \A i \in Burst : Compared(i)' <=> Compared(i)
    BY <2>1 DEF Compared
  <2> QED
    BY <1>b, <1>10, <2>1, <2>2 DEF CheckFaultMask
<1>11. CASE ClassifyRequest
  <2>1. /\ rpc = "check" /\ fault_count_in_BL' = fault_count_in_BL
        /\ rpc' = "verdict" /\ column' = column /\ column = BL
    BY <1>11 DEF ClassifyRequest, loopVars
  <2>2. \A i \in Burst : Compared(i)' <=> Compared(i)
    BY <2>1 DEF Compared
  <2> QED
    BY <1>b, <1>11, <2>1, <2>2 DEF CheckFaultMask
<1>12. CASE JudgeRequest \/ PrintFaultTrace
  <2>1. rpc' \in {"idle", "trace"}
    BY <1>12 DEF JudgeRequest, PrintFaultTrace
  <2> QED
    BY <1>5, <1>12, <2>1 DEF CheckFaultMask, VerdictInv
<1>13. CASE UNCHANGED vars
  <2>1. FaultData(ErrorMask)' = FaultData(ErrorMask)
    BY <1>13 DEF vars, memVars, burstVars, FaultData
  <2> QED
    BY <1>13, <2>1 DEF vars, memVars, arrayVars, burstVars, loopVars, VerdictInv,
                       Compared, cell
<1> QED
  BY <1>1, <1>2, <1>3, <1>4, <1>6, <1>7, <1>8, <1>9, <1>10, <1>11, <1>12, <1>13
     DEF Next, Serve, CheckFaultMask

(* A request is counted faulty exactly when the burst a reader would get    *)
(* differs from the burst stored in the array.                              *)
THEOREM VerdictIsAboutData == Spec => []VerdictMatchesData
<1>1. Init => VerdictInv
  BY DEF Init, MemInit, VerdictInv, InColumn
<1>2. Spec => [](Inv0 /\ VerdictInv)
  BY InitInv0, NextInv0, <1>1, NextVerdict, PTL DEF Spec
<1>3. Inv0 /\ VerdictInv => VerdictMatchesData
  <2> SUFFICES ASSUME Inv0, VerdictInv, rpc = "verdict"
               PROVE  fault_count_in_BL # 0 <=> fault_data # data_block[cell]
    BY DEF VerdictMatchesData
  <2>1. cell \in Cells
    BY MappingAssumption DEF Inv0, TypeOK, cell
  <2>2. \A i \in Burst : Compared(i)
    BY ShapeAssumption DEF Burst, Compared, InColumn, Inv0, PlacesOK
  <2>3. gen_data = data_block[cell] /\ fault_data = FaultData(ErrorMask)
    BY DEF VerdictInv
  <2>4. data_block[cell] \in [Burst -> Words]
    BY <2>1 DEF Inv0, TypeOK
  <2>5. fault_data # data_block[cell]
          <=> \E i \in Burst : data_block[cell][i] \ ErrorMask[i] # data_block[cell][i]
    BY <2>3, <2>4 DEF FaultData
  <2>6. \A i \in Burst :
          data_block[cell][i] \ ErrorMask[i] # data_block[cell][i]
            <=> ErrorMask[i] \cap data_block[cell][i] # {}
    OBVIOUS
  <2> QED
    BY <2>2, <2>5, <2>6 DEF VerdictInv
<1> QED
  BY <1>2, <1>3, PTL

-----------------------------------------------------------------------------
(* Rolls against probabilities. *)

(* A roll decides as the probability of its entry allows. *)
LEMMA FiresWithinProbability ==
  ASSUME NEW prob \in Nat, NEW roll \in Rolls
  PROVE  /\ Fires(prob, roll) => prob > 0
         /\ FaultModel = "NaiveFaultModel" /\ prob >= RollMax => Fires(prob, roll)
BY ShapeAssumption DEF Rolls, Fires

(* Every step leaves only entries fired that were due. *)
LEMMA NextFire ==
  Inv0 /\ EntriesFireByProbability /\ [Next]_vars => EntriesFireByProbability'
<1> SUFFICES ASSUME Inv0, EntriesFireByProbability, [Next]_vars
             PROVE  EntriesFireByProbability'
  OBVIOUS
<1> USE DEF Checking, InColumn
<1>1. ASSUME NEW addr \in Addresses, NEW data \in DataPatterns,
             NEW is_write \in BOOLEAN, RecvRequest(addr, data, is_write)
      PROVE  EntriesFireByProbability'
  BY <1>1 DEF RecvRequest, EntriesFireByProbability
<1>2. CASE HardFaultError
  BY <1>2 DEF HardFaultError, arrayVars, EntriesFireByProbability
<1>3. CASE VRTFaultError
  <2>1. PICK roll \in [Entries -> Rolls] :
          vrt_prev' = (vrt_prev \ ({cell} \X Entries))
                        \cup ({cell} \X {e \in Entries : Fires(Entry(e).prob, roll[e])})
    BY <1>3 DEF VRTFaultError
  <2> DEFINE fired == {e \in Entries : Fires(Entry(e).prob, roll[e])}
  <2>2. \A e \in Entries :
          /\ e \in fired => Entry(e).prob > 0
          /\ FaultModel = "NaiveFaultModel" /\ Entry(e).prob >= RollMax => e \in fired
    <3> SUFFICES ASSUME NEW e \in Entries
                 PROVE  /\ e \in fired => Entry(e).prob > 0
                        /\ FaultModel = "NaiveFaultModel" /\ Entry(e).prob >= RollMax
                             => e \in fired
      OBVIOUS
    <3>1. Entry(e).prob \in Nat /\ roll[e] \in Rolls
      BY EntriesExist DEF VrtEntries
    <3> QED BY <3>1, FiresWithinProbability
  <2>3. vrt_prev' = (vrt_prev \ ({cell} \X Entries)) \cup ({cell} \X fired)
    BY <2>1
  <2>4. fired \subseteq Entries
    OBVIOUS
  <2> HIDE DEF fired
  <2>5. fault_map' = fault_map /\ cell' = cell /\ rpc' = "check"
    BY <1>3 DEF VRTFaultError, cell
  <2>6. \A p \in vrt_prev' : fault_map[p[1]][p[2][1]].vrt[p[2][2]].prob > 0
    <3> SUFFICES ASSUME NEW p \in vrt_prev'
                 PROVE  fault_map[p[1]][p[2][1]].vrt[p[2][2]].prob > 0
      OBVIOUS
    <3>1. CASE p \in vrt_prev
      BY <3>1 DEF EntriesFireByProbability
    <3>2. CASE p \in {cell} \X fired
      <4>1. p[1] = cell /\ p[2] \in fired /\ p[2] \in Entries
        BY <2>4, <3>2
      <4> QED BY <2>2, <4>1 DEF Entry
    <3> QED BY <2>3, <3>1, <3>2
  <2>7. \A e \in fired : <<cell, e>> \in vrt_prev'
    BY <2>3
  <2>8. Entries' = Entries /\ \A e \in Entries : Entry(e)' = Entry(e)
    BY <2>5 DEF Entries, Entry
  <2> QED
    BY <2>2, <2>5, <2>6, <2>7, <2>8 DEF EntriesFireByProbability
<1>4. CASE CheckFaultMask
  <2>1. /\ rpc \in Checking /\ cell' = cell
        /\ fault_map' = fault_map /\ vrt_prev' = vrt_prev
    BY <1>4, CheckLeavesData DEF arrayVars
  <2>2. Entries' = Entries /\ \A e \in Entries : Entry(e)' = Entry(e)
    BY <2>1 DEF Entries, Entry
  <2> QED
    BY <2>1, <2>2 DEF EntriesFireByProbability
<1>5. CASE AccessMemory
  BY <1>5 DEF AccessMemory, arrayVars, EntriesFireByProbability
<1>6. CASE UNCHANGED vars
  BY <1>6 DEF vars, memVars, arrayVars, burstVars, EntriesFireByProbability,
              Entries, Entry, cell
<1> QED
  BY <1>1, <1>2, <1>3, <1>4, <1>5, <1>6 DEF Next, Serve

(* Entries of probability 0 never fire under either model and, under         *)
(* NaiveFaultModel, certain ones always do, for every RollMax: the > of one  *)
(* model with rolls from 0 and the >= of the other with rolls from 1 agree   *)
(* at the lower end (VRTFaultError).                                         *)
THEOREM RollsRespectProbability == Spec => []EntriesFireByProbability
<1>1. Init => EntriesFireByProbability
  BY DEF Init, MemInit, EntriesFireByProbability, Checking, InColumn
<1>2. Spec => [](Inv0 /\ EntriesFireByProbability)
  BY InitInv0, NextInv0, <1>1, NextFire, PTL DEF Spec
<1>3. Inv0 /\ EntriesFireByProbability => EntriesFireByProbability
  OBVIOUS
<1> QED
  BY <1>2, <1>3, PTL

-----------------------------------------------------------------------------
(* Requests, columns, bits, rows and lines. *)

\* Bits the column classes claim.
Classified ==
  stat.single_fault_in_column_num + 2 * stat.double_fault_in_column_num
    + 3 * stat.triple_fault_in_column_num

(* A burst with a lost bit is already a fault column when it is still to    *)
(* become a fault request, and a column with a lost bit has a row when it   *)
(* is still to become a fault column: without them a verdict or the end of  *)
(* a column could break the nesting.  Between its two halves the            *)
(* classification of a column owes the triple class.                        *)
NestedInv ==
  /\ FaultCountsNested
  /\ rpc = "class" =>
       Classified <= stat.all_fault_bit_num
                       + (IF unnumbered <= 2 THEN unnumbered ELSE 0)
  /\ rpc \in {"check", "verdict"} \/ (rpc = "class" /\ unnumbered = 0) =>
       stat.fault_request_num + One(fault_count_in_BL # 0) <= stat.fault_column_num
  /\ rpc = "row" \/ (rpc = "number" /\ unnumbered = 0) =>
       stat.fault_column_num + 1 <= stat.all_fault_bit_num

(* All counters start at 0 but for those a round inherits. *)
LEMMA InitNested == Init => NestedInv
<1> SUFFICES ASSUME Init PROVE NestedInv
  OBVIOUS
<1>1. PICK bl \in [BLCounters -> 0 .. MaxCarried] :
        stat = [c \in Counters |-> IF c \in BLCounters THEN bl[c] ELSE 0]
  BY DEF Init
<1>2. \A c \in Counters \ BLCounters : stat[c] = 0
  BY <1>1
<1>3. /\ stat.fault_request_num = 0 /\ stat.fault_column_num = 0
      /\ stat.all_fault_bit_num = 0
      /\ stat.single_fault_in_column_num = 0
      /\ stat.double_fault_in_column_num = 0
      /\ stat.triple_fault_in_column_num = 0
  BY <1>2 DEF Counters, BLCounters
<1>4. rpc = "idle" /\ result_rows = 0 /\ trace_lines = 0 /\ unnumbered = 0
  BY DEF Init, MemInit
<1> QED BY <1>3, <1>4 DEF NestedInv, FaultCountsNested, One

(* Every step keeps the levels nested. *)
LEMMA NextNested == Inv0 /\ NestedInv /\ [Next]_vars => NestedInv'
<1> SUFFICES ASSUME Inv0, NestedInv, [Next]_vars PROVE NestedInv'
  OBVIOUS
<1>0. /\ stat \in [Counters -> Nat]
      /\ stat.fault_request_num \in Nat /\ stat.fault_column_num \in Nat
      /\ stat.all_fault_bit_num \in Nat
      /\ stat.single_fault_in_column_num \in Nat
      /\ stat.double_fault_in_column_num \in Nat
      /\ stat.triple_fault_in_column_num \in Nat
      /\ fault_count_in_BL \in Nat /\ unnumbered \in Nat
      /\ result_rows \in Nat /\ trace_lines \in Nat
  BY CounterNames DEF Inv0, TypeOK, Stats
<1> DEFINE Same(C) ==
      /\ "requests" \in C => stat'.fault_request_num = stat.fault_request_num
      /\ "columns" \in C => stat'.fault_column_num = stat.fault_column_num
      /\ "bits" \in C => stat'.all_fault_bit_num = stat.all_fault_bit_num
      /\ "pairs" \in C =>
           /\ stat'.single_fault_in_column_num = stat.single_fault_in_column_num
           /\ stat'.double_fault_in_column_num = stat.double_fault_in_column_num
      /\ "triples" \in C =>
           stat'.triple_fault_in_column_num = stat.triple_fault_in_column_num
      /\ "files" \in C => result_rows' = result_rows /\ trace_lines' = trace_lines
<1> DEFINE SameCounters == Same({"requests", "columns", "bits", "pairs", "triples"})
<1> DEFINE SameLevels ==
      Same({"requests", "columns", "bits", "pairs", "triples", "files"})
\* Steps that leave these counters alone, outside the body of the loop.
<1>a. ASSUME SameLevels, unnumbered' = unnumbered,
             rpc' \notin {"row", "class", "number", "trace"},
             rpc \notin {"row", "trace"},
             rpc' \in {"check", "verdict"} =>
               \/ One(fault_count_in_BL' # 0) = 0
               \/ /\ rpc = "check"
                  /\ fault_count_in_BL' = fault_count_in_BL
      PROVE  NestedInv'
  <2>1. FaultCountsNested'
    BY <1>a DEF NestedInv, FaultCountsNested, One
  <2>2. stat.fault_request_num <= stat.fault_column_num
    BY DEF NestedInv, FaultCountsNested
  <2> QED BY <1>0, <1>a, <2>1, <2>2 DEF NestedInv
<1> USE DEF OnlyCounts
<1>1. CASE AccessMemory
  <2>1. SameCounters
    BY <1>1, RequestCounters, CounterNames
  <2> QED BY <1>1, <1>a, <2>1 DEF AccessMemory, loopVars, reportVars
<1>2. ASSUME NEW addr \in Addresses, NEW data \in DataPatterns,
             NEW is_write \in BOOLEAN, RecvRequest(addr, data, is_write)
      PROVE  NestedInv'
  <2>1. SameCounters
    BY <1>2, RequestCounters, CounterNames
  <2> QED BY <1>2, <1>a, <2>1 DEF RecvRequest, loopVars, reportVars
<1>3. CASE HardFaultError
  <2>1. SameCounters
    BY <1>3, RequestCounters, CounterNames
  <2> QED BY <1>3, <1>a, <2>1 DEF HardFaultError, loopVars, reportVars
<1>4. CASE VRTFaultError
  <2>1. SameCounters
    BY <1>4, RequestCounters, CounterNames
  <2>2. rpc = "vrt" /\ rpc' = "check" /\ fault_count_in_BL' = 0
    BY <1>4 DEF VRTFaultError
  <2>3. One(fault_count_in_BL' # 0) = 0
    BY <2>2 DEF One
  <2> QED BY <1>4, <1>a, <2>1, <2>2, <2>3 DEF VRTFaultError, reportVars
<1>5. CASE CorrectColumn
  <2>1. SameCounters
    BY <1>5, ColumnCounters, CounterNames
  <2> QED BY <1>5, <1>a, <2>1 DEF CorrectColumn, reportVars
<1>6. CASE ClassifyRequest
  <2>1. SameCounters
    BY <1>6, VerdictCounters, CounterNames DEF BLCounters
  <2> QED BY <1>6, <1>a, <2>1 DEF ClassifyRequest, loopVars, reportVars
<1>7. CASE MaskedColumn
  <2>1. /\ Same({"requests", "columns", "bits", "triples", "files"})
        /\ stat'.single_fault_in_column_num
             = stat.single_fault_in_column_num + One(unnumbered' = 1)
        /\ stat'.double_fault_in_column_num
             = stat.double_fault_in_column_num + One(unnumbered' = 2)
    BY <1>7, ColumnCounters, CounterNames DEF MaskedColumn, reportVars
  <2>2. PICK n \in Nat : n = unnumbered' /\ fault_count_in_BL' = fault_count_in_BL + n
    <3>1. column \in Burst
      BY <1>7, ShapeAssumption DEF MaskedColumn, Inv0, TypeOK, Burst
    <3> QED BY <1>7, <3>1, FaultCountType DEF MaskedColumn, Inv0
  <2>3. /\ rpc = "check" /\ rpc' = "class" /\ unnumbered = 0
    BY <1>7 DEF MaskedColumn, Inv0, PlacesOK, InColumn
  <2>4. /\ stat.fault_request_num + One(fault_count_in_BL # 0) <= stat.fault_column_num
        /\ FaultCountsNested
    BY <2>3 DEF NestedInv
  <2>5. Classified' <= stat'.all_fault_bit_num + (IF n <= 2 THEN n ELSE 0)
    BY <1>0, <2>1, <2>2, <2>3, <2>4 DEF Classified, FaultCountsNested, One
  <2>6. FaultCountsNested'
    BY <1>0, <2>1, <2>2, <2>3, <2>4, <2>5 DEF FaultCountsNested, Classified, One
  <2>7. n = 0 => stat'.fault_request_num + One(fault_count_in_BL' # 0)
                   <= stat'.fault_column_num
    BY <1>0, <2>1, <2>2, <2>4 DEF One
  <2> QED BY <2>2, <2>3, <2>5, <2>6, <2>7 DEF NestedInv
<1>8. CASE ClassifyColumn
  <2>1. /\ Same({"requests", "columns", "bits", "pairs", "files"})
        /\ stat'.triple_fault_in_column_num
             = stat.triple_fault_in_column_num + One(unnumbered = 3)
    BY <1>8, ColumnCounters, CounterNames DEF ClassifyColumn, reportVars
  <2>2. /\ rpc = "class" /\ UNCHANGED <<unnumbered, fault_count_in_BL>>
        /\ \/ unnumbered # 0 /\ rpc' = "number"
           \/ unnumbered = 0 /\ rpc' = "check"
    BY <1>8 DEF ClassifyColumn, ReportColumn
  <2>3. FaultCountsNested'
    BY <1>0, <2>1, <2>2 DEF NestedInv, FaultCountsNested, Classified, One
  <2> QED BY <2>1, <2>2, <2>3 DEF NestedInv
<1>9. CASE NumberRow
  <2>1. /\ Same({"requests", "columns", "pairs", "triples", "files"})
        /\ stat'.all_fault_bit_num = stat.all_fault_bit_num + 1
    BY <1>9, ColumnCounters, CounterNames DEF NumberRow, reportVars
  <2>2. rpc = "number" /\ rpc' = "row" /\ unnumbered' = unnumbered - 1
    BY <1>9 DEF NumberRow
  <2>3. FaultCountsNested'
    BY <1>0, <2>1, <2>2 DEF NestedInv, FaultCountsNested, One
  <2> QED BY <1>0, <2>1, <2>2, <2>3 DEF NestedInv, FaultCountsNested
<1>10. CASE PrintRow
  <2>1. /\ SameCounters /\ result_rows' = result_rows + 1 /\ trace_lines' = trace_lines
        /\ rpc = "row" /\ rpc' = "number" /\ unnumbered' = unnumbered
    BY <1>10 DEF PrintRow, loopVars
  <2>2. FaultCountsNested'
    BY <1>0, <2>1 DEF NestedInv, FaultCountsNested, One
  <2> QED BY <2>1, <2>2 DEF NestedInv
<1>11. CASE FaultColumn
  <2>1. /\ Same({"requests", "bits", "pairs", "triples", "files"})
        /\ stat'.fault_column_num = stat.fault_column_num + 1
    BY <1>11, ColumnCounters, CounterNames DEF FaultColumn, reportVars
  <2>2. /\ rpc = "number" /\ rpc' = "check" /\ unnumbered = 0 /\ unnumbered' = 0
    BY <1>11 DEF FaultColumn
  <2>3. FaultCountsNested'
    BY <1>0, <2>1, <2>2 DEF NestedInv, FaultCountsNested, One
  <2>4. stat'.fault_request_num + One(fault_count_in_BL' # 0) <= stat'.fault_column_num
    BY <1>0, <2>1 DEF NestedInv, FaultCountsNested, One
  <2> QED BY <2>2, <2>3, <2>4 DEF NestedInv
<1>12. CASE JudgeRequest
  <2>1. /\ Same({"columns", "bits", "pairs", "triples", "files"})
        /\ stat'.fault_request_num
             = stat.fault_request_num + One(fault_count_in_BL # 0)
    BY <1>12, VerdictCounters, CounterNames DEF JudgeRequest, reportVars
  <2>2. /\ rpc = "verdict" /\ unnumbered' = unnumbered
        /\ rpc' = IF fault_count_in_BL # 0 /\ FaultTraceOn THEN "trace" ELSE "idle"
    BY <1>12 DEF JudgeRequest, loopVars
  <2>3. /\ stat.fault_request_num + One(fault_count_in_BL # 0) <= stat.fault_column_num
        /\ FaultCountsNested
    BY <2>2 DEF NestedInv
  <2>4. FaultCountsNested'
    BY <1>0, <2>1, <2>2, <2>3, ShapeAssumption DEF FaultCountsNested, One
  <2> QED BY <2>2, <2>4 DEF NestedInv
<1>13. CASE PrintFaultTrace
  <2>1. /\ SameCounters /\ result_rows' = result_rows /\ trace_lines' = trace_lines + 1
        /\ rpc = "trace" /\ rpc' = "idle" /\ unnumbered' = unnumbered
    BY <1>13 DEF PrintFaultTrace, loopVars
  <2>2. FaultCountsNested'
    BY <1>0, <2>1 DEF NestedInv, FaultCountsNested, One
  <2> QED BY <2>1, <2>2 DEF NestedInv
<1>14. CASE UNCHANGED vars
  BY <1>14 DEF vars, memVars, loopVars, reportVars, NestedInv, FaultCountsNested,
               Classified
<1> QED
  BY <1>1, <1>2, <1>3, <1>4, <1>5, <1>6, <1>7, <1>8, <1>9, <1>10, <1>11, <1>12,
     <1>13, <1>14 DEF Next, Serve, CheckFaultMask

(* The levels of the report agree at any moment it can be printed, between  *)
(* any two of its counters: requests, columns, bits, CSV rows and trace     *)
(* lines, but for the row or the line being written (PrintFaultResult,      *)
(* CheckFaultMask and PrintFaultTrace count them in three places).          *)
THEOREM ReportLevelsNest == Spec => []FaultCountsNested
<1>1. Spec => [](Inv0 /\ NestedInv)
  BY InitInv0, NextInv0, InitNested, NextNested, PTL DEF Spec
<1>2. Inv0 /\ NestedInv => FaultCountsNested
  BY DEF NestedInv
<1> QED BY <1>1, <1>2, PTL

-----------------------------------------------------------------------------
(* Lost bits against counted faults. *)

\* The bits of the mask that CheckFaultMask has still to look at.
Waiting(k) == {p \in Pairs(ErrorMask) : k <= p[1]}

(* Until the columns are checked, the counted faults must cover the whole    *)
(* mask, then what waits in it and the bits still without a row.             *)
BitsInv ==
  /\ FaultBitsExplained
  /\ rpc = "vrt" =>
       stat.all_fault_bit_num + Cardinality(Pairs(ErrorMask))
         <= stat.hard_fault_bit_num + stat.vrt_fault_bit_num
  /\ rpc = "check" =>
       stat.all_fault_bit_num + Cardinality(Waiting(column))
         <= stat.hard_fault_bit_num + stat.vrt_fault_bit_num
  /\ rpc \in InColumn =>
       stat.all_fault_bit_num + unnumbered + Cardinality(Waiting(column + 1))
         <= stat.hard_fault_bit_num + stat.vrt_fault_bit_num

(* The bits still to be looked at can be counted. *)
LEMMA WaitingFinite ==
  ASSUME NEW k
  PROVE  IsFiniteSet(Waiting(k)) /\ Cardinality(Waiting(k)) \in Nat
<1>1. Waiting(k) \subseteq Burst \X Bits
  BY DEF Waiting, Pairs
<1> QED BY <1>1, PlacesFinite, FS_Subset, FS_CardinalityType

(* One turn of the loop takes as many bits out of Waiting as the word of that *)
(* column has; the column cannot lose more.                                   *)
LEMMA ColumnLeavesWaiting ==
  ASSUME TypeOK, column \in Burst
  PROVE  /\ Cardinality(Waiting(column + 1)) <= Cardinality(Waiting(column))
         /\ FaultCountInColumn(column) + Cardinality(Waiting(column + 1))
              <= Cardinality(Waiting(column))
<1> DEFINE here == {column} \X ErrorMask[column]
           n    == FaultCountInColumn(column)
<1>1. column \in Nat /\ Burst \subseteq Nat
  BY DEF Burst
<1>2. ErrorMask[column] \in Words /\ ErrorMask[column] \cap data_block[cell][column] \in Words
  BY DEF TypeOK, Words
<1>3. IsFiniteSet(ErrorMask[column]) /\ Cardinality(ErrorMask[column]) \in Nat
  BY <1>2, WordCardinality
<1>4. IsFiniteSet(here) /\ Cardinality(here) = Cardinality(ErrorMask[column])
  <2>1. IsFiniteSet({column}) /\ Cardinality({column}) = 1
    BY FS_Singleton
  <2>2. IsFiniteSet(here) /\ Cardinality(here) = 1 * Cardinality(ErrorMask[column])
    BY <1>3, <2>1, FS_Product
  <2> QED BY <1>3, <2>2
<1>5. n \in Nat /\ n <= Cardinality(here)
  <2>1. n \in Nat
    BY FaultCountType
  <2>2. n <= Cardinality(ErrorMask[column])
    BY <1>3, FS_Intersection DEF FaultCountInColumn
  <2> QED BY <1>4, <2>1, <2>2
<1>6. Waiting(column) = Waiting(column + 1) \cup here
  <2>1. \A p \in Pairs(ErrorMask) :
          column <= p[1] <=> (column + 1 <= p[1] \/ p[1] = column)
    <3>1. \A p \in Pairs(ErrorMask) : p[1] \in Burst
      BY DEF Pairs
    <3>2. \A i \in Burst : column <= i <=> (column + 1 <= i \/ i = column)
      BY <1>1
    <3> QED BY <3>1, <3>2
  <2>2. \A p : p \in here <=> p \in Pairs(ErrorMask) /\ p[1] = column
    BY <1>2 DEF Pairs, Words
  <2> QED BY <2>1, <2>2 DEF Waiting
<1>7. Waiting(column + 1) \cap here = {}
  <2>1. \A p \in here : p[1] = column /\ ~ column + 1 <= column
    BY <1>1
  <2> QED BY <2>1 DEF Waiting
<1>8. Cardinality(Waiting(column)) = Cardinality(Waiting(column + 1)) + Cardinality(here) - 0
  <2>1. IsFiniteSet(Waiting(column + 1))
    BY WaitingFinite
  <2>2. Cardinality({}) = 0
    BY FS_EmptySet
  <2> HIDE DEF here
  <2> QED BY <1>4, <1>6, <1>7, <2>1, <2>2, FS_Union
<1> HIDE DEF here, n
<1>9. Cardinality(Waiting(column + 1)) \in Nat /\ Cardinality(here) \in Nat
  BY <1>3, <1>4, WaitingFinite
<1> QED BY <1>5, <1>8, <1>9 DEF n

(* Every bit VRTFaultError adds to the mask is counted at least once: two    *)
(* entries that name the same bit are counted twice and mask it once.        *)
LEMMA FiredCoverNewBits ==
  ASSUME Inv0, NEW fired \in SUBSET Entries
  PROVE  Cardinality(Pairs(VrtMask(fired)))
           <= Cardinality(Pairs(ErrorMask)) + Cardinality(fired)
<1> DEFINE place == [e \in fired |-> <<e[1], VrtBit(e)>>]
           new   == {place[e] : e \in fired}
<1>1. \A e \in fired : e[1] \in Burst /\ VrtBit(e) \in Bits
  BY EntriesExist
<1>2. Pairs(VrtMask(fired)) \subseteq Pairs(ErrorMask) \cup new
  <2> SUFFICES ASSUME NEW p \in Pairs(VrtMask(fired)), p \notin Pairs(ErrorMask)
               PROVE  p \in new
    OBVIOUS
  <2>1. p \in Burst \X Bits /\ p[2] \in VrtMask(fired)[p[1]] /\ p[2] \notin ErrorMask[p[1]]
    BY DEF Pairs
  <2>2. p[2] \in {VrtBit(e) : e \in {f \in fired : f[1] = p[1]}}
    BY <2>1 DEF VrtMask
  <2>3. PICK e \in fired : e[1] = p[1] /\ VrtBit(e) = p[2]
    BY <2>2
  <2>4. p = <<p[1], p[2]>>
    BY <2>1
  <2> QED BY <2>3, <2>4
<1>3. IsFiniteSet(fired) /\ Cardinality(fired) \in Nat
  BY VrtMaskType
<1>4. IsFiniteSet(new) /\ Cardinality(new) <= Cardinality(fired)
  <2>1. place \in Surjection(fired, new)
    BY DEF Surjection
  <2> HIDE DEF place, new
  <2> QED BY <1>3, <2>1, FS_Surjection
<1> HIDE DEF place, new
<1>5. IsFiniteSet(Pairs(ErrorMask)) /\ Cardinality(Pairs(ErrorMask)) \in Nat
  BY PairsCardinality
<1>6. /\ IsFiniteSet(Pairs(ErrorMask) \cup new)
      /\ Cardinality(Pairs(ErrorMask) \cup new)
           = Cardinality(Pairs(ErrorMask)) + Cardinality(new)
               - Cardinality(Pairs(ErrorMask) \cap new)
  BY <1>4, <1>5, FS_Union
<1>7. Cardinality(Pairs(ErrorMask) \cap new) \in Nat /\ Cardinality(new) \in Nat
  BY <1>4, <1>5, FS_Intersection, FS_CardinalityType
<1>8. Cardinality(Pairs(VrtMask(fired))) <= Cardinality(Pairs(ErrorMask) \cup new)
  BY <1>2, <1>6, FS_Subset
<1>9. Cardinality(Pairs(VrtMask(fired))) \in Nat
  BY PairsCardinality
<1> QED BY <1>3, <1>4, <1>5, <1>6, <1>7, <1>8, <1>9

(* No bit is lost at first. *)
LEMMA InitBits == Init => BitsInv
<1> SUFFICES ASSUME Init PROVE BitsInv
  OBVIOUS
<1>1. PICK bl \in [BLCounters -> 0 .. MaxCarried] :
        stat = [c \in Counters |-> IF c \in BLCounters THEN bl[c] ELSE 0]
  BY DEF Init
<1>2. \A c \in Counters \ BLCounters : stat[c] = 0
  BY <1>1
<1>3. /\ stat.all_fault_bit_num = 0 /\ stat.hard_fault_bit_num = 0
      /\ stat.vrt_fault_bit_num = 0
  BY <1>2 DEF Counters, BLCounters
<1>4. rpc = "idle"
  BY DEF Init, MemInit
<1> QED BY <1>3, <1>4 DEF BitsInv, FaultBitsExplained, InColumn

(* Every step keeps the lost bits covered by counted faults. *)
LEMMA NextBits == Inv0 /\ BitsInv /\ [Next]_vars => BitsInv'
<1> SUFFICES ASSUME Inv0, BitsInv, [Next]_vars PROVE BitsInv'
  OBVIOUS
<1>0. /\ stat \in [Counters -> Nat]
      /\ stat.all_fault_bit_num \in Nat
      /\ stat.hard_fault_bit_num \in Nat /\ stat.vrt_fault_bit_num \in Nat
      /\ stat.all_fault_bit_num <= stat.hard_fault_bit_num + stat.vrt_fault_bit_num
      /\ unnumbered \in Nat /\ column \in Nat
  BY CounterNames DEF Inv0, TypeOK, Stats, BitsInv, FaultBitsExplained
<1>w. \A k : Cardinality(Waiting(k)) \in Nat
  BY WaitingFinite
<1> DEFINE SameBits ==
      /\ stat'.all_fault_bit_num = stat.all_fault_bit_num
      /\ stat'.hard_fault_bit_num = stat.hard_fault_bit_num
      /\ stat'.vrt_fault_bit_num = stat.vrt_fault_bit_num
\* Steps that count no bit and leave the loop, or stay out of it.
<1>a. ASSUME SameBits, rpc' \notin {"vrt", "check"} \cup InColumn
      PROVE  BitsInv'
  BY <1>0, <1>a DEF BitsInv, FaultBitsExplained
<1>b. ASSUME CheckFaultMask
      PROVE  \A k : Waiting(k)' = Waiting(k)
  BY <1>b, CheckLeavesData DEF burstVars, Waiting, Pairs
<1> USE DEF OnlyCounts, InColumn
<1>1. CASE AccessMemory
  BY <1>1, <1>a, RequestCounters, CounterNames DEF AccessMemory
<1>2. ASSUME NEW addr \in Addresses, NEW data \in DataPatterns,
             NEW is_write \in BOOLEAN, RecvRequest(addr, data, is_write)
      PROVE  BitsInv'
  BY <1>2, <1>a, RequestCounters, CounterNames DEF RecvRequest
<1>3. CASE HardFaultError
  <2>1. /\ ErrorMask' = HardMask /\ rpc' = "vrt" /\ rpc = "hard"
        /\ stat' = [stat EXCEPT !.hard_fault_bit_num = @ + HardFaultCount]
    BY <1>3 DEF HardFaultError
  <2>2. /\ stat'.all_fault_bit_num = stat.all_fault_bit_num
        /\ stat'.hard_fault_bit_num = stat.hard_fault_bit_num + HardFaultCount
        /\ stat'.vrt_fault_bit_num = stat.vrt_fault_bit_num
    BY <1>0, <2>1, CounterNames
  <2>3. HardFaultCount = Cardinality(Pairs(ErrorMask')) /\ HardFaultCount \in Nat
    BY <2>1, PairsCardinality DEF HardFaultCount
  <2>4. Pairs(ErrorMask)' = Pairs(ErrorMask')
    BY DEF Pairs
  <2> QED BY <1>0, <2>1, <2>2, <2>3, <2>4 DEF BitsInv, FaultBitsExplained
<1>4. CASE VRTFaultError
  <2>1. PICK fired \in SUBSET Entries :
          /\ ErrorMask' = VrtMask(fired)
          /\ stat' = [stat EXCEPT !.vrt_fault_bit_num = @ + Cardinality(fired)]
    BY <1>4 DEF VRTFaultError, VrtMask
  <2>2. Cardinality(fired) \in Nat
    BY VrtMaskType
  <2>3. /\ stat'.all_fault_bit_num = stat.all_fault_bit_num
        /\ stat'.hard_fault_bit_num = stat.hard_fault_bit_num
        /\ stat'.vrt_fault_bit_num = stat.vrt_fault_bit_num + Cardinality(fired)
    BY <1>0, <2>1, CounterNames
  <2>4. rpc = "vrt" /\ rpc' = "check" /\ column' = 0
    BY <1>4 DEF VRTFaultError
  <2>5. Waiting(column)' = Pairs(VrtMask(fired))
    <3>1. \A p \in Pairs(VrtMask(fired)) : 0 <= p[1]
      <4>1. \A i \in Burst : 0 <= i
        BY DEF Burst
      <4>2. \A p \in Pairs(VrtMask(fired)) : p[1] \in Burst
        BY DEF Pairs
      <4> QED BY <4>1, <4>2
    <3>2. Pairs(ErrorMask)' = Pairs(VrtMask(fired))
      BY <2>1 DEF Pairs
    <3> QED BY <2>4, <3>1, <3>2 DEF Waiting
  <2>6. /\ Cardinality(Pairs(VrtMask(fired)))
             <= Cardinality(Pairs(ErrorMask)) + Cardinality(fired)
        /\ Cardinality(Pairs(VrtMask(fired))) \in Nat
        /\ Cardinality(Pairs(ErrorMask)) \in Nat
    BY FiredCoverNewBits, PairsCardinality
  <2>7. stat.all_fault_bit_num + Cardinality(Pairs(ErrorMask))
          <= stat.hard_fault_bit_num + stat.vrt_fault_bit_num
    BY <2>4 DEF BitsInv
  <2>8. stat'.all_fault_bit_num + Cardinality(Waiting(column)')
          <= stat'.hard_fault_bit_num + stat'.vrt_fault_bit_num
    BY <1>0, <2>2, <2>3, <2>5, <2>6, <2>7
  <2>9. FaultBitsExplained'
    BY <1>0, <2>2, <2>3 DEF FaultBitsExplained
  <2> QED BY <2>4, <2>8, <2>9 DEF BitsInv
<1>5. CASE CorrectColumn \/ MaskedColumn
  <2>1. rpc = "check" /\ column \in Burst
    BY <1>5, ShapeAssumption DEF CorrectColumn, MaskedColumn, Inv0, TypeOK, Burst
  <2>2. PICK n \in Nat : n = FaultCountInColumn(column)
    BY <2>1, FaultCountType DEF Inv0
  <2>3. /\ Cardinality(Waiting(column + 1)) <= Cardinality(Waiting(column))
        /\ n + Cardinality(Waiting(column + 1)) <= Cardinality(Waiting(column))
    BY <2>1, <2>2, ColumnLeavesWaiting DEF Inv0
  <2>4. stat.all_fault_bit_num + Cardinality(Waiting(column))
          <= stat.hard_fault_bit_num + stat.vrt_fault_bit_num
    BY <2>1 DEF BitsInv
  <2>5. SameBits
    BY <1>5, ColumnCounters, CounterNames
  <2>6. \/ rpc' = "check" /\ column' = column + 1
        \/ rpc' = "class" /\ column' = column /\ unnumbered' = n
    BY <1>5, <2>2 DEF CorrectColumn, MaskedColumn
  <2>7. /\ stat'.all_fault_bit_num + Cardinality(Waiting(column + 1))
             <= stat'.hard_fault_bit_num + stat'.vrt_fault_bit_num
        /\ stat'.all_fault_bit_num + n + Cardinality(Waiting(column + 1))
             <= stat'.hard_fault_bit_num + stat'.vrt_fault_bit_num
    BY <1>0, <1>w, <2>3, <2>4, <2>5
  <2>8. \A k : Waiting(k)' = Waiting(k)
    BY <1>5, <1>b DEF CheckFaultMask
  <2>9. FaultBitsExplained'
    BY <1>0, <2>5 DEF FaultBitsExplained
  <2>10. CASE rpc' = "check"
    <3>1. Waiting(column)' = Waiting(column + 1)
      BY <2>6, <2>8, <2>10 DEF Waiting
    <3> QED BY <2>7, <2>9, <2>10, <3>1 DEF BitsInv
  <2>11. CASE rpc' = "class"
    <3>1. Waiting(column + 1)' = Waiting(column + 1)
      BY <2>6, <2>8, <2>11 DEF Waiting
    <3> QED BY <2>6, <2>7, <2>9, <2>11, <3>1 DEF BitsInv
  <2> QED BY <2>6, <2>10, <2>11
<1>6. CASE ClassifyColumn \/ NumberRow \/ PrintRow \/ FaultColumn
  <2>1. /\ rpc \in InColumn
        /\ stat'.hard_fault_bit_num = stat.hard_fault_bit_num
        /\ stat'.vrt_fault_bit_num = stat.vrt_fault_bit_num
        /\ \/ stat'.all_fault_bit_num = stat.all_fault_bit_num
                /\ unnumbered' = unnumbered
           \/ stat'.all_fault_bit_num = stat.all_fault_bit_num + 1
                /\ unnumbered' = unnumbered - 1 /\ unnumbered > 0
        /\ \/ rpc' \in InColumn /\ column' = column
           \/ rpc' = "check" /\ column' = column + 1 /\ unnumbered' = 0
    <3>1. CASE ClassifyColumn
      BY <3>1, ColumnCounters, CounterNames DEF ClassifyColumn, ReportColumn
    <3>2. CASE NumberRow
      BY <3>2, ColumnCounters, CounterNames DEF NumberRow
    <3>3. CASE PrintRow
      BY <3>3 DEF PrintRow, loopVars
    <3>4. CASE FaultColumn
      BY <3>4, ColumnCounters, CounterNames DEF FaultColumn
    <3> QED BY <1>6, <3>1, <3>2, <3>3, <3>4
  <2>2. stat.all_fault_bit_num + unnumbered + Cardinality(Waiting(column + 1))
          <= stat.hard_fault_bit_num + stat.vrt_fault_bit_num
    BY <2>1 DEF BitsInv
  <2>3. stat'.all_fault_bit_num + unnumbered' + Cardinality(Waiting(column + 1))
          <= stat'.hard_fault_bit_num + stat'.vrt_fault_bit_num
    BY <1>0, <1>w, <2>1, <2>2
  <2>4. \A k : Waiting(k)' = Waiting(k)
    BY <1>6, <1>b DEF CheckFaultMask
  <2>5. FaultBitsExplained'
    BY <1>0, <1>w, <2>1, <2>3 DEF FaultBitsExplained
  <2>6. CASE rpc' = "check" /\ column' = column + 1 /\ unnumbered' = 0
    <3>1. Waiting(column)' = Waiting(column + 1)
      BY <2>4, <2>6 DEF Waiting
    <3> QED BY <1>0, <1>w, <2>1, <2>3, <2>5, <2>6, <3>1 DEF BitsInv
  <2>7. CASE rpc' \in InColumn /\ column' = column
    <3>1. Waiting(column + 1)' = Waiting(column + 1)
      BY <2>4, <2>7 DEF Waiting
    <3> QED BY <2>3, <2>5, <2>7, <3>1 DEF BitsInv
  <2> QED BY <2>1, <2>6, <2>7
<1>7. CASE ClassifyRequest
  BY <1>7, <1>a, VerdictCounters, CounterNames DEF ClassifyRequest, BLCounters
<1>8. CASE JudgeRequest
  BY <1>8, <1>a, VerdictCounters, CounterNames DEF JudgeRequest
<1>9. CASE PrintFaultTrace
  BY <1>9, <1>a DEF PrintFaultTrace
<1>10. CASE UNCHANGED vars
  BY <1>10 DEF vars, memVars, burstVars, loopVars, BitsInv, FaultBitsExplained,
               Waiting, Pairs
<1> QED
  BY <1>1, <1>2, <1>3, <1>4, <1>5, <1>6, <1>7, <1>8, <1>9, <1>10
     DEF Next, Serve, CheckFaultMask

(* No bit is reported lost that the fault model has not counted: the memory  *)
(* system compares the mask with the array, the fault model counted while it *)
(* made the mask, and the two never meet (HardFaultError and VRTFaultError   *)
(* against CheckFaultMask).                                                  *)
THEOREM LostBitsAreCountedFaults == Spec => []FaultBitsExplained
<1>1. Spec => [](Inv0 /\ BitsInv)
  BY InitInv0, NextInv0, InitBits, NextBits, PTL DEF Spec
<1>2. Inv0 /\ BitsInv => FaultBitsExplained
  BY DEF BitsInv
<1> QED BY <1>1, <1>2, PTL
=============================================================================
