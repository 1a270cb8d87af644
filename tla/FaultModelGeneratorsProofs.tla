--------------------- MODULE FaultModelGeneratorsProofs ---------------------
(***************************************************************************)
(* For every configuration, size of the fault map, table of counts and     *)
(* number of threads: the types of FaultModelGenerators, what its races    *)
(* can lose, that a lone thread leaves a map MemorySystem can use, and     *)
(* that no class of faults is made beyond its count.                       *)
(***************************************************************************)
EXTENDS FaultModelGenerators, FiniteSetTheorems, SequenceTheorems, TLAPS

Entries == [bit : Bits, class : AllClasses] \cup {Unwritten}

Regs == [place : Places \cup {AnyPlace}, bit : Bits \cup {AnyBit}, word : SUBSET Bits,
         size : Nat, vector : Seq(Entries)]

Shapes ==
  /\ setup \in Setups
  /\ phase \in {"hard", "vrt", "done", "crashed"}
  /\ pc \in [Threads -> {"loop", "store", "push", "pushed"}]
  /\ left \in [Threads -> Nat]
  /\ class \in [Threads -> Nat]
  /\ reg \in [Threads -> Regs]
  /\ hardfault \in [Places -> SUBSET Bits]
  /\ vrt_size \in [Places -> 0 .. SizeModulus - 1]
  /\ vrt \in [Places -> Seq(Entries)]
  /\ drawn \subseteq Places \X Bits
  /\ made \in [AllClasses -> Nat]

\* A thread inside an iteration knows its word and has an iteration to do.
Working ==
  \A t \in Threads : pc[t] # "loop" =>
    reg[t].place \in Places /\ reg[t].bit \in Bits /\ left[t] > 0

\* A class in which entries are still to be made is one of the thread's range.
InRange ==
  phase = "vrt" => \A t \in Threads :
    class[t] >= FirstClass(t) /\ (left[t] > 0 => class[t] <= LastClass(t))

TypeInv == Shapes /\ Working /\ InRange

-----------------------------------------------------------------------------
(* Shares and ranges. *)

(* The whole part of a quotient, times the divisor, is not more than the    *)
(* dividend.                                                                *)
LEMMA QuotientTimesDivisor ==
  ASSUME NEW a \in Nat, NEW b \in Nat \ {0}
  PROVE  /\ a \div b \in Nat
         /\ (a \div b) * b <= a
OBVIOUS

(* A setup is a record with its fields. *)
LEMMA SetupFields ==
  ASSUME setup \in Setups
  PROVE  /\ setup.thread_num \in Nat \ {0}
         /\ setup.fault_model \in {"NaiveFaultModel", "BetaDistFaultModel"}
         /\ setup.thread \in {"SingleThread", "MultiThread", "other"}
  BY SetupAssumption

(* Counts of faults are natural numbers. *)
LEMMA Counts ==
  /\ NumClasses \in Nat \ {0}
  /\ \A i \in 0 .. NumClasses : BetaCount(i) \in Nat
  /\ \A i \in 1 .. 6 : NaiveCounts[i] \in Nat
  /\ HardCount \in Nat
<1>1. /\ ClassCounts \in Seq(Nat) /\ Len(ClassCounts) > 1 /\ NaiveCount \in Nat
  BY SetupAssumption
<1>2. NumClasses \in Nat \ {0}
  <2> DEFINE n == Len(ClassCounts)
  <2>1. n \in Nat /\ n > 1
    BY <1>1
  <2>2. NumClasses = n - 1
    BY DEF NumClasses
  <2> HIDE DEF n
  <2> QED
    BY <2>1, <2>2
<1>3. ASSUME NEW i \in 0 .. NumClasses PROVE BetaCount(i) \in Nat
  BY <1>1, <1>3 DEF NumClasses, BetaCount
<1>4. /\ NaiveCount \div 5 \in Nat
      /\ NaiveCount \div 3 \in Nat
  BY <1>1
<1>5. ASSUME NEW i \in 1 .. 6 PROVE NaiveCounts[i] \in Nat
  BY <1>1, <1>4, <1>5 DEF NaiveCounts
<1>6. HardCount \in Nat
  BY <1>1, <1>2, <1>3 DEF HardCount
<1> QED
  BY <1>2, <1>3, <1>5, <1>6

(* The shares of all threads are together not more than the whole. *)
LEMMA Shares ==
  ASSUME setup \in Setups, NEW n \in Nat
  PROVE  /\ Share(n) \in Nat
         /\ Multi => Share(n) * setup.thread_num <= n
         /\ ~Multi => Share(n) = n
<1>1. setup.thread_num \in Nat \ {0}
  BY SetupFields
<1>2. /\ n \div setup.thread_num \in Nat
      /\ (n \div setup.thread_num) * setup.thread_num <= n
  BY <1>1, QuotientTimesDivisor
<1> QED
  BY <1>2 DEF Share

(* The threads are the numbers below one. *)
LEMMA ThreadNumbers ==
  ASSUME setup \in Setups
  PROVE  /\ Multi => Threads = 0 .. setup.thread_num - 1
         /\ ~Multi => Threads \subseteq {0}
         /\ Threads \subseteq 0 .. setup.thread_num - 1
  BY SetupFields DEF Threads, Multi

(* A thread's range of classes lies inside the table, and leaves out the      *)
(* class of the certain faults.                                               *)
LEMMA ClassRange ==
  ASSUME setup \in Setups, NEW t \in Threads
  PROVE  /\ FirstClass(t) \in Nat
         /\ LastClass(t) \in Int
         /\ \A i \in Nat : i >= FirstClass(t) /\ i <= LastClass(t) => i \in AllClasses
         /\ Beta => LastClass(t) < NumClasses
<1>1. CASE ~Beta
  BY <1>1 DEF FirstClass, LastClass, AllClasses
<1>2. CASE Beta
  <2> DEFINE T == setup.thread_num
             N == NumClasses
             q == N \div T
             p == (t * N) \div T
  <2>1. T \in Nat \ {0} /\ N \in Nat \ {0} /\ t \in 0 .. T - 1
    BY SetupFields, Counts, ThreadNumbers
  <2>2. t * N \in Nat /\ t * N + N <= T * N
    <3>1. t + 1 <= T
      BY <2>1
    <3>2. (t + 1) * N <= T * N
      BY <2>1, <3>1, SMTT(30)
    <3> QED
      BY <2>1, <3>2, SMTT(30)
  <2>3. /\ q \in Nat /\ q * T <= N
        /\ p \in Nat /\ p * T <= t * N
    BY <2>1, <2>2, QuotientTimesDivisor
  <2>4. (p + q) * T <= T * N
    <3> HIDE DEF T, N, q, p
    <3>1. (p + q) * T = p * T + q * T
      BY <2>1, <2>3, SMTT(30)
    <3>2. t * N \in Int /\ T * N \in Int /\ p * T \in Int /\ q * T \in Int
      BY <2>1, <2>2, <2>3
    <3> QED
      BY <2>1, <2>2, <2>3, <3>1, <3>2
  <2>5. p + q <= N
    <3> HIDE DEF T, N, q, p
    <3>1. ASSUME p + q > N PROVE FALSE
      <4>1. p + q >= N + 1
        BY <2>1, <2>3, <3>1
      <4>2. (p + q) * T >= (N + 1) * T
        BY <2>1, <2>3, <4>1, SMTT(30)
      <4>3. (N + 1) * T = T * N + T
        BY <2>1, SMTT(30)
      <4>4. T * N \in Int /\ (p + q) * T \in Int
        BY <2>1, <2>3
      <4> QED
        BY <2>1, <2>4, <4>2, <4>3, <4>4
    <3> QED
      BY <2>1, <2>3, <3>1
  <2>6. /\ FirstClass(t) = p /\ LastClass(t) = p + q - 1
        /\ AllClasses = 0 .. N /\ NumClasses = N
    BY <1>2 DEF FirstClass, LastClass, AllClasses
  <2> HIDE DEF T, N, q, p
  <2> QED
    BY <2>1, <2>3, <2>5, <2>6
<1> QED
  BY <1>1, <1>2

(* What a thread makes in a class is a number. *)
LEMMA ClassShares ==
  ASSUME setup \in Setups, NEW i \in AllClasses
  PROVE  ClassShare(i) \in Nat
<1>1. CASE Beta
  BY <1>1, Counts DEF ClassShare, AllClasses
<1>2. CASE ~Beta
  <2>1. NaiveCounts[i] \in Nat
    BY <1>2, Counts DEF AllClasses
  <2> QED
    BY <1>2, <2>1, Shares DEF ClassShare
<1> QED
  BY <1>1, <1>2

-----------------------------------------------------------------------------
(* Types. *)

(* What depends on the configuration only stays as it is. *)
LEMMA Frozen ==
  ASSUME setup' = setup
  PROVE  /\ Threads' = Threads /\ AllClasses' = AllClasses
         /\ Entries' = Entries /\ Regs' = Regs
         /\ HardCount' = HardCount
         /\ \A n : Share(n)' = Share(n)
         /\ \A t : FirstClass(t)' = FirstClass(t) /\ LastClass(t)' = LastClass(t)
BY DEF Threads, AllClasses, Entries, Regs, Unwritten, HardCount, Share, FirstClass,
       LastClass, Beta, Multi

(* The initial values have their types. *)
LEMMA TypesInit == Init => TypeInv
<1> SUFFICES ASSUME Init PROVE TypeInv
  OBVIOUS
<1> USE DEF Init
<1>1. HardCount \in Nat /\ Share(HardCount) \in Nat
  BY Counts, Shares
<1>2. NoReg \in Regs
  BY DEF NoReg, Reg, Regs
<1>3. Shapes
  BY <1>1, <1>2, SetupAssumption DEF Shapes
<1>4. Working /\ InRange
  BY DEF Working, InRange
<1> QED
  BY <1>3, <1>4 DEF TypeInv

(* Every step keeps them. *)
LEMMA TypesStep == TypeInv /\ [Next]_vars => TypeInv'
<1> SUFFICES ASSUME TypeInv, [Next]_vars PROVE TypeInv'
  OBVIOUS
<1> USE DEF TypeInv
<1>1. setup' = setup
  BY DEF Next, Thread, vars, LoadHard, StoreHard, LoadSize, StoreSize, LoadVector,
         StoreVector, NextClass, StartVrt, Done
<1>2. /\ Threads' = Threads /\ AllClasses' = AllClasses
      /\ Entries' = Entries /\ Regs' = Regs
      /\ \A t : FirstClass(t)' = FirstClass(t) /\ LastClass(t)' = LastClass(t)
  BY <1>1, Frozen
<1>3. NoReg \in Regs
  BY DEF NoReg, Reg, Regs
<1>4. ASSUME NEW t \in Threads, LoadHard(t) PROVE TypeInv'
  <2>1. PICK p \in Places, b \in Bits :
          /\ reg' = [reg EXCEPT ![t] = Reg(p, b, hardfault[p], 0)]
          /\ drawn' = drawn \cup {<<p, b>>}
    BY <1>4 DEF LoadHard
  <2>2. Reg(p, b, hardfault[p], 0) \in Regs
    <3>1. hardfault[p] \in SUBSET Bits /\ <<>> \in Seq(Entries)
      BY DEF Shapes
    <3> QED
      BY <3>1 DEF Regs, Reg
  <2>3. Shapes'
    BY <1>1, <1>2, <1>4, <2>1, <2>2 DEF Shapes, LoadHard, map
  <2>4. reg'[t].place = p /\ reg'[t].bit = b
    BY <2>1 DEF Shapes, Reg
  <2>5. Working'
    BY <1>2, <1>4, <2>1, <2>4 DEF Shapes, Working, LoadHard
  <2>6. InRange'
    BY <1>4 DEF InRange, LoadHard
  <2> QED
    BY <2>3, <2>5, <2>6
<1>5. ASSUME NEW t \in Threads, StoreHard(t) PROVE TypeInv'
  <2>1. reg[t].word \subseteq Bits /\ reg[t].bit \in Bits /\ left[t] - 1 \in Nat
    BY <1>5 DEF Shapes, Working, Regs, StoreHard
  <2>2. OredBit(reg[t]) \subseteq Bits
    BY <2>1 DEF OredBit
  <2>3. Shapes'
    BY <1>1, <1>2, <1>3, <1>5, <2>1, <2>2 DEF Shapes, StoreHard
  <2>4. Working'
    BY <1>2, <1>5 DEF Shapes, Working, StoreHard
  <2>5. InRange'
    BY <1>5 DEF InRange, StoreHard
  <2> QED
    BY <2>3, <2>4, <2>5
<1>6. ASSUME NEW t \in Threads, LoadSize(t) PROVE TypeInv'
  <2>1. PICK p \in Places, b \in Bits :
          reg' = [reg EXCEPT ![t] = Reg(p, b, {}, vrt_size[p])]
    BY <1>6 DEF LoadSize
  <2>2. vrt_size[p] \in Nat
    BY SetupAssumption DEF Shapes
  <2>3. Reg(p, b, {}, vrt_size[p]) \in Regs
    BY <2>2 DEF Regs, Reg
  <2>4. Shapes'
    BY <1>1, <1>2, <1>6, <2>1, <2>3 DEF Shapes, LoadSize, map
  <2>5. reg'[t].place = p /\ reg'[t].bit = b
    BY <2>1 DEF Shapes, Reg
  <2>6. Working'
    BY <1>2, <1>6, <2>1, <2>5 DEF Shapes, Working, LoadSize
  <2>7. InRange'
    BY <1>2, <1>6 DEF InRange, LoadSize
  <2> QED
    BY <2>4, <2>6, <2>7
<1>7. ASSUME NEW t \in Threads, StoreSize(t) PROVE TypeInv'
  <2>1. reg[t].place \in Places /\ reg[t].size \in Nat
    BY <1>7 DEF Shapes, Working, Regs, StoreSize
  <2>2. IncrementedSize(reg[t].size) \in 0 .. SizeModulus - 1
    BY <2>1, SetupAssumption DEF IncrementedSize
  <2>3. Shapes'
    BY <1>1, <1>2, <1>7, <2>1, <2>2 DEF Shapes, StoreSize
  <2>4. Working'
    BY <1>2, <1>7 DEF Shapes, Working, StoreSize
  <2>5. InRange'
    BY <1>2, <1>7 DEF InRange, StoreSize
  <2> QED
    BY <2>3, <2>4, <2>5
<1>8. ASSUME NEW t \in Threads, LoadVector(t) PROVE TypeInv'
  <2>1. reg[t].place \in Places /\ reg[t] \in Regs
    BY <1>8 DEF Shapes, Working, LoadVector
  <2>2. [reg[t] EXCEPT !.vector = vrt[reg[t].place]] \in Regs
    BY <2>1 DEF Shapes, Regs
  <2>3. reg' = [reg EXCEPT ![t] = [reg[t] EXCEPT !.vector = vrt[reg[t].place]]]
    BY <1>8 DEF LoadVector, Shapes
  <2>4. Shapes'
    BY <1>1, <1>2, <1>8, <2>2, <2>3 DEF Shapes, LoadVector, map
  <2>5. reg'[t].place = reg[t].place /\ reg'[t].bit = reg[t].bit
    BY <2>1, <2>3 DEF Shapes, Regs
  <2>6. Working'
    BY <1>2, <1>8, <2>3, <2>5 DEF Shapes, Working, LoadVector
  <2>7. InRange'
    BY <1>2, <1>8 DEF InRange, LoadVector
  <2> QED
    BY <2>4, <2>6, <2>7
<1>9. ASSUME NEW t \in Threads, StoreVector(t) PROVE TypeInv'
  <2> DEFINE p == reg[t].place
             e == NewEntry(t)
  <2>1. p \in Places /\ reg[t].bit \in Bits /\ reg[t].vector \in Seq(Entries)
    BY <1>9 DEF Shapes, Working, Regs, StoreVector
  <2>2. class[t] \in AllClasses /\ left[t] - 1 \in Nat
    <3>1. left[t] > 0 /\ phase = "vrt" /\ left[t] \in Nat /\ class[t] \in Nat
      BY <1>9 DEF Shapes, Working, StoreVector
    <3> QED
      BY <3>1, ClassRange DEF InRange, Shapes
  <2>3. e \in Entries /\ Unwritten \in Entries
    BY <2>1, <2>2 DEF Entries, NewEntry
  <2>4. vrt[p] \in Seq(Entries)
    BY <2>1 DEF Shapes
  <2>5. Pushed(reg[t].vector, vrt[p], e) \subseteq Seq(Entries)
    <3>1. Append(reg[t].vector, e) \in Seq(Entries)
      BY <2>1, <2>3
    <3>2. ASSUME Len(vrt[p]) > Len(reg[t].vector)
          PROVE  Append([vrt[p] EXCEPT ![Len(reg[t].vector) + 1] = e], Unwritten) \in Seq(Entries)
      <4>1. [vrt[p] EXCEPT ![Len(reg[t].vector) + 1] = e] \in Seq(Entries)
        <5>1. Len(reg[t].vector) \in Nat /\ Len(vrt[p]) \in Nat
          BY <2>1, <2>4
        <5>2. Len(reg[t].vector) + 1 \in 1 .. Len(vrt[p])
          BY <3>2, <5>1
        <5> QED
          BY <2>3, <2>4, <5>2, ExceptSeq
      <4> QED
        BY <2>3, <4>1
    <3> QED
      BY <3>1, <3>2 DEF Pushed
  <2>6. vrt' \in [Places -> Seq(Entries)] /\ phase' \in {phase, "crashed"}
    <3>1. CASE vrt' \in {[vrt EXCEPT ![p] = v] : v \in Pushed(reg[t].vector, vrt[p], e)}
                 /\ UNCHANGED phase
      BY <3>1, <2>1, <2>5 DEF Shapes
    <3>2. CASE UNCHANGED vrt /\ phase' = "crashed"
      BY <3>2 DEF Shapes
    <3> QED
      BY <1>9, <3>1, <3>2 DEF StoreVector
  <2>7. Shapes'
    BY <1>1, <1>2, <1>3, <1>9, <2>2, <2>6 DEF Shapes, StoreVector
  <2>8. Working'
    BY <1>2, <1>9 DEF Shapes, Working, StoreVector
  <2>9. InRange'
    BY <1>2, <1>9, <2>2, <2>6 DEF Shapes, InRange, StoreVector
  <2> QED
    BY <2>7, <2>8, <2>9
<1>10. ASSUME NEW t \in Threads, NextClass(t) PROVE TypeInv'
  <2>1. /\ FirstClass(t) \in Nat /\ LastClass(t) \in Int
        /\ class[t] \in Nat /\ class[t] >= FirstClass(t) /\ class[t] < LastClass(t)
    BY <1>10, ClassRange DEF Shapes, InRange, NextClass
  <2>2. class[t] + 1 \in AllClasses
    <3>1. /\ setup \in Setups /\ class[t] + 1 \in Nat
          /\ class[t] + 1 >= FirstClass(t) /\ class[t] + 1 <= LastClass(t)
      BY <2>1 DEF Shapes
    <3> QED
      BY <3>1, ClassRange
  <2>3. ClassShare(class[t] + 1) \in Nat
    BY <2>2, ClassShares DEF Shapes
  <2>4. Shapes'
    BY <1>1, <1>2, <1>10, <2>1, <2>3 DEF Shapes, NextClass, map
  <2>5. Working'
    BY <1>2, <1>10 DEF Shapes, Working, NextClass
  <2>6. InRange'
    BY <1>2, <1>10, <2>1 DEF Shapes, InRange, NextClass
  <2> QED
    BY <2>4, <2>5, <2>6
<1>11. CASE StartVrt
  <2>1. ASSUME NEW t \in Threads
        PROVE  /\ FirstClass(t) \in Nat /\ LastClass(t) \in Int
               /\ FirstClass(t) <= LastClass(t) => ClassShare(FirstClass(t)) \in Nat
    BY <2>1, ClassRange, ClassShares DEF Shapes
  <2>2. Shapes'
    BY <1>1, <1>2, <1>11, <2>1 DEF Shapes, StartVrt, map
  <2>3. Working'
    BY <1>2, <1>11 DEF Shapes, Working, StartVrt, Idle
  <2>4. InRange'
    BY <1>2, <1>11, <2>1 DEF Shapes, InRange, StartVrt
  <2> QED
    BY <2>2, <2>3, <2>4
<1>12. CASE Done
  BY <1>1, <1>2, <1>12 DEF Shapes, Working, InRange, Done, map
<1>13. CASE UNCHANGED vars
  BY <1>1, <1>2, <1>13 DEF Shapes, Working, InRange, vars, map
<1> QED
  BY <1>4, <1>5, <1>6, <1>7, <1>8, <1>9, <1>10, <1>11, <1>12, <1>13 DEF Next, Thread

(* The types, in every reachable state. *)
LEMMA Typed == Spec => []TypeInv
  BY TypesInit, TypesStep, PTL DEF Spec

(* For every configuration, size of the map and table of counts the variables *)
(* of the generators keep their types; in particular vrt_size stays inside    *)
(* its 8 bits and no thread leaves the table of classes.                      *)
THEOREM GeneratorsTypeCorrect == Spec => []GeneratorsTypeOK
<1>1. TypeInv => GeneratorsTypeOK
  BY DEF TypeInv, Shapes, GeneratorsTypeOK, Entries
<1> QED
  BY <1>1, Typed, PTL

-----------------------------------------------------------------------------
(* Hard faults. *)

\* The iterations of the hard-fault loops that have drawn their bit.
Work ==
  {w \in Threads \X (1 .. Share(HardCount)) :
     w[2] > left[w[1]] \/ (w[2] = left[w[1]] /\ pc[w[1]] = "store")}

\* The map, and every register about to be stored, hold drawn faults only.
MapDrawn == \A p \in Places : \A b \in hardfault[p] : <<p, b>> \in drawn
RegDrawn ==
  phase = "hard" => \A t \in Threads : pc[t] # "loop" =>
    /\ pc[t] = "store"
    /\ <<reg[t].place, reg[t].bit>> \in drawn
    /\ \A b \in reg[t].word : <<reg[t].place, b>> \in drawn

\* A word a fault was drawn for has one, or is about to get one.
NoneEmpty ==
  \A p \in Places, b \in Bits : <<p, b>> \in drawn =>
    \/ hardfault[p] # {}
    \/ phase = "hard" /\ \E t \in Threads : pc[t] = "store" /\ reg[t].place = p

\* Every fault drawn took an iteration of its own.
Paid ==
  /\ IsFiniteSet(drawn)
  /\ phase = "hard" => /\ \A t \in Threads : left[t] <= Share(HardCount)
                       /\ Cardinality(drawn) <= Cardinality(Work)
  /\ phase # "hard" => Cardinality(drawn) <= HardCount

HardInv == MapDrawn /\ RegDrawn /\ NoneEmpty /\ Paid

(* The iterations of all threads that share n of them are together not more   *)
(* than n.                                                                    *)
LEMMA SharedOut ==
  ASSUME setup \in Setups, NEW n \in Nat
  PROVE  /\ IsFiniteSet(Threads \X (1 .. Share(n)))
         /\ Cardinality(Threads \X (1 .. Share(n))) <= n
<1> DEFINE k == IF Multi THEN setup.thread_num ELSE 1
           s == Share(n)
           All == (0 .. k - 1) \X (1 .. s)
<1>1. setup.thread_num \in Nat \ {0}
  BY SetupFields
<1>2. k \in Nat \ {0} /\ s \in Nat
  BY <1>1, Shares
<1>3. s * k <= n
  <2>1. CASE Multi
    BY <1>1, <2>1, Shares
  <2>2. CASE ~Multi
    <3>1. k = 1 /\ s = n
      BY <1>1, <2>2, Shares
    <3> HIDE DEF k, s
    <3> QED
      BY <1>1, <3>1
  <2> QED
    BY <2>1, <2>2
<1>4. Threads \subseteq 0 .. k - 1
  BY <1>1, ThreadNumbers
<1> HIDE DEF k, s
<1>5. /\ IsFiniteSet(0 .. k - 1) /\ Cardinality(0 .. k - 1) = k
      /\ IsFiniteSet(1 .. s) /\ Cardinality(1 .. s) = s
  <2>1. k - 1 \in Int /\ 0 \in Int /\ 1 \in Int /\ s \in Int
    BY <1>2
  <2>2. /\ IsFiniteSet(0 .. k - 1)
        /\ Cardinality(0 .. k - 1) = IF 0 > k - 1 THEN 0 ELSE k - 1 - 0 + 1
    BY <2>1, FS_Interval
  <2>3. /\ IsFiniteSet(1 .. s)
        /\ Cardinality(1 .. s) = IF 1 > s THEN 0 ELSE s - 1 + 1
    BY <2>1, FS_Interval
  <2> QED
    BY <1>2, <2>2, <2>3
<1>6. IsFiniteSet(All) /\ Cardinality(All) = k * s
  <2> DEFINE A == 0 .. k - 1
             B == 1 .. s
  <2>1. /\ IsFiniteSet(A) /\ IsFiniteSet(B)
        /\ Cardinality(A) = k /\ Cardinality(B) = s /\ All = A \X B
    BY <1>5
  <2> HIDE DEF A, B, All
  <2>2. IsFiniteSet(A \X B) /\ Cardinality(A \X B) = Cardinality(A) * Cardinality(B)
    BY <2>1, FS_Product
  <2> QED
    BY <2>1, <2>2
<1> DEFINE W == Threads \X (1 .. s)
<1>7. W \in SUBSET All
  BY <1>4
<1> HIDE DEF All, W
<1>8. IsFiniteSet(W) /\ Cardinality(W) <= Cardinality(All)
  BY <1>6, <1>7, FS_Subset
<1>9. Cardinality(W) \in Nat
  BY <1>8, FS_CardinalityType
<1>10. k * s = s * k /\ s * k \in Nat
  BY <1>2
<1>11. Cardinality(W) <= n
  BY <1>3, <1>6, <1>8, <1>9, <1>10
<1> QED
  BY <1>8, <1>11 DEF W, s

(* All iterations of all threads together are not more than the faults asked *)
(* for.                                                                      *)
LEMMA WorkBound ==
  ASSUME Shapes
  PROVE  IsFiniteSet(Work) /\ Cardinality(Work) <= HardCount
<1> DEFINE All == Threads \X (1 .. Share(HardCount))
<1>1. HardCount \in Nat /\ setup \in Setups
  BY Counts DEF Shapes
<1>2. IsFiniteSet(All) /\ Cardinality(All) <= HardCount
  BY <1>1, SharedOut
<1>3. Work \in SUBSET All
  BY DEF Work
<1> HIDE DEF All
<1>4. IsFiniteSet(Work) /\ Cardinality(Work) <= Cardinality(All)
  BY <1>2, <1>3, FS_Subset
<1>5. Cardinality(Work) \in Nat /\ Cardinality(All) \in Nat
  BY <1>2, <1>4, FS_CardinalityType
<1> QED
  BY <1>1, <1>2, <1>4, <1>5

(* No fault is drawn at first. *)
LEMMA HardInit == Init => HardInv
<1> SUFFICES ASSUME Init PROVE HardInv
  OBVIOUS
<1> USE DEF Init
<1>1. MapDrawn /\ RegDrawn /\ NoneEmpty
  BY DEF MapDrawn, RegDrawn, NoneEmpty
<1>2. IsFiniteSet(drawn) /\ Cardinality(drawn) = 0
  BY FS_EmptySet
<1>3. IsFiniteSet(Work)
  BY TypesInit, WorkBound DEF TypeInv
<1>4. Cardinality(Work) \in Nat
  BY <1>3, FS_CardinalityType
<1>5. \A t \in Threads : left[t] <= Share(HardCount)
  BY Counts, Shares
<1> QED
  BY <1>1, <1>2, <1>4, <1>5 DEF HardInv, Paid

(* Drawing a bit takes an iteration that had drawn none. *)
LEMMA DrawingPays ==
  ASSUME TypeInv, HardInv, NEW t \in Threads, LoadHard(t)
  PROVE  Paid'
<1> USE DEF TypeInv, HardInv
<1>1. /\ setup' = setup /\ phase = "hard" /\ phase' = "hard" /\ pc[t] = "loop"
      /\ left[t] > 0 /\ left' = left
      /\ pc' = [pc EXCEPT ![t] = "store"]
  BY DEF LoadHard
<1>2. PICK q : drawn' = drawn \cup {q}
  BY DEF LoadHard
<1>3. Threads' = Threads /\ Share(HardCount)' = Share(HardCount)
  BY <1>1, Frozen
<1>4. left[t] \in 1 .. Share(HardCount) /\ left[t] \in Nat
  BY <1>1, Counts, Shares DEF Shapes, Paid
<1>5. <<t, left[t]>> \notin Work
  BY <1>1, <1>4 DEF Work
<1>6. Work' = Work \cup {<<t, left[t]>>}
  <2>1. ASSUME NEW w \in Threads \X (1 .. Share(HardCount))
        PROVE  w \in Work' <=> w \in Work \cup {<<t, left[t]>>}
    <3>1. /\ w \in Work' <=> \/ w[2] > left[w[1]]
                             \/ w[2] = left[w[1]] /\ pc'[w[1]] = "store"
          /\ w \in Work <=> \/ w[2] > left[w[1]]
                            \/ w[2] = left[w[1]] /\ pc[w[1]] = "store"
      BY <1>1, <1>3 DEF Work
    <3>2. w[1] \in Threads /\ w = <<w[1], w[2]>>
      OBVIOUS
    <3>3. CASE w[1] = t
      BY <1>1, <3>1, <3>2, <3>3 DEF Shapes
    <3>4. CASE w[1] # t
      BY <1>1, <3>1, <3>2, <3>4 DEF Shapes
    <3> QED
      BY <3>3, <3>4
  <2>2. Work' \subseteq Threads \X (1 .. Share(HardCount))
    BY <1>3 DEF Work
  <2>3. Work \cup {<<t, left[t]>>} \subseteq Threads \X (1 .. Share(HardCount))
    BY <1>4 DEF Work
  <2> QED
    BY <2>1, <2>2, <2>3
<1>7. /\ IsFiniteSet(Work) /\ IsFiniteSet(drawn)
      /\ Cardinality(drawn) <= Cardinality(Work)
  BY <1>1, WorkBound DEF Paid
<1>8. Cardinality(Work') = Cardinality(Work) + 1
  BY <1>5, <1>6, <1>7, FS_AddElement
<1>9. /\ IsFiniteSet(drawn \cup {q})
      /\ Cardinality(drawn \cup {q}) \in {Cardinality(drawn), Cardinality(drawn) + 1}
  BY <1>7, FS_AddElement
<1>10. Cardinality(drawn) \in Nat /\ Cardinality(Work) \in Nat
  BY <1>7, FS_CardinalityType
<1>11. Cardinality(drawn') <= Cardinality(Work')
  BY <1>2, <1>7, <1>8, <1>9, <1>10
<1>12. \A u \in Threads : left'[u] <= Share(HardCount)'
  BY <1>1, <1>3 DEF Paid
<1> QED
  BY <1>1, <1>2, <1>3, <1>9, <1>11, <1>12 DEF Paid

(* Storing a word pays for nothing new. *)
LEMMA StoringPays ==
  ASSUME TypeInv, HardInv, NEW t \in Threads, StoreHard(t)
  PROVE  Paid'
<1> USE DEF TypeInv, HardInv
<1>1. /\ setup' = setup /\ phase = "hard" /\ phase' = "hard" /\ pc[t] = "store"
      /\ drawn' = drawn
      /\ left' = [left EXCEPT ![t] = @ - 1]
      /\ pc' = [pc EXCEPT ![t] = "loop"]
  BY DEF StoreHard
<1>2. Threads' = Threads /\ Share(HardCount)' = Share(HardCount)
  BY <1>1, Frozen
<1>3. Share(HardCount) \in Nat
  BY Counts, Shares DEF Shapes
<1>4. Work' = Work
  <2>1. ASSUME NEW w \in Threads \X (1 .. Share(HardCount))
        PROVE  w \in Work' <=> w \in Work
    <3>1. /\ w \in Work' <=> \/ w[2] > left'[w[1]]
                             \/ w[2] = left'[w[1]] /\ pc'[w[1]] = "store"
          /\ w \in Work <=> \/ w[2] > left[w[1]]
                            \/ w[2] = left[w[1]] /\ pc[w[1]] = "store"
      BY <1>1, <1>2 DEF Work
    <3>2. w[1] \in Threads /\ w[2] \in Nat /\ left[w[1]] \in Nat
      BY <1>3 DEF Shapes
    <3>3. CASE w[1] = t
      BY <1>1, <3>1, <3>2, <3>3 DEF Shapes
    <3>4. CASE w[1] # t
      BY <1>1, <3>1, <3>2, <3>4 DEF Shapes
    <3> QED
      BY <3>3, <3>4
  <2>2. /\ Work' \subseteq Threads \X (1 .. Share(HardCount))
        /\ Work \subseteq Threads \X (1 .. Share(HardCount))
    BY <1>2 DEF Work
  <2> QED
    BY <2>1, <2>2
<1>5. \A u \in Threads : left'[u] <= Share(HardCount)'
  <2>1. \A u \in Threads : left[u] \in Nat /\ left[u] <= Share(HardCount)
    BY <1>1 DEF Shapes, Paid
  <2> QED
    BY <1>1, <1>2, <1>3, <2>1 DEF Shapes
<1> QED
  BY <1>1, <1>2, <1>4, <1>5 DEF Paid

(* Every step keeps the account of the hard faults. *)
LEMMA HardStep == TypeInv /\ HardInv /\ [Next]_vars => HardInv'
<1> SUFFICES ASSUME TypeInv, HardInv, [Next]_vars PROVE HardInv'
  OBVIOUS
<1> USE DEF TypeInv, HardInv
<1>1. setup' = setup
  BY DEF Next, Thread, vars, LoadHard, StoreHard, LoadSize, StoreSize, LoadVector,
         StoreVector, NextClass, StartVrt, Done
<1>2. Threads' = Threads /\ HardCount' = HardCount /\ Share(HardCount)' = Share(HardCount)
  BY <1>1, Frozen
<1>3. ASSUME NEW t \in Threads, LoadHard(t) PROVE HardInv'
  <2>1. PICK p \in Places, b \in Bits :
          /\ reg' = [reg EXCEPT ![t] = Reg(p, b, hardfault[p], 0)]
          /\ drawn' = drawn \cup {<<p, b>>}
    BY <1>3 DEF LoadHard
  <2>2. reg'[t].place = p /\ reg'[t].bit = b /\ reg'[t].word = hardfault[p]
    BY <2>1 DEF Shapes, Reg
  <2>3. /\ pc' = [pc EXCEPT ![t] = "store"] /\ phase' = "hard" /\ phase = "hard"
        /\ hardfault' = hardfault /\ pc[t] = "loop"
    BY <1>3 DEF LoadHard, map
  <2>4. MapDrawn'
    BY <2>1, <2>3 DEF MapDrawn
  <2>5. RegDrawn'
    BY <1>2, <2>1, <2>2, <2>3 DEF RegDrawn, MapDrawn, Shapes
  <2>6. NoneEmpty'
    <3> SUFFICES ASSUME NEW p1 \in Places, NEW b1 \in Bits, <<p1, b1>> \in drawn',
                        hardfault[p1] = {}
                 PROVE  \E u \in Threads : pc'[u] = "store" /\ reg'[u].place = p1
      BY <1>2, <2>3 DEF NoneEmpty
    <3>1. CASE p1 = p
      BY <2>2, <2>3, <3>1 DEF Shapes
    <3>2. CASE p1 # p
      <4>1. PICK u \in Threads : pc[u] = "store" /\ reg[u].place = p1
        BY <2>1, <3>2 DEF NoneEmpty
      <4> QED
        BY <2>1, <2>3, <4>1 DEF Shapes
    <3> QED
      BY <3>1, <3>2
  <2> QED
    BY <1>3, <2>4, <2>5, <2>6, DrawingPays
<1>4. ASSUME NEW t \in Threads, StoreHard(t) PROVE HardInv'
  <2> DEFINE p == reg[t].place
  <2>1. /\ hardfault' = [hardfault EXCEPT ![p] = OredBit(reg[t])]
        /\ reg' = [reg EXCEPT ![t] = NoReg] /\ pc' = [pc EXCEPT ![t] = "loop"]
        /\ pc[t] = "store" /\ drawn' = drawn /\ phase' = "hard" /\ phase = "hard"
    BY <1>4 DEF StoreHard
  <2>2. p \in Places /\ reg[t].bit \in Bits
    BY <2>1 DEF Working
  <2>3. <<p, reg[t].bit>> \in drawn /\ \A b \in reg[t].word : <<p, b>> \in drawn
    BY <2>1 DEF RegDrawn
  <2>4. hardfault'[p] = reg[t].word \cup {reg[t].bit}
    BY <2>1, <2>2 DEF Shapes, OredBit
  <2>5. \A p1 \in Places : p1 # p => hardfault'[p1] = hardfault[p1]
    BY <2>1 DEF Shapes
  <2> HIDE DEF p
  <2>6. MapDrawn'
    BY <2>1, <2>3, <2>4, <2>5 DEF MapDrawn
  <2>7. RegDrawn'
    BY <1>2, <2>1 DEF RegDrawn, Shapes
  <2>8. NoneEmpty'
    <3> SUFFICES ASSUME NEW p1 \in Places, NEW b1 \in Bits, <<p1, b1>> \in drawn,
                        hardfault'[p1] = {}
                 PROVE  \E u \in Threads : pc'[u] = "store" /\ reg'[u].place = p1
      BY <1>2, <2>1 DEF NoneEmpty
    <3>1. p1 # p
      BY <2>4
    <3>2. PICK u \in Threads : pc[u] = "store" /\ reg[u].place = p1
      BY <2>5, <3>1 DEF NoneEmpty
    <3>3. u # t
      BY <3>1, <3>2 DEF p
    <3> QED
      BY <2>1, <3>2, <3>3 DEF Shapes
  <2> QED
    BY <1>4, <2>6, <2>7, <2>8, StoringPays
<1>5. CASE StartVrt
  <2>1. /\ phase = "hard" /\ phase' = "vrt" /\ drawn' = drawn /\ hardfault' = hardfault
        /\ \A t \in Threads : pc[t] = "loop"
    BY <1>5 DEF StartVrt, Idle, map
  <2>2. MapDrawn' /\ RegDrawn' /\ NoneEmpty'
    BY <2>1 DEF MapDrawn, RegDrawn, NoneEmpty
  <2>3. /\ IsFiniteSet(Work) /\ Cardinality(Work) <= HardCount
        /\ IsFiniteSet(drawn) /\ Cardinality(drawn) <= Cardinality(Work)
    BY <2>1, WorkBound DEF Paid
  <2>4. Cardinality(Work) \in Nat /\ Cardinality(drawn) \in Nat /\ HardCount \in Nat
    BY <2>3, FS_CardinalityType, Counts
  <2>5. Cardinality(drawn) <= HardCount
    BY <2>3, <2>4
  <2>6. Paid'
    BY <1>2, <2>1, <2>3, <2>5 DEF Paid
  <2> QED
    BY <2>2, <2>6
<1>6. ASSUME phase # "hard", phase' # "hard", drawn' = drawn, hardfault' = hardfault
      PROVE  HardInv'
  BY <1>2, <1>6 DEF MapDrawn, RegDrawn, NoneEmpty, Paid
<1>7. ASSUME NEW t \in Threads,
             LoadSize(t) \/ StoreSize(t) \/ LoadVector(t) \/ StoreVector(t) \/ NextClass(t)
      PROVE  HardInv'
  BY <1>6, <1>7 DEF LoadSize, StoreSize, LoadVector, StoreVector, NextClass, map
<1>8. CASE Done
  BY <1>6, <1>8 DEF Done, map
<1>9. CASE UNCHANGED vars
  BY <1>2, <1>9 DEF MapDrawn, RegDrawn, NoneEmpty, Paid, Work, vars, map
<1> QED
  BY <1>3, <1>4, <1>5, <1>7, <1>8, <1>9 DEF Next, Thread

(* For every number of threads, size of the map and number of faults, and      *)
(* however the unlocked |= of the threads interleave: the map holds only hard  *)
(* faults that were drawn, no more of them than were asked for, and a word     *)
(* for which one was drawn never ends up without any (HardFaultGenerator,      *)
(* HardFaultGeneratorThread).                                                  *)
THEOREM RacesLoseBitsOnly == Spec => []RacesOnlyLose
<1>1. TypeInv /\ HardInv => RacesOnlyLose
  <2> SUFFICES ASSUME TypeInv, HardInv PROVE RacesOnlyLose
    OBVIOUS
  <2> USE DEF TypeInv, HardInv
  <2>1. Pairs \subseteq drawn
    BY DEF Pairs, MapDrawn
  <2>2. Cardinality(drawn) <= HardCount
    <3>1. CASE phase = "hard"
      <4>1. /\ IsFiniteSet(Work) /\ Cardinality(Work) <= HardCount
            /\ IsFiniteSet(drawn) /\ Cardinality(drawn) <= Cardinality(Work)
        BY <3>1, WorkBound DEF Paid
      <4>2. Cardinality(Work) \in Nat /\ Cardinality(drawn) \in Nat /\ HardCount \in Nat
        BY <4>1, FS_CardinalityType, Counts
      <4> QED
        BY <4>1, <4>2
    <3>2. CASE phase # "hard"
      BY <3>2 DEF Paid
    <3> QED
      BY <3>1, <3>2
  <2>3. phase # "hard" =>
          \A p \in Places : hardfault[p] = {} => ~\E b \in Bits : <<p, b>> \in drawn
    BY DEF NoneEmpty
  <2> QED
    BY <2>1, <2>2, <2>3 DEF RacesOnlyLose
<1>2. Spec => [](TypeInv /\ HardInv)
  <2>1. Init => TypeInv /\ HardInv
    BY TypesInit, HardInit
  <2>2. TypeInv /\ HardInv /\ [Next]_vars => (TypeInv /\ HardInv)'
    BY TypesStep, HardStep
  <2> QED
    BY <2>1, <2>2, PTL DEF Spec
<1> QED
  BY <1>1, <1>2, PTL

-----------------------------------------------------------------------------
(* A thread alone. *)

\* Entries of class i, by where they are.
InClass(i) ==
  UNION {{p} \X {k \in 1 .. Len(vrt[p]) : vrt[p][k].class = i} : p \in Places}

\* An entry the size of word p already counts and its vector has not got yet.
Owed(p) ==
  IF \E t \in Threads : pc[t] \in {"push", "pushed"} /\ reg[t].place = p THEN 1 ELSE 0

HardAlone ==
  /\ phase # "hard" \/ (\A t \in Threads : pc[t] = "loop") => Pairs = drawn
  /\ phase = "hard" => \A t \in Threads : pc[t] # "loop" =>
       /\ reg[t].word = hardfault[reg[t].place]
       /\ drawn = Pairs \cup {<<reg[t].place, reg[t].bit>>}

SizesAlone == \A p \in Places : vrt_size[p] = (Len(vrt[p]) + Owed(p)) % SizeModulus

RegsAlone ==
  phase = "vrt" => \A t \in Threads :
    /\ pc[t] = "store" => reg[t].size = vrt_size[reg[t].place]
    /\ pc[t] = "pushed" => reg[t].vector = vrt[reg[t].place]

MadeAlone ==
  \A i \in AllClasses : IsFiniteSet(InClass(i)) /\ made[i] = Cardinality(InClass(i))

LoneInv == HardAlone /\ SizesAlone /\ RegsAlone /\ MadeAlone

(* There is no second thread. *)
LEMMA OnlyThread ==
  ASSUME setup \in Setups, Alone, NEW t \in Threads, NEW u \in Threads
  PROVE  t = u
<1>1. IsFiniteSet(Threads)
  <2>1. setup.thread_num - 1 \in Int /\ 0 \in Int
    BY SetupFields
  <2>2. IsFiniteSet(0 .. setup.thread_num - 1)
    BY <2>1, FS_Interval
  <2> QED
    BY <2>2, ThreadNumbers, FS_Subset
<1>2. ASSUME t # u PROVE FALSE
  <2>1. IsFiniteSet({u}) /\ Cardinality({u}) = 1
    <3>1. /\ IsFiniteSet({} \cup {u})
          /\ Cardinality({} \cup {u}) = IF u \in {} THEN Cardinality({}) ELSE Cardinality({}) + 1
      BY FS_EmptySet, FS_AddElement
    <3>2. {} \cup {u} = {u}
      OBVIOUS
    <3> QED
      BY <3>1, <3>2, FS_EmptySet
  <2>2. Cardinality({u} \cup {t}) = 2
    <3>1. t \notin {u}
      BY <1>2
    <3>2. Cardinality({u} \cup {t}) = Cardinality({u}) + 1
      BY <2>1, <3>1, FS_AddElement
    <3> QED
      BY <2>1, <3>2
  <2>3. {u} \cup {t} \in SUBSET Threads
    OBVIOUS
  <2>4. Cardinality({u} \cup {t}) <= Cardinality(Threads)
    BY <1>1, <2>3, FS_Subset
  <2>5. Cardinality(Threads) \in Nat
    BY <1>1, FS_CardinalityType
  <2> QED
    BY <2>2, <2>4, <2>5 DEF Alone
<1> QED
  BY <1>2

(* Counting on 8 bits is counting, seen on 8 bits. *)
LEMMA NextModulo ==
  ASSUME NEW n \in Nat, NEW m \in Nat \ {0}
  PROVE  /\ (n % m) \in Nat
         /\ ((n % m) + 1) % m = (n + 1) % m
<1> DEFINE q == n \div m
           r == n % m
<1>1. q \in Nat /\ r \in 0 .. m - 1 /\ n = (m * q) + r
  BY SMTT(30)
<1> HIDE DEF q, r
<1>2. CASE r + 1 < m
  <2>1. (n + 1) % m = r + 1
    BY <1>1, <1>2, SMTT(30)
  <2>2. (r + 1) % m = r + 1
    BY <1>1, <1>2, SMTT(30)
  <2> QED
    BY <1>1, <2>1, <2>2 DEF r
<1>3. CASE r + 1 = m
  <2>1. n + 1 = m * (q + 1)
    BY <1>1, <1>3, SMTT(30)
  <2>2. (n + 1) % m = 0
    BY <1>1, <2>1, SMTT(30)
  <2>3. (r + 1) % m = 0
    BY <1>3, SMTT(30)
  <2> QED
    BY <1>1, <2>2, <2>3 DEF r
<1> QED
  BY <1>1, <1>2, <1>3

(* Nothing is owed at first. *)
LEMMA LoneInit == Init => LoneInv
<1> SUFFICES ASSUME Init PROVE LoneInv
  OBVIOUS
<1> USE DEF Init
<1>1. HardAlone /\ RegsAlone
  BY DEF HardAlone, RegsAlone, Pairs
<1>2. SizesAlone
  <2>1. \A p \in Places : Owed(p) = 0 /\ Len(vrt[p]) = 0
    BY DEF Owed
  <2> QED
    BY <2>1, SetupAssumption DEF SizesAlone
<1>3. MadeAlone
  <2>1. ASSUME NEW i \in AllClasses PROVE InClass(i) = {}
    <3>1. \A p \in Places : Len(vrt[p]) = 0
      OBVIOUS
    <3> QED
      BY <3>1 DEF InClass
  <2> QED
    BY <2>1, FS_EmptySet DEF MadeAlone
<1> QED
  BY <1>1, <1>2, <1>3 DEF LoneInv

(* An entry at the end of a vector is one more of its class. *)
LEMMA OneMore ==
  ASSUME TypeInv, MadeAlone, NEW p \in Places, NEW e \in Entries, e.class \in AllClasses,
         setup' = setup,
         vrt' = [vrt EXCEPT ![p] = Append(vrt[p], e)],
         made' = [made EXCEPT ![e.class] = @ + 1]
  PROVE  MadeAlone'
<1> USE DEF TypeInv
<1> DEFINE n == Len(vrt[p]) + 1
<1>1. vrt[p] \in Seq(Entries) /\ Len(vrt[p]) \in Nat
  BY DEF Shapes
<1>2. /\ vrt'[p] = Append(vrt[p], e) /\ Len(vrt'[p]) = n /\ vrt'[p][n] = e
      /\ \A k \in 1 .. Len(vrt[p]) : vrt'[p][k] = vrt[p][k]
      /\ \A r \in Places : r # p => vrt'[r] = vrt[r]
  BY <1>1 DEF Shapes
<1>3. AllClasses' = AllClasses
  BY Frozen
<1> SUFFICES ASSUME NEW i \in AllClasses
             PROVE  IsFiniteSet(InClass(i)') /\ made'[i] = Cardinality(InClass(i)')
  BY <1>3 DEF MadeAlone, InClass
<1>4. /\ IsFiniteSet(InClass(i)) /\ made[i] = Cardinality(InClass(i))
      /\ made[i] \in Nat
  BY DEF MadeAlone, Shapes
<1>5. ASSUME NEW w
      PROVE  w \in InClass(i) <=>
               \E r \in Places : \E k \in 1 .. Len(vrt[r]) : w = <<r, k>> /\ vrt[r][k].class = i
  BY DEF InClass
<1>6. ASSUME NEW w
      PROVE  w \in InClass(i)' <=>
               \E r \in Places : \E k \in 1 .. Len(vrt'[r]) : w = <<r, k>> /\ vrt'[r][k].class = i
  BY DEF InClass
<1>7. 1 .. n = 1 .. Len(vrt[p]) \cup {n} /\ n \notin 1 .. Len(vrt[p])
  BY <1>1
<1> HIDE DEF n
<1>8. CASE i = e.class
  <2>1. InClass(i)' = InClass(i) \cup {<<p, n>>}
    <3>1. ASSUME NEW w PROVE w \in InClass(i)' => w \in InClass(i) \cup {<<p, n>>}
      BY <1>2, <1>5, <1>6, <1>7
    <3>2. ASSUME NEW w PROVE w \in InClass(i) \cup {<<p, n>>} => w \in InClass(i)'
      <4>1. CASE w = <<p, n>>
        BY <1>2, <1>6, <1>7, <1>8, <4>1
      <4>2. CASE w \in InClass(i)
        BY <1>2, <1>5, <1>6, <1>7, <4>2
      <4> QED
        BY <4>1, <4>2
    <3> QED
      BY <3>1, <3>2
  <2>2. <<p, n>> \notin InClass(i)
    BY <1>5, <1>7
  <2>3. made'[i] = made[i] + 1
    BY <1>8 DEF Shapes
  <2>4. /\ IsFiniteSet(InClass(i) \cup {<<p, n>>})
        /\ Cardinality(InClass(i) \cup {<<p, n>>}) = made[i] + 1
    <3> DEFINE S == InClass(i)
    <3>1. IsFiniteSet(S) /\ Cardinality(S) = made[i] /\ <<p, n>> \notin S
      BY <1>4, <2>2
    <3> HIDE DEF S
    <3>2. IsFiniteSet(S \cup {<<p, n>>}) /\ Cardinality(S \cup {<<p, n>>}) = made[i] + 1
      BY <3>1, FS_AddElement
    <3> QED
      BY <3>2 DEF S
  <2> QED
    BY <2>1, <2>3, <2>4
<1>9. CASE i # e.class
  <2>1. InClass(i)' = InClass(i)
    <3>1. ASSUME NEW w PROVE w \in InClass(i)' <=> w \in InClass(i)
      BY <1>2, <1>5, <1>6, <1>7, <1>9
    <3> QED
      BY <3>1
  <2>2. made'[i] = made[i]
    BY <1>9 DEF Shapes
  <2> QED
    BY <1>4, <2>1, <2>2
<1> QED
  BY <1>8, <1>9

(* A lone thread keeps its account. *)
LEMMA LoneStep ==
  Alone /\ TypeInv /\ HardInv /\ LoneInv /\ [Next]_vars => LoneInv'
<1> SUFFICES ASSUME Alone, TypeInv, HardInv, LoneInv, [Next]_vars PROVE LoneInv'
  OBVIOUS
<1> USE DEF TypeInv, HardInv, LoneInv
<1>1. setup' = setup
  BY DEF Next, Thread, vars, LoadHard, StoreHard, LoadSize, StoreSize, LoadVector,
         StoreVector, NextClass, StartVrt, Done
<1>2. Threads' = Threads /\ AllClasses' = AllClasses
  BY <1>1, Frozen
<1>3. \A t, u \in Threads : t = u
  BY OnlyThread DEF Shapes
<1>4. ASSUME UNCHANGED <<vrt, made>> PROVE MadeAlone'
  BY <1>2, <1>4 DEF MadeAlone, InClass
<1>5. ASSUME UNCHANGED <<vrt_size, vrt>>,
             \A t \in Threads : pc[t] \notin {"push", "pushed"} /\ pc'[t] \notin {"push", "pushed"}
      PROVE  SizesAlone'
  BY <1>2, <1>5 DEF SizesAlone, Owed
<1>6. ASSUME NEW t \in Threads, LoadHard(t) PROVE LoneInv'
  <2>1. PICK p \in Places, b \in Bits :
          /\ reg' = [reg EXCEPT ![t] = Reg(p, b, hardfault[p], 0)]
          /\ drawn' = drawn \cup {<<p, b>>}
    BY <1>6 DEF LoadHard
  <2>2. /\ reg'[t].place = p /\ reg'[t].bit = b /\ reg'[t].word = hardfault[p]
        /\ pc[t] = "loop" /\ pc'[t] = "store" /\ phase = "hard" /\ phase' = "hard"
        /\ UNCHANGED <<hardfault, vrt_size, vrt, made>>
    BY <1>6, <2>1 DEF LoadHard, Shapes, Reg, map
  <2>3. Pairs = drawn
    BY <1>3, <2>2 DEF HardAlone
  <2>4. HardAlone'
    BY <1>2, <1>3, <2>1, <2>2, <2>3 DEF HardAlone, Pairs
  <2>5. SizesAlone' /\ RegsAlone' /\ MadeAlone'
    BY <1>3, <1>4, <1>5, <2>2 DEF RegsAlone
  <2> QED
    BY <2>4, <2>5
<1>7. ASSUME NEW t \in Threads, StoreHard(t) PROVE LoneInv'
  <2> DEFINE p == reg[t].place
             b == reg[t].bit
  <2>1. /\ pc[t] = "store" /\ pc'[t] = "loop" /\ phase = "hard" /\ phase' = "hard"
        /\ hardfault' = [hardfault EXCEPT ![p] = reg[t].word \cup {b}]
        /\ UNCHANGED <<vrt_size, vrt, made, drawn>>
    BY <1>7 DEF StoreHard, Shapes, OredBit
  <2>2. p \in Places /\ b \in Bits
    BY <2>1 DEF Working
  <2>3. reg[t].word = hardfault[p] /\ drawn = Pairs \cup {<<p, b>>}
    BY <2>1 DEF HardAlone
  <2> HIDE DEF p, b
  <2>4. /\ hardfault'[p] = hardfault[p] \cup {b}
        /\ \A r \in Places : r # p => hardfault'[r] = hardfault[r]
    BY <2>1, <2>2, <2>3 DEF Shapes
  <2>5. Pairs' = drawn
    <3>1. ASSUME NEW q \in Places \X Bits PROVE q \in Pairs' <=> q \in Pairs \cup {<<p, b>>}
      <4>1. /\ q \in Pairs' <=> q[2] \in hardfault'[q[1]]
            /\ q \in Pairs <=> q[2] \in hardfault[q[1]]
        BY DEF Pairs
      <4>2. q = <<q[1], q[2]>> /\ q[1] \in Places
        OBVIOUS
      <4>3. CASE q[1] = p
        BY <2>4, <4>1, <4>2, <4>3
      <4>4. CASE q[1] # p
        BY <2>4, <4>1, <4>2, <4>4
      <4> QED
        BY <4>3, <4>4
    <3>2. Pairs' \subseteq Places \X Bits /\ Pairs \cup {<<p, b>>} \subseteq Places \X Bits
      BY <2>2 DEF Pairs
    <3> QED
      BY <2>3, <3>1, <3>2
  <2>6. HardAlone'
    BY <1>2, <1>3, <2>1, <2>5 DEF HardAlone
  <2>7. SizesAlone' /\ RegsAlone' /\ MadeAlone'
    BY <1>3, <1>4, <1>5, <2>1 DEF RegsAlone
  <2> QED
    BY <2>6, <2>7
<1>8. ASSUME phase # "hard", phase' # "hard", UNCHANGED <<hardfault, drawn>>
      PROVE  HardAlone'
  BY <1>8 DEF HardAlone, Pairs
<1>9. ASSUME NEW t \in Threads, LoadSize(t) PROVE LoneInv'
  <2>1. PICK p \in Places, b \in Bits : reg' = [reg EXCEPT ![t] = Reg(p, b, {}, vrt_size[p])]
    BY <1>9 DEF LoadSize
  <2>2. /\ reg'[t].place = p /\ reg'[t].size = vrt_size[p]
        /\ pc[t] = "loop" /\ pc'[t] = "store" /\ phase = "vrt" /\ phase' = "vrt"
        /\ UNCHANGED <<hardfault, vrt_size, vrt, made, drawn>>
    BY <1>9, <2>1 DEF LoadSize, Shapes, Reg, map
  <2>3. HardAlone' /\ SizesAlone' /\ MadeAlone'
    BY <1>3, <1>4, <1>5, <1>8, <2>2
  <2>4. RegsAlone'
    BY <1>2, <1>3, <2>2 DEF RegsAlone
  <2> QED
    BY <2>3, <2>4
<1>10. ASSUME NEW t \in Threads, StoreSize(t) PROVE LoneInv'
  <2> DEFINE p == reg[t].place
  <2>1. /\ pc[t] = "store" /\ pc'[t] = "push" /\ phase = "vrt" /\ phase' = "vrt"
        /\ vrt_size' = [vrt_size EXCEPT ![p] = IncrementedSize(reg[t].size)]
        /\ UNCHANGED <<hardfault, vrt, made, drawn, reg>>
    BY <1>10 DEF StoreSize, Shapes
  <2>2. p \in Places
    BY <2>1 DEF Working
  <2>3. reg[t].size = vrt_size[p]
    BY <2>1 DEF RegsAlone
  <2>4. /\ Owed(p) = 0
        /\ \A r \in Places : (r = p => Owed(r)' = 1) /\ (r # p => Owed(r)' = 0 /\ Owed(r) = 0)
    BY <1>2, <1>3, <2>1 DEF Owed
  <2> HIDE DEF p
  <2>5. ASSUME NEW r \in Places
        PROVE  vrt_size'[r] = (Len(vrt'[r]) + Owed(r)') % SizeModulus
    <3>1. Len(vrt[r]) \in Nat /\ SizeModulus \in Nat \ {0}
      BY SetupAssumption DEF Shapes
    <3>2. CASE r = p
      <4> DEFINE n == Len(vrt[p])
      <4> HIDE DEF n
      <4>1. vrt_size[p] = n % SizeModulus
        <5>1. vrt_size[p] = (n + Owed(p)) % SizeModulus
          BY <2>2 DEF SizesAlone, n
        <5>2. n + Owed(p) = n
          BY <2>4, <3>1, <3>2 DEF n
        <5> QED
          BY <5>1, <5>2
      <4>2. vrt_size'[p] = (vrt_size[p] + 1) % SizeModulus
        BY <2>1, <2>2, <2>3 DEF Shapes, IncrementedSize
      <4>3. (vrt_size[p] + 1) % SizeModulus = (n + 1) % SizeModulus
        BY <3>1, <3>2, <4>1, NextModulo DEF n
      <4>4. Owed(r)' = 1
        BY <2>4, <3>2
      <4>5. Len(vrt'[r]) = n
        BY <2>1, <3>2 DEF n
      <4> QED
        BY <3>2, <4>2, <4>3, <4>4, <4>5
    <3>3. CASE r # p
      <4>1. vrt_size'[r] = vrt_size[r] /\ vrt'[r] = vrt[r]
        BY <2>1, <2>2, <3>3 DEF Shapes
      <4>2. Owed(r)' = Owed(r)
        BY <2>4, <3>3
      <4>3. vrt_size[r] = (Len(vrt[r]) + Owed(r)) % SizeModulus
        BY DEF SizesAlone
      <4> QED
        BY <4>1, <4>2, <4>3
    <3> QED
      BY <3>2, <3>3
  <2>6. SizesAlone'
    BY <2>5 DEF SizesAlone
  <2>7. HardAlone' /\ MadeAlone'
    BY <1>4, <1>8, <2>1
  <2>8. RegsAlone'
    BY <1>2, <1>3, <2>1 DEF RegsAlone
  <2> QED
    BY <2>6, <2>7, <2>8
<1>11. ASSUME NEW t \in Threads, LoadVector(t) PROVE LoneInv'
  <2>1. /\ pc[t] = "push" /\ pc'[t] = "pushed" /\ phase = "vrt" /\ phase' = "vrt"
        /\ UNCHANGED <<hardfault, vrt_size, vrt, made, drawn>>
    BY <1>11 DEF LoadVector, Shapes, map
  <2>2. reg[t] \in Regs /\ reg' = [reg EXCEPT ![t] = [reg[t] EXCEPT !.vector = vrt[reg[t].place]]]
    BY <1>11 DEF LoadVector, Shapes
  <2>3. reg'[t].place = reg[t].place /\ reg'[t].vector = vrt[reg[t].place]
    BY <2>2 DEF Shapes, Regs
  <2>4. SizesAlone'
    <3>1. \A r \in Places : Owed(r)' = Owed(r)
      BY <1>2, <1>3, <2>1, <2>3 DEF Owed
    <3> QED
      BY <2>1, <3>1 DEF SizesAlone
  <2>5. HardAlone' /\ MadeAlone'
    BY <1>4, <1>8, <2>1
  <2>6. RegsAlone'
    BY <1>2, <1>3, <2>1, <2>3 DEF RegsAlone
  <2> QED
    BY <2>4, <2>5, <2>6
<1>12. ASSUME NEW t \in Threads, StoreVector(t) PROVE LoneInv'
  <2> DEFINE p == reg[t].place
             e == NewEntry(t)
  <2>1. /\ pc[t] = "pushed" /\ pc'[t] = "loop" /\ phase = "vrt"
        /\ UNCHANGED <<hardfault, vrt_size, drawn>>
        /\ made' = [made EXCEPT ![class[t]] = @ + 1]
    BY <1>12 DEF StoreVector, Shapes
  <2>2. p \in Places /\ reg[t].bit \in Bits /\ left[t] > 0
    BY <2>1 DEF Working
  <2>3. reg[t].vector = vrt[p]
    BY <2>1 DEF RegsAlone
  <2>4. vrt[p] \in Seq(Entries) /\ Len(vrt[p]) \in Nat
    BY <2>2 DEF Shapes
  <2>5. Pushed(vrt[p], vrt[p], e) = {Append(vrt[p], e)}
    BY <2>4 DEF Pushed
  <2>6. vrt' = [vrt EXCEPT ![p] = Append(vrt[p], e)] /\ phase' = "vrt"
    BY <1>12, <2>1, <2>3, <2>5 DEF StoreVector
  <2>7. class[t] \in AllClasses /\ e \in Entries /\ e.class = class[t]
    <3>1. class[t] \in Nat /\ left[t] \in Nat
      BY DEF Shapes
    <3>2. class[t] \in AllClasses
      BY <2>1, <2>2, <3>1, ClassRange DEF InRange, Shapes
    <3> QED
      BY <2>2, <3>2 DEF Entries, NewEntry
  <2>8. MadeAlone'
    BY <1>1, <2>1, <2>2, <2>6, <2>7, OneMore
  <2>9. SizesAlone'
    <3>1. Owed(p) = 1 /\ \A r \in Places : Owed(r)' = 0 /\ (r # p => Owed(r) = 0)
      BY <1>2, <1>3, <2>1 DEF Owed
    <3>2. Len(vrt'[p]) = Len(vrt[p]) + 1 /\ \A r \in Places : r # p => vrt'[r] = vrt[r]
      BY <2>2, <2>4, <2>6 DEF Shapes
    <3> HIDE DEF p, e
    <3>3. ASSUME NEW r \in Places
          PROVE  vrt_size'[r] = (Len(vrt'[r]) + Owed(r)') % SizeModulus
      <4>1. CASE r = p
        <5>1. Len(vrt'[p]) + 0 = Len(vrt[p]) + 1
          BY <2>4, <3>2
        <5> QED
          BY <2>1, <2>2, <3>1, <4>1, <5>1 DEF SizesAlone
      <4>2. CASE r # p
        BY <2>1, <3>1, <3>2, <4>2 DEF SizesAlone
      <4> QED
        BY <4>1, <4>2
    <3> QED
      BY <3>3 DEF SizesAlone
  <2>10. RegsAlone'
    BY <1>2, <1>3, <2>1 DEF RegsAlone
  <2>11. HardAlone'
    BY <1>8, <2>1, <2>6
  <2> QED
    BY <2>8, <2>9, <2>10, <2>11
<1>13. ASSUME UNCHANGED <<map, made, drawn, pc, reg>>, phase # "hard", phase' # "hard",
              phase = "vrt" \/ phase' # "vrt"
       PROVE  LoneInv'
  <2>1. HardAlone' /\ MadeAlone'
    BY <1>4, <1>8, <1>13 DEF map
  <2>2. SizesAlone' /\ RegsAlone'
    BY <1>2, <1>13 DEF SizesAlone, RegsAlone, Owed, map
  <2> QED
    BY <2>1, <2>2
<1>14. ASSUME NEW t \in Threads, NextClass(t) PROVE LoneInv'
  BY <1>13, <1>14 DEF NextClass
<1>15. CASE Done
  BY <1>13, <1>15 DEF Done
<1>16. CASE StartVrt
  <2>1. /\ phase' = "vrt" /\ \A t \in Threads : pc[t] = "loop"
        /\ UNCHANGED <<hardfault, vrt_size, vrt, made, drawn, pc, reg>>
    BY <1>16 DEF StartVrt, Idle, map
  <2>2. HardAlone'
    BY <2>1 DEF HardAlone, Pairs
  <2>3. SizesAlone' /\ RegsAlone' /\ MadeAlone'
    BY <1>2, <1>4, <1>5, <2>1 DEF RegsAlone
  <2> QED
    BY <2>2, <2>3
<1>17. CASE UNCHANGED vars
  <2>1. HardAlone' /\ MadeAlone'
    BY <1>2, <1>4, <1>17 DEF HardAlone, Pairs, vars, map
  <2>2. SizesAlone' /\ RegsAlone'
    BY <1>2, <1>17 DEF SizesAlone, RegsAlone, Owed, vars, map
  <2> QED
    BY <2>1, <2>2
<1> QED
  BY <1>6, <1>7, <1>9, <1>10, <1>11, <1>12, <1>14, <1>15, <1>16, <1>17 DEF Next, Thread

(* HardFaultGeneratorThread and VRTErrorGeneratorThread on one thread, or on  *)
(* none, lose nothing: between two iterations every hard fault drawn is in    *)
(* the map, every entry made in a vector, and each size is the length of its  *)
(* vector, wrapped.                                                           *)
THEOREM AloneLosesNothing == Spec => []AloneNothingIsLost
<1>1. TypeInv /\ (Alone => LoneInv) => AloneNothingIsLost
  <2> SUFFICES ASSUME TypeInv, LoneInv, \A t \in Threads : pc[t] = "loop"
               PROVE  /\ Pairs = drawn
                      /\ \A p \in Places : vrt_size[p] = Len(vrt[p]) % SizeModulus
                      /\ \A i \in AllClasses : made[i] = Cardinality(InClass(i))
    BY DEF AloneNothingIsLost, InClass
  <2> USE DEF LoneInv
  <2>1. Pairs = drawn
    BY DEF HardAlone
  <2>2. ASSUME NEW p \in Places PROVE vrt_size[p] = Len(vrt[p]) % SizeModulus
    <3> DEFINE n == Len(vrt[p])
    <3>1. n \in Nat
      BY DEF TypeInv, Shapes
    <3>2. Owed(p) = 0
      BY DEF Owed
    <3>3. vrt_size[p] = (n + Owed(p)) % SizeModulus
      BY DEF SizesAlone
    <3> HIDE DEF n
    <3>4. n + Owed(p) = n
      BY <3>1, <3>2
    <3> QED
      BY <3>3, <3>4 DEF n
  <2>3. \A i \in AllClasses : made[i] = Cardinality(InClass(i))
    BY DEF MadeAlone
  <2> QED
    BY <2>1, <2>2, <2>3
<1>2. Spec => [](TypeInv /\ HardInv /\ (Alone => LoneInv))
  <2>1. Init => TypeInv /\ HardInv /\ (Alone => LoneInv)
    BY TypesInit, HardInit, LoneInit
  <2>2. TypeInv /\ HardInv /\ (Alone => LoneInv) /\ [Next]_vars
          => (TypeInv /\ HardInv /\ (Alone => LoneInv))'
    <3> SUFFICES ASSUME TypeInv, HardInv, Alone => LoneInv, [Next]_vars
                 PROVE  (TypeInv /\ HardInv /\ (Alone => LoneInv))'
      OBVIOUS
    <3>1. TypeInv' /\ HardInv'
      BY TypesStep, HardStep
    <3>2. setup' = setup
      BY DEF Next, Thread, vars, LoadHard, StoreHard, LoadSize, StoreSize, LoadVector,
             StoreVector, NextClass, StartVrt, Done
    <3>3. Alone' => Alone
      BY <3>2, Frozen DEF Alone
    <3> QED
      BY <3>1, <3>3, LoneStep
  <2> QED
    BY <2>1, <2>2, PTL DEF Spec
<1> QED
  BY <1>1, <1>2, PTL

-----------------------------------------------------------------------------
(* Classes. *)

\* Class i is one of the range of thread t.
Visits(t, i) == FirstClass(t) <= i /\ i <= LastClass(t)

\* The iterations of class i the threads have come to the end of.
Iterations(i) ==
  {w \in Threads \X (1 .. ClassShare(i)) :
     /\ Visits(w[1], i)
     /\ class[w[1]] > i \/ (class[w[1]] = i /\ w[2] > left[w[1]])}

\* Every entry made took an iteration of its own, and every iteration made one.
MadeByIterations ==
  \A i \in AllClasses :
    IsFiniteSet(Iterations(i)) /\ made[i] = Cardinality(Iterations(i))

ClassInv ==
  /\ phase = "hard" => \A t \in Threads : class[t] = 0
  /\ phase = "vrt" => \A t \in Threads : left[t] > 0 => left[t] <= ClassShare(class[t])
  /\ phase = "done" => \A t \in Threads : left[t] = 0 /\ class[t] >= LastClass(t)
  /\ MadeByIterations

(* The ranges of classes of two threads do not meet. *)
LEMMA OneVisitor ==
  ASSUME setup \in Setups, Beta, NEW t \in Threads, NEW u \in Threads, NEW i \in Nat,
         Visits(t, i), Visits(u, i)
  PROVE  t = u
<1> DEFINE T == setup.thread_num
           N == NumClasses
<1>1. T \in Nat \ {0} /\ N \in Nat \ {0} /\ t \in 0 .. T - 1 /\ u \in 0 .. T - 1
  BY SetupFields, Counts, ThreadNumbers
<1>2. ASSUME NEW a \in 0 .. T - 1, NEW b \in 0 .. T - 1, a < b
      PROVE  (a * N) \div T + N \div T <= (b * N) \div T
  <2> DEFINE p == (a * N) \div T
             q == N \div T
             r == (b * N) \div T
  <2>1. a * N \in Nat /\ b * N \in Nat /\ a * N + N <= b * N
    <3> HIDE DEF T, N
    <3>1. (a + 1) * N <= b * N
      BY <1>1, <1>2, SMTT(30)
    <3>2. (a + 1) * N = a * N + N
      BY <1>1, SMTT(30)
    <3>3. a * N \in Nat /\ b * N \in Nat
      BY <1>1
    <3> QED
      BY <3>1, <3>2, <3>3
  <2>2. /\ p \in Nat /\ p * T <= a * N
        /\ q \in Nat /\ q * T <= N
    BY <1>1, <2>1, QuotientTimesDivisor
  <2>3. r \in Nat /\ b * N < (r + 1) * T
    <3> DEFINE n == b * N
    <3>1. n \in Nat /\ r = n \div T
      BY <2>1
    <3> HIDE DEF n, T, r
    <3>2. r \in Nat /\ n < (r + 1) * T
      BY <1>1, <3>1, SMTT(30)
    <3> QED
      BY <3>2 DEF n
  <2> HIDE DEF p, q, r, T, N
  <2>4. (p + q) * T < (r + 1) * T
    <3>1. (p + q) * T = p * T + q * T
      BY <1>1, <2>2, SMTT(30)
    <3>2. p * T \in Int /\ q * T \in Int /\ (r + 1) * T \in Int
      BY <1>1, <2>2, <2>3
    <3> QED
      BY <1>1, <2>1, <2>2, <2>3, <3>1, <3>2
  <2>5. p + q < r + 1
    <3>1. ASSUME p + q >= r + 1 PROVE FALSE
      <4>1. (p + q) * T >= (r + 1) * T
        BY <1>1, <2>2, <2>3, <3>1, SMTT(30)
      <4>2. (p + q) * T \in Int /\ (r + 1) * T \in Int
        BY <1>1, <2>2, <2>3
      <4> QED
        BY <2>4, <4>1, <4>2
    <3> QED
      BY <2>2, <2>3, <3>1
  <2>6. p + q <= r
    BY <2>2, <2>3, <2>5
  <2> QED
    BY <2>6 DEF p, q, r
<1>3. /\ (t * N) \div T <= i /\ i <= (t * N) \div T + N \div T - 1
      /\ (u * N) \div T <= i /\ i <= (u * N) \div T + N \div T - 1
  BY DEF Visits, FirstClass, LastClass
<1>4. /\ (t * N) \div T \in Int /\ (u * N) \div T \in Int /\ N \div T \in Int
  <2>1. t * N \in Nat /\ u * N \in Nat
    BY <1>1
  <2> QED
    BY <1>1, <2>1, QuotientTimesDivisor
<1>5. ASSUME NEW a \in {t, u}, NEW b \in {t, u}, a < b PROVE FALSE
  <2>1. (a * N) \div T + N \div T <= (b * N) \div T
    BY <1>1, <1>2, <1>5
  <2>2. /\ (b * N) \div T <= i /\ i <= (a * N) \div T + N \div T - 1
        /\ (a * N) \div T \in Int /\ (b * N) \div T \in Int
    BY <1>3, <1>4
  <2> QED
    BY <1>4, <2>1, <2>2
<1> QED
  BY <1>1, <1>5

(* The iterations of a class can be counted. *)
LEMMA IterationsFinite ==
  ASSUME setup \in Setups, NEW i \in AllClasses
  PROVE  /\ IsFiniteSet(Threads) /\ IsFiniteSet(1 .. ClassShare(i))
         /\ Cardinality(1 .. ClassShare(i)) = ClassShare(i)
         /\ IsFiniteSet(Iterations(i))
<1>1. IsFiniteSet(Threads)
  <2>1. setup.thread_num - 1 \in Int /\ 0 \in Int
    BY SetupFields
  <2>2. IsFiniteSet(0 .. setup.thread_num - 1)
    BY <2>1, FS_Interval
  <2> QED
    BY <2>2, ThreadNumbers, FS_Subset
<1>2. /\ IsFiniteSet(1 .. ClassShare(i))
      /\ Cardinality(1 .. ClassShare(i)) = ClassShare(i)
  <2> DEFINE s == ClassShare(i)
  <2>1. s \in Nat /\ 1 \in Int
    BY ClassShares
  <2> HIDE DEF s
  <2>2. /\ IsFiniteSet(1 .. s)
        /\ Cardinality(1 .. s) = IF 1 > s THEN 0 ELSE s - 1 + 1
    BY <2>1, FS_Interval
  <2> QED
    BY <2>1, <2>2 DEF s
<1>3. IsFiniteSet(Threads \X (1 .. ClassShare(i)))
  BY <1>1, <1>2, FS_Product
<1>4. Iterations(i) \subseteq Threads \X (1 .. ClassShare(i))
  BY DEF Iterations
<1> QED
  BY <1>1, <1>2, <1>3, <1>4, FS_Subset

(* No iteration is done at first. *)
LEMMA ClassInit == Init => ClassInv
<1> SUFFICES ASSUME Init PROVE ClassInv
  OBVIOUS
<1> USE DEF Init
<1>1. ASSUME NEW i \in AllClasses PROVE Iterations(i) = {}
  <2>1. ClassShare(0) = 0 \/ ~Beta
    BY DEF ClassShare
  <2>2. i \in Nat /\ (i = 0 => Beta)
    BY Counts DEF AllClasses
  <2>3. i = 0 => 1 .. ClassShare(i) = {}
    BY <2>1, <2>2
  <2> QED
    BY <2>2, <2>3 DEF Iterations
<1>2. Cardinality({}) = 0 /\ IsFiniteSet({})
  BY FS_EmptySet
<1>3. MadeByIterations
  BY <1>1, <1>2 DEF MadeByIterations
<1> QED
  BY <1>3 DEF ClassInv

(* What depends on the configuration only stays as it is. *)
LEMMA FrozenClasses ==
  ASSUME setup' = setup
  PROVE  /\ Beta' = Beta
         /\ \A i : ClassShare(i)' = ClassShare(i)
         /\ \A t, i : Visits(t, i)' <=> Visits(t, i)
BY DEF Beta, ClassShare, Share, Multi, Visits, FirstClass, LastClass

(* Before the second generator has made an entry no iteration is done. *)
LEMMA NothingDone ==
  ASSUME setup \in Setups, NEW i \in AllClasses,
         \A t \in Threads :
           \/ class[t] = 0
           \/ Visits(t, i) => class[t] = FirstClass(t) /\ left[t] = ClassShare(FirstClass(t))
  PROVE  Iterations(i) = {}
<1> SUFFICES ASSUME NEW t \in Threads, NEW n \in 1 .. ClassShare(i), Visits(t, i),
                    class[t] > i \/ (class[t] = i /\ n > left[t])
             PROVE  FALSE
  BY DEF Iterations
<1>1. i \in Nat /\ ClassShare(i) \in Nat /\ (i = 0 => ClassShare(i) = 0)
  BY Counts, ClassShares DEF AllClasses, ClassShare
<1>2. i > 0
  BY <1>1
<1>3. class[t] # 0
  BY <1>1, <1>2
<1>4. class[t] = FirstClass(t) /\ left[t] = ClassShare(FirstClass(t))
  BY <1>3
<1>5. FirstClass(t) <= i /\ FirstClass(t) \in Nat
  BY ClassRange DEF Visits
<1> QED
  BY <1>1, <1>4, <1>5

(* Every step keeps the account of the iterations. *)
LEMMA ClassStep == TypeInv /\ ClassInv /\ [Next]_vars => ClassInv'
<1> SUFFICES ASSUME TypeInv, ClassInv, [Next]_vars PROVE ClassInv'
  OBVIOUS
<1> USE DEF TypeInv
<1>1. setup' = setup
  BY DEF Next, Thread, vars, LoadHard, StoreHard, LoadSize, StoreSize, LoadVector,
         StoreVector, NextClass, StartVrt, Done
<1>2. /\ Threads' = Threads /\ AllClasses' = AllClasses /\ Beta' = Beta
      /\ \A t : FirstClass(t)' = FirstClass(t) /\ LastClass(t)' = LastClass(t)
      /\ \A i : ClassShare(i)' = ClassShare(i)
      /\ \A t, i : Visits(t, i)' <=> Visits(t, i)
  BY <1>1, Frozen, FrozenClasses
<1>3. /\ setup \in Setups /\ setup' \in Setups
      /\ left \in [Threads -> Nat] /\ class \in [Threads -> Nat]
      /\ made \in [AllClasses -> Nat]
  BY <1>1 DEF Shapes
<1>4. ASSUME NEW i \in AllClasses, UNCHANGED made, Iterations(i)' = Iterations(i)
      PROVE  IsFiniteSet(Iterations(i)') /\ made'[i] = Cardinality(Iterations(i)')
  BY <1>4 DEF ClassInv, MadeByIterations
<1>5. ASSUME UNCHANGED made, \A i \in AllClasses : Iterations(i)' = Iterations(i)
      PROVE  MadeByIterations'
  BY <1>2, <1>4, <1>5 DEF MadeByIterations
<1>6. ASSUME UNCHANGED <<class, left, made>> PROVE MadeByIterations'
  <2>1. \A i \in AllClasses : Iterations(i)' = Iterations(i)
    BY <1>2, <1>6 DEF Iterations
  <2> QED
    BY <1>5, <1>6, <2>1
<1>7. ASSUME NEW t \in Threads, LoadHard(t) PROVE ClassInv'
  BY <1>2, <1>6, <1>7 DEF LoadHard, ClassInv
<1>8. ASSUME NEW t \in Threads, StoreHard(t) PROVE ClassInv'
  <2>1. phase = "hard" /\ phase' = "hard" /\ UNCHANGED <<class, made>>
    BY <1>8 DEF StoreHard
  <2>2. \A u \in Threads : class[u] = 0 /\ class'[u] = 0
    BY <2>1 DEF ClassInv
  <2>3. \A i \in AllClasses : Iterations(i) = {}
    BY <1>3, <2>2, NothingDone
  <2>4. ASSUME NEW i \in AllClasses PROVE Iterations(i)' = {}
    <3>1. i \in Nat /\ ClassShare(i) \in Nat /\ (i = 0 => ClassShare(i) = 0)
      <4>1. i \in Nat /\ (i = 0 => Beta)
        BY Counts DEF AllClasses
      <4>2. ClassShare(i) \in Nat
        BY <1>3, ClassShares
      <4>3. i = 0 => ClassShare(i) = 0
        BY <4>1 DEF ClassShare
      <4> QED
        BY <4>1, <4>2, <4>3
    <3>2. \A u \in Threads : class'[u] = i => ClassShare(i) = 0
      BY <2>2, <3>1
    <3>3. \A u \in Threads : ~(class'[u] > i)
      BY <2>2, <3>1
    <3>4. \A w \in Iterations(i)' :
            /\ w[1] \in Threads /\ w[2] \in 1 .. ClassShare(i)
            /\ class'[w[1]] > i \/ class'[w[1]] = i
      BY <1>2 DEF Iterations
    <3>5. ClassShare(i) = 0 => 1 .. ClassShare(i) = {}
      BY <3>1
    <3> QED
      BY <3>2, <3>3, <3>4, <3>5
  <2>5. MadeByIterations'
    BY <1>5, <2>1, <2>3, <2>4
  <2> QED
    BY <1>2, <2>1, <2>2, <2>5 DEF ClassInv
<1>9. ASSUME NEW t \in Threads, LoadSize(t) PROVE ClassInv'
  BY <1>2, <1>6, <1>9 DEF LoadSize, ClassInv
<1>10. ASSUME NEW t \in Threads, StoreSize(t) PROVE ClassInv'
  BY <1>2, <1>6, <1>10 DEF StoreSize, ClassInv
<1>11. ASSUME NEW t \in Threads, LoadVector(t) PROVE ClassInv'
  BY <1>2, <1>6, <1>11 DEF LoadVector, ClassInv
<1>12. ASSUME NEW t \in Threads, StoreVector(t) PROVE ClassInv'
  <2> DEFINE c == class[t]
             m == left[t]
  <2>1. /\ phase = "vrt" /\ phase' \in {"vrt", "crashed"} /\ UNCHANGED class
        /\ made' = [made EXCEPT ![c] = @ + 1]
        /\ left' = [left EXCEPT ![t] = @ - 1]
    BY <1>12 DEF StoreVector
  <2>2. /\ m \in Nat /\ m > 0 /\ c \in Nat /\ FirstClass(t) <= c /\ c <= LastClass(t)
    <3>1. left[t] > 0
      BY <1>12 DEF StoreVector, Working
    <3>2. class[t] >= FirstClass(t) /\ class[t] <= LastClass(t)
      BY <2>1, <3>1 DEF InRange
    <3> QED
      BY <1>3, <3>1, <3>2, ClassRange
  <2>3. c \in AllClasses /\ Visits(t, c)
    BY <1>3, <2>2, ClassRange DEF Visits
  <2>4. m <= ClassShare(c) /\ ClassShare(c) \in Nat
    BY <1>3, <2>1, <2>2, <2>3, ClassShares DEF ClassInv
  <2>5. /\ left'[t] = m - 1 /\ left'[t] \in Nat
        /\ \A u \in Threads : u # t => left'[u] = left[u]
    BY <1>3, <2>1, <2>2
  <2>6. /\ made'[c] = made[c] + 1
        /\ \A i \in AllClasses : i # c => made'[i] = made[i]
    BY <1>3, <2>1, <2>3
  <2> HIDE DEF c, m
  <2>7. Iterations(c)' = Iterations(c) \cup {<<t, m>>}
    <3>1. ASSUME NEW u \in Threads, NEW n \in 1 .. ClassShare(c)
          PROVE  (class'[u] > c \/ (class'[u] = c /\ n > left'[u])) <=>
                   \/ class[u] > c \/ (class[u] = c /\ n > left[u])
                   \/ u = t /\ n = m
      <4>1. CASE u = t
        BY <2>1, <2>2, <2>4, <2>5, <4>1 DEF c, m
      <4>2. CASE u # t
        BY <2>1, <2>5, <4>2
      <4> QED
        BY <4>1, <4>2
    <3>2. <<t, m>> \in Threads \X (1 .. ClassShare(c))
      BY <2>2, <2>4
    <3>3. ASSUME NEW w \in Threads \X (1 .. ClassShare(c))
          PROVE  w \in Iterations(c)' <=> w \in Iterations(c) \cup {<<t, m>>}
      <4>1. PICK u \in Threads, n \in 1 .. ClassShare(c) : w = <<u, n>>
        OBVIOUS
      <4>2. w \in Iterations(c)' <=>
              /\ Visits(u, c)
              /\ class'[u] > c \/ (class'[u] = c /\ n > left'[u])
        BY <1>2, <2>1, <4>1 DEF Iterations, c
      <4>3. w \in Iterations(c) <=>
              /\ Visits(u, c)
              /\ class[u] > c \/ (class[u] = c /\ n > left[u])
        BY <4>1 DEF Iterations
      <4> QED
        BY <2>3, <3>1, <4>1, <4>2, <4>3
    <3>4. /\ Iterations(c)' \subseteq Threads \X (1 .. ClassShare(c))
          /\ Iterations(c) \subseteq Threads \X (1 .. ClassShare(c))
      BY <1>2, <2>1 DEF Iterations, c
    <3> QED
      BY <3>2, <3>3, <3>4
  <2>8. <<t, m>> \notin Iterations(c)
    BY <2>2 DEF Iterations, c, m
  <2>9. IsFiniteSet(Iterations(c)') /\ made'[c] = Cardinality(Iterations(c)')
    <3> DEFINE S == Iterations(c)
    <3>1. IsFiniteSet(S) /\ made[c] = Cardinality(S) /\ <<t, m>> \notin S
      BY <2>3, <2>8 DEF ClassInv, MadeByIterations
    <3> HIDE DEF S
    <3>2. /\ IsFiniteSet(S \cup {<<t, m>>})
          /\ Cardinality(S \cup {<<t, m>>}) = Cardinality(S) + 1
      BY <3>1, FS_AddElement
    <3> QED
      BY <2>6, <2>7, <3>1, <3>2 DEF S
  <2>10. ASSUME NEW i \in AllClasses, i # c
         PROVE  IsFiniteSet(Iterations(i)') /\ made'[i] = Cardinality(Iterations(i)')
    <3>1. \A u \in Threads, n \in 1 .. ClassShare(i) :
            (class'[u] > i \/ (class'[u] = i /\ n > left'[u])) <=>
               (class[u] > i \/ (class[u] = i /\ n > left[u]))
      BY <2>1, <2>5, <2>10 DEF c
    <3>2. Iterations(i)' = Iterations(i)
      BY <1>2, <3>1 DEF Iterations
    <3> QED
      BY <2>6, <2>10, <3>2 DEF ClassInv, MadeByIterations
  <2>11. MadeByIterations'
    <3>1. ASSUME NEW i \in AllClasses
          PROVE  IsFiniteSet(Iterations(i)') /\ made'[i] = Cardinality(Iterations(i)')
      <4>1. c' = c
        BY <2>1 DEF c
      <4> QED
        BY <2>9, <2>10, <4>1
    <3> QED
      BY <1>2, <3>1 DEF MadeByIterations
  <2>12. \A u \in Threads : left'[u] > 0 => left'[u] <= ClassShare(class'[u])
    <3>1. \A u \in Threads : left[u] > 0 => left[u] <= ClassShare(class[u])
      BY <2>1 DEF ClassInv
    <3> QED
      BY <2>1, <2>2, <2>4, <2>5, <3>1 DEF c
  <2> QED
    BY <1>2, <2>1, <2>11, <2>12 DEF ClassInv
<1>13. ASSUME NEW t \in Threads, NextClass(t) PROVE ClassInv'
  <2> DEFINE c == class[t]
  <2>1. /\ phase = "vrt" /\ phase' = "vrt" /\ left[t] = 0 /\ c < LastClass(t)
        /\ class' = [class EXCEPT ![t] = @ + 1]
        /\ left' = [left EXCEPT ![t] = ClassShare(c + 1)]
        /\ UNCHANGED made
    BY <1>13 DEF NextClass
  <2>2. /\ c \in Nat /\ class'[t] = c + 1 /\ left'[t] = ClassShare(c + 1)
        /\ \A u \in Threads : u # t => class'[u] = class[u] /\ left'[u] = left[u]
    BY <1>3, <2>1
  <2>3. ClassShare(c + 1) \in Nat
    <3>1. c >= FirstClass(t) /\ FirstClass(t) \in Nat /\ LastClass(t) \in Int
      BY <1>3, <2>1, ClassRange DEF InRange
    <3>2. c + 1 \in AllClasses
      BY <1>3, <2>1, <2>2, <3>1, ClassRange
    <3> QED
      BY <1>3, <3>2, ClassShares
  <2> HIDE DEF c
  <2>4. ASSUME NEW i \in AllClasses PROVE Iterations(i)' = Iterations(i)
    <3>1. i \in Int /\ ClassShare(i) \in Nat
      <4>1. i \in Int
        BY Counts DEF AllClasses
      <4> QED
        BY <1>3, <4>1, ClassShares
    <3>2. ASSUME NEW u \in Threads, NEW n \in 1 .. ClassShare(i)
          PROVE  (class'[u] > i \/ (class'[u] = i /\ n > left'[u])) <=>
                   (class[u] > i \/ (class[u] = i /\ n > left[u]))
      <4>1. CASE u = t
        <5>1. class[u] > i \/ (class[u] = i /\ n > left[u]) <=> c >= i
          BY <2>1, <2>2, <3>1, <4>1 DEF c
        <5>2. class'[u] > i \/ (class'[u] = i /\ n > left'[u]) <=> c >= i
          <6>1. c + 1 = i => ~(n > ClassShare(c + 1))
            BY <3>1
          <6> QED
            BY <2>2, <3>1, <4>1, <6>1
        <5> QED
          BY <5>1, <5>2
      <4>2. CASE u # t
        BY <2>2, <4>2
      <4> QED
        BY <4>1, <4>2
    <3> QED
      BY <1>2, <3>2 DEF Iterations
  <2>5. MadeByIterations'
    BY <1>5, <2>1, <2>4
  <2>6. \A u \in Threads : left'[u] > 0 => left'[u] <= ClassShare(class'[u])
    <3>1. \A u \in Threads : left[u] > 0 => left[u] <= ClassShare(class[u])
      BY <2>1 DEF ClassInv
    <3> QED
      BY <2>2, <2>3, <3>1
  <2> QED
    BY <1>2, <2>1, <2>5, <2>6 DEF ClassInv
<1>14. CASE StartVrt
  <2>1. /\ phase = "hard" /\ phase' = "vrt" /\ UNCHANGED made
        /\ class' = [t \in Threads |-> FirstClass(t)]
        /\ left' = [t \in Threads |->
                      IF FirstClass(t) <= LastClass(t) THEN ClassShare(FirstClass(t)) ELSE 0]
    BY <1>14 DEF StartVrt
  <2>2. \A t \in Threads : class[t] = 0
    BY <2>1 DEF ClassInv
  <2>3. \A i \in AllClasses : Iterations(i) = {}
    BY <1>3, <2>2, NothingDone
  <2>4. ASSUME NEW i \in AllClasses PROVE Iterations(i)' = {}
    <3> SUFFICES ASSUME NEW t \in Threads, NEW n \in 1 .. ClassShare(i), Visits(t, i),
                        class'[t] > i \/ (class'[t] = i /\ n > left'[t])
                 PROVE  FALSE
      BY <1>2 DEF Iterations
    <3>1. /\ FirstClass(t) <= i /\ FirstClass(t) <= LastClass(t) /\ FirstClass(t) \in Nat
          /\ i \in Nat /\ ClassShare(i) \in Nat
      <4>1. FirstClass(t) \in Nat /\ LastClass(t) \in Int /\ i \in Nat /\ ClassShare(i) \in Nat
        <5>1. setup \in Setups /\ t \in Threads /\ i \in AllClasses
          BY <1>3
        <5>2. i \in Nat
          BY ONLY <5>1, Counts DEF AllClasses
        <5> QED
          BY ONLY <5>1, <5>2, ClassRange, ClassShares
      <4> QED
        BY <4>1 DEF Visits
    <3>2. class'[t] = FirstClass(t) /\ left'[t] = ClassShare(FirstClass(t))
      BY <2>1, <3>1
    <3> QED
      BY <3>1, <3>2
  <2>5. MadeByIterations'
    BY <1>5, <2>1, <2>3, <2>4
  <2>6. \A t \in Threads : left'[t] > 0 => left'[t] <= ClassShare(class'[t])
    <3> SUFFICES ASSUME NEW t \in Threads, left'[t] > 0
                 PROVE  left'[t] <= ClassShare(class'[t])
      OBVIOUS
    <3>1. FirstClass(t) <= LastClass(t)
      BY <2>1
    <3>2. class'[t] = FirstClass(t) /\ left'[t] = ClassShare(FirstClass(t))
      BY <2>1, <3>1
    <3>3. FirstClass(t) \in AllClasses
      BY <1>3, <3>1, ClassRange
    <3>4. ClassShare(FirstClass(t)) \in Nat
      BY <1>3, <3>3, ClassShares
    <3> QED
      BY <3>2, <3>4
  <2> QED
    BY <1>2, <2>1, <2>5, <2>6 DEF ClassInv
<1>15. CASE Done
  <2>1. /\ phase' = "done" /\ UNCHANGED <<class, left, made>>
        /\ \A t \in Threads : left[t] = 0 /\ class[t] >= LastClass(t)
    BY <1>15 DEF Done, Idle
  <2> QED
    BY <1>2, <1>6, <2>1 DEF ClassInv
<1>16. CASE UNCHANGED vars
  <2>1. UNCHANGED <<phase, class, left, made>>
    BY <1>16 DEF vars
  <2> QED
    BY <1>2, <1>6, <2>1 DEF ClassInv
<1> QED
  BY <1>7, <1>8, <1>9, <1>10, <1>11, <1>12, <1>13, <1>14, <1>15, <1>16 DEF Next, Thread

(* As many pairs as there are second components, where the first is given. *)
LEMMA OneTimes ==
  ASSUME NEW t, NEW S, IsFiniteSet(S)
  PROVE  IsFiniteSet({t} \X S) /\ Cardinality({t} \X S) = Cardinality(S)
<1>1. IsFiniteSet({t}) /\ Cardinality({t}) = 1
  BY FS_Singleton
<1>2. /\ IsFiniteSet({t} \X S)
      /\ Cardinality({t} \X S) = Cardinality({t}) * Cardinality(S)
  BY <1>1, FS_Product
<1>3. Cardinality(S) \in Nat
  BY FS_CardinalityType
<1> QED
  BY <1>1, <1>2, <1>3

(* One thread at the most makes the entries of a class of BetaDistFaultModel, *)
(* and none those of class 0 and of the last.                                 *)
LEMMA BetaBound ==
  ASSUME setup \in Setups, Beta, NEW i \in AllClasses
  PROVE  Cardinality(Iterations(i)) <= IF i \in {0, NumClasses} THEN 0 ELSE BetaCount(i)
<1>1. i \in Nat /\ i <= NumClasses /\ NumClasses \in Nat \ {0} /\ BetaCount(i) \in Nat
  BY Counts DEF AllClasses
<1>2. Cardinality({}) = 0
  BY FS_EmptySet
<1>3. CASE i = 0
  <2>1. 1 .. ClassShare(i) = {}
    BY <1>3 DEF ClassShare
  <2>2. Iterations(i) = {}
    BY <2>1 DEF Iterations
  <2> QED
    BY <1>2, <1>3, <2>2
<1>4. CASE i = NumClasses
  <2>1. ASSUME NEW t \in Threads PROVE ~Visits(t, i)
    <3>1. LastClass(t) < NumClasses
      BY ClassRange
    <3>2. LastClass(t) \in Int
      BY ClassRange
    <3> QED
      BY <1>1, <1>4, <3>1, <3>2 DEF Visits
  <2>2. Iterations(i) = {}
    BY <2>1 DEF Iterations
  <2> QED
    BY <1>2, <1>4, <2>2
<1>5. CASE i # 0 /\ i # NumClasses /\ \E t \in Threads : Visits(t, i)
  <2>1. PICK t \in Threads : Visits(t, i)
    BY <1>5
  <2> DEFINE s == ClassShare(i)
             A == {t} \X (1 .. s)
  <2>2. s = BetaCount(i)
    BY <1>5 DEF ClassShare
  <2>3. IsFiniteSet(A) /\ Cardinality(A) = s
    BY IterationsFinite, OneTimes
  <2>4. Iterations(i) \in SUBSET A
    BY <1>1, <2>1, OneVisitor DEF Iterations
  <2> HIDE DEF A, s
  <2>5. Cardinality(Iterations(i)) <= Cardinality(A)
    BY <2>3, <2>4, FS_Subset
  <2> QED
    BY <1>5, <2>2, <2>3, <2>5
<1>6. CASE i # 0 /\ i # NumClasses /\ ~\E t \in Threads : Visits(t, i)
  <2>1. Iterations(i) = {}
    BY <1>6 DEF Iterations
  <2> QED
    BY <1>1, <1>2, <1>6, <2>1
<1> QED
  BY <1>3, <1>4, <1>5, <1>6

(* The threads of NaiveFaultModel do no more than the whole of a class. *)
LEMMA NaiveBound ==
  ASSUME setup \in Setups, ~Beta, NEW i \in AllClasses
  PROVE  Cardinality(Iterations(i)) <= NaiveCounts[i]
<1> DEFINE n == NaiveCounts[i]
           All == Threads \X (1 .. Share(n))
<1>1. n \in Nat
  BY Counts DEF AllClasses
<1>2. Iterations(i) \in SUBSET All
  BY DEF Iterations, ClassShare
<1> HIDE DEF n
<1>3. IsFiniteSet(All) /\ Cardinality(All) <= n
  BY <1>1, SharedOut
<1> HIDE DEF All
<1>4. /\ IsFiniteSet(Iterations(i))
      /\ Cardinality(Iterations(i)) <= Cardinality(All)
  BY <1>2, <1>3, FS_Subset
<1>5. Cardinality(Iterations(i)) \in Nat /\ Cardinality(All) \in Nat
  BY <1>3, <1>4, FS_CardinalityType
<1>6. Cardinality(Iterations(i)) <= n
  BY <1>1, <1>3, <1>4, <1>5
<1> QED
  BY <1>6 DEF n

(* Where the number of threads divides the number of classes, every class of *)
(* BetaDistFaultModel is in the range of one of the threads.                 *)
LEMMA EveryClassVisited ==
  ASSUME setup \in Setups, Beta, Threads = 0 .. setup.thread_num - 1,
         NumClasses % setup.thread_num = 0, NEW i \in 0 .. NumClasses - 1
  PROVE  \E t \in Threads : Visits(t, i)
<1> DEFINE T == setup.thread_num
           N == NumClasses
           k == N \div T
           t == i \div k
<1>1. T \in Nat \ {0} /\ N \in Nat \ {0}
  BY SetupFields, Counts
<1>2. k \in Nat /\ N = k * T
  <2>1. N % T = 0
    OBVIOUS
  <2> HIDE DEF N, T
  <2>2. k \in Nat /\ N = T * k + (N % T)
    BY <1>1
  <2> HIDE DEF k
  <2>3. T * k = k * T /\ k * T \in Nat
    BY <1>1, <2>2
  <2> QED
    BY <1>1, <2>1, <2>2, <2>3
<1>3. k > 0
  <2> HIDE DEF k, N, T
  <2> QED
    BY <1>1, <1>2
<1>4. i \in Nat /\ i < k * T
  <2>1. i \in 0 .. N - 1
    OBVIOUS
  <2> HIDE DEF k, N, T
  <2> QED
    BY <1>1, <1>2, <2>1
<1>5. t \in Nat /\ t * k <= i /\ i < t * k + k
  <2> HIDE DEF k
  <2>1. t \in Nat /\ t * k <= i
    BY <1>2, <1>3, <1>4, QuotientTimesDivisor
  <2>2. i = k * t + (i % k) /\ i % k < k /\ i % k \in Nat
    BY <1>2, <1>3, <1>4
  <2> HIDE DEF t
  <2>3. k * t = t * k /\ t * k \in Nat
    BY <1>2, <2>1
  <2> QED
    BY <1>2, <1>4, <2>1, <2>2, <2>3
<1>6. t < T
  <2> HIDE DEF k, t, T, N
  <2>1. ASSUME t >= T PROVE FALSE
    <3>1. t * k >= T * k
      BY <1>1, <1>2, <1>5, <2>1, SMTT(30)
    <3>2. T * k = k * T /\ k * T \in Nat /\ t * k \in Nat
      BY <1>1, <1>2, <1>5
    <3> QED
      BY <1>4, <1>5, <3>1, <3>2
  <2> QED
    BY <1>1, <1>5, <2>1
<1>7. t \in Threads
  <2>1. Threads = 0 .. T - 1 /\ t \in Nat
    BY <1>5
  <2> HIDE DEF t, T, N, k
  <2>2. t \in 0 .. T - 1
    BY <1>1, <1>6, <2>1
  <2> QED
    BY <2>1, <2>2
<1>8. (t * N) \div T = t * k
  <2> HIDE DEF t, k, N, T
  <2>1. t * N = (t * k) * T
    BY <1>1, <1>2, <1>5, SMTT(30)
  <2> DEFINE m == t * k
  <2>2. m \in Nat
    BY <1>2, <1>5
  <2> HIDE DEF m
  <2>3. (m * T) \div T = m
    BY <1>1, <2>2, SMTT(30)
  <2> QED
    BY <2>1, <2>3 DEF m
<1>9. FirstClass(t) = t * k /\ LastClass(t) = t * k + k - 1
  BY <1>8 DEF FirstClass, LastClass
<1>10. t * k <= i /\ i <= t * k + k - 1
  <2> DEFINE m == t * k
  <2>1. m \in Nat /\ m <= i /\ i < m + k
    <3> HIDE DEF t, k
    <3> QED
      BY <1>2, <1>5
  <2> HIDE DEF m, t, k
  <2>2. m <= i /\ i <= m + k - 1
    BY <1>2, <1>4, <2>1
  <2> QED
    BY <2>2 DEF m
<1> QED
  BY <1>7, <1>9, <1>10 DEF Visits

(* At the end a class that is visited has been made in full. *)
LEMMA AllDone ==
  ASSUME TypeInv, ClassInv, phase = "done", Beta, NEW i \in 1 .. NumClasses - 1,
         \E t \in Threads : Visits(t, i)
  PROVE  made[i] = BetaCount(i)
<1> PICK t \in Threads : Visits(t, i)
  OBVIOUS
<1> DEFINE s == ClassShare(i)
           A == {t} \X (1 .. s)
<1>1. /\ setup \in Setups /\ class \in [Threads -> Nat]
  BY DEF TypeInv, Shapes
<1>2. i \in AllClasses /\ i \in Nat /\ i # 0 /\ LastClass(t) \in Int
  BY <1>1, Counts, ClassRange DEF AllClasses
<1>3. s = BetaCount(i)
  BY <1>2 DEF ClassShare
<1>4. IsFiniteSet(A) /\ Cardinality(A) = s
  BY <1>1, <1>2, IterationsFinite, OneTimes
<1>5. left[t] = 0 /\ class[t] >= i
  <2>1. left[t] = 0 /\ class[t] >= LastClass(t)
    BY DEF ClassInv
  <2> QED
    BY <1>1, <1>2, <2>1 DEF Visits
<1>6. Iterations(i) = A
  <2>1. Iterations(i) \subseteq A
    BY <1>1, <1>2, OneVisitor DEF Iterations
  <2>2. ASSUME NEW n \in 1 .. s PROVE <<t, n>> \in Iterations(i)
    <3>1. class[t] > i \/ (class[t] = i /\ n > left[t])
      BY <1>1, <1>2, <1>5
    <3> QED
      BY <3>1 DEF Iterations
  <2> QED
    BY <2>1, <2>2
<1>7. made[i] = Cardinality(Iterations(i))
  BY <1>2 DEF ClassInv, MadeByIterations
<1> QED
  BY <1>3, <1>4, <1>6, <1>7

(* VRTErrorGeneratorThread: however the threads interleave, no class is made  *)
(* beyond its count, the first and the last of BetaDistFaultModel not at all, *)
(* and where the number of its threads divides that of the classes each class *)
(* is made in full.                                                           *)
THEOREM ClassesAreKept == Spec => []ClassesKept
<1>1. TypeInv /\ ClassInv => ClassesKept
  <2> SUFFICES ASSUME TypeInv, ClassInv PROVE ClassesKept
    OBVIOUS
  <2>1. setup \in Setups
    BY DEF TypeInv, Shapes
  <2>2. ASSUME NEW i \in AllClasses
        PROVE  made[i] <= IF ~Beta THEN NaiveCounts[i]
                          ELSE IF i \in {0, NumClasses} THEN 0 ELSE BetaCount(i)
    <3>1. made[i] = Cardinality(Iterations(i))
      BY DEF ClassInv, MadeByIterations
    <3> QED
      BY <2>1, <3>1, NaiveBound, BetaBound
  <2>3. ASSUME phase = "done", Beta, Cardinality(Threads) = setup.thread_num,
               NumClasses % setup.thread_num = 0, NEW i \in 1 .. NumClasses - 1
        PROVE  made[i] = BetaCount(i)
    <3>1. Threads = 0 .. setup.thread_num - 1
      <4> DEFINE T == setup.thread_num
                 A == 0 .. T - 1
      <4>1. T \in Nat \ {0} /\ Threads \in SUBSET A
        BY <2>1, SetupFields, ThreadNumbers
      <4>2. Cardinality(Threads) = T
        BY <2>3
      <4> HIDE DEF T
      <4>3. IsFiniteSet(A) /\ Cardinality(A) = T
        <5>1. /\ IsFiniteSet(0 .. T - 1)
              /\ Cardinality(0 .. T - 1) = IF 0 > T - 1 THEN 0 ELSE T - 1 - 0 + 1
          <6>1. 0 \in Int /\ T - 1 \in Int
            BY <4>1
          <6> QED
            BY <6>1, FS_Interval
        <5> QED
          BY <4>1, <5>1
      <4> HIDE DEF A
      <4>4. A = Threads
        BY <4>1, <4>2, <4>3, FS_Subset
      <4> QED
        BY <4>4 DEF A, T
    <3>2. i \in 0 .. NumClasses - 1
      OBVIOUS
    <3>3. \E t \in Threads : Visits(t, i)
      BY <2>1, <2>3, <3>1, <3>2, EveryClassVisited
    <3> QED
      BY <2>3, <3>3, AllDone
  <2> QED
    BY <2>2, <2>3 DEF ClassesKept
<1>2. Spec => [](TypeInv /\ ClassInv)
  <2>1. Init => TypeInv /\ ClassInv
    BY TypesInit, ClassInit
  <2>2. TypeInv /\ ClassInv /\ [Next]_vars => (TypeInv /\ ClassInv)'
    BY TypesStep, ClassStep
  <2> QED
    BY <2>1, <2>2, PTL DEF Spec
<1> QED
  BY <1>1, <1>2, PTL
=============================================================================
