------------------------ MODULE FaultModelGenerators ------------------------
(***************************************************************************)
(* The fault map of a run without -r: HardFaultGenerator and               *)
(* VRTErrorGenerator of the two fault models, alone or on thread_num       *)
(* threads that share the map without a lock.  Main starts the threads of  *)
(* each generator and joins them before it goes on.                        *)
(*                                                                         *)
(* Each |=, ++ and push_back is a load and a store with the other threads  *)
(* between them.  Two push_back of one vector that overlap are a data      *)
(* race: one of the entries may be lost, a slot may stay unwritten, or the *)
(* heap may be corrupted.                                                  *)
(***************************************************************************)
EXTENDS Integers, Sequences, FiniteSets

CONSTANTS
  Setups,       \* fault_model, thread and thread_num of the .ini file
  Places,       \* words of the fault map
  Bits,         \* bits of a word
  NaiveCount,   \* faults of each kind NaiveFaultModel is asked for
  ClassCounts,  \* num_fault_array_ext[0 .. 1000] of BetaDistFaultModel
  SizeModulus   \* vrt_size wraps here (256 in the code)

\* 1000 in the code.  Class i has probability i / 1000; the last is always
\* faulty, and its count that of the hard faults.
NumClasses == Len(ClassCounts) - 1
BetaCount(i) == ClassCounts[i + 1]

\* The six loops of NaiveFaultModel's VRTErrorGeneratorThread: always 1, low
\* low, low, mid, high, high high.
NaiveCounts ==
  <<NaiveCount, NaiveCount \div 5, NaiveCount \div 5, NaiveCount \div 3,
    NaiveCount \div 5, NaiveCount \div 5>>

ASSUME SetupAssumption ==
  /\ Setups \subseteq
       [fault_model : {"NaiveFaultModel", "BetaDistFaultModel"},
        thread : {"SingleThread", "MultiThread", "other"}, thread_num : Nat \ {0}]
  /\ NaiveCount \in Nat
  /\ ClassCounts \in Seq(Nat) /\ Len(ClassCounts) > 1
  /\ SizeModulus \in Nat \ {0}

VARIABLES
  setup,       \* the configuration of this run
  phase,       \* the generator main has started, "done", or "crashed"
  pc,          \* where each thread is
  left,        \* iterations each thread's loop has still to do
  class,       \* the class each thread is in
  reg,         \* what a thread has drawn, and the contents it has loaded
  hardfault, vrt_size, vrt,  \* the fault map
  drawn,       \* history: every place and bit a hard fault was drawn for
  made         \* history: entries made, by class

map  == <<hardfault, vrt_size, vrt>>
vars == <<setup, phase, pc, left, class, reg, map, drawn, made>>

Beta  == setup.fault_model = "BetaDistFaultModel"
Multi == setup.thread = "MultiThread"

\* Hard faults asked for.
HardCount == IF Beta THEN BetaCount(NumClasses) ELSE NaiveCount

\* Any other value of "thread" starts nobody.
Threads ==
  CASE Multi                         -> 0 .. setup.thread_num - 1
    [] setup.thread = "SingleThread" -> {0}
    [] OTHER                         -> {}

(* Mutant: every thread does the whole work. *)
Undivided(n) == n

\* The share of each thread; the remainder is dropped.
Share(n) == IF Multi THEN n \div setup.thread_num ELSE n

-----------------------------------------------------------------------------
(* Classes.  BetaDistFaultModel gives every thread a range of them - also   *)
(* the one thread of SingleThread, whose number is 0.                       *)

FirstClass(t) == IF Beta THEN (t * NumClasses) \div setup.thread_num ELSE 1

(* Mutant: the range is closed at its upper end. *)
LastClassClosed(t) ==
  IF Beta THEN (t * NumClasses) \div setup.thread_num + NumClasses \div setup.thread_num
          ELSE 6

LastClass(t) ==
  IF Beta
    THEN (t * NumClasses) \div setup.thread_num + NumClasses \div setup.thread_num - 1
    ELSE 6

\* Entries thread t makes in class i.
ClassShare(i) ==
  IF Beta THEN IF i = 0 THEN 0 ELSE BetaCount(i) ELSE Share(NaiveCounts[i])

AllClasses == IF Beta THEN 0 .. NumClasses ELSE 1 .. 6

AnyPlace == CHOOSE p \in Places : TRUE
AnyBit   == CHOOSE b \in Bits : TRUE
Reg(p, b, word, size) ==
  [place |-> p, bit |-> b, word |-> word, size |-> size, vector |-> <<>>]
NoReg    == Reg(AnyPlace, AnyBit, {}, 0)

Init ==
  /\ setup \in Setups
  /\ phase = "hard"
  /\ pc = [t \in Threads |-> "loop"]
  /\ left = [t \in Threads |-> Share(HardCount)]
  /\ class = [t \in Threads |-> 0]
  /\ reg = [t \in Threads |-> NoReg]
  /\ hardfault = [p \in Places |-> {}]
  /\ vrt_size = [p \in Places |-> 0]
  /\ vrt = [p \in Places |-> <<>>]
  /\ drawn = {}
  /\ made = [i \in AllClasses |-> 0]

-----------------------------------------------------------------------------
(* HardFaultGeneratorThread. *)

LoadHard(t) ==
  /\ phase = "hard" /\ pc[t] = "loop" /\ left[t] > 0
  /\ \E p \in Places, b \in Bits :
       /\ reg' = [reg EXCEPT ![t] = Reg(p, b, hardfault[p], 0)]
       /\ drawn' = drawn \cup {<<p, b>>}
  /\ pc' = [pc EXCEPT ![t] = "store"]
  /\ UNCHANGED <<setup, phase, left, class, map, made>>

(* Mutant: the word is assigned, not or-ed. *)
AssignedBit(r) == {r.bit}

\* hardfault |= 1 << bit, on the word loaded.
OredBit(r) == r.word \cup {r.bit}

StoreHard(t) ==
  /\ phase = "hard" /\ pc[t] = "store"
  /\ hardfault' = [hardfault EXCEPT ![reg[t].place] = OredBit(reg[t])]
  /\ reg' = [reg EXCEPT ![t] = NoReg]
  /\ left' = [left EXCEPT ![t] = @ - 1]
  /\ pc' = [pc EXCEPT ![t] = "loop"]
  /\ UNCHANGED <<setup, phase, class, vrt_size, vrt, drawn, made>>

-----------------------------------------------------------------------------
(* VRTErrorGeneratorThread. *)

LoadSize(t) ==
  /\ phase = "vrt" /\ pc[t] = "loop" /\ left[t] > 0
  /\ \E p \in Places, b \in Bits :
       reg' = [reg EXCEPT ![t] = Reg(p, b, {}, vrt_size[p])]
  /\ pc' = [pc EXCEPT ![t] = "store"]
  /\ UNCHANGED <<setup, phase, left, class, map, drawn, made>>

(* Mutant: the count is wider than its field. *)
UnwrappedSize(n) == n + 1

\* vrt_size++ on 8 bits.
IncrementedSize(n) == (n + 1) % SizeModulus

StoreSize(t) ==
  /\ phase = "vrt" /\ pc[t] = "store"
  /\ vrt_size' = [vrt_size EXCEPT ![reg[t].place] = IncrementedSize(reg[t].size)]
  /\ pc' = [pc EXCEPT ![t] = "push"]
  /\ UNCHANGED <<setup, phase, left, class, reg, hardfault, vrt, drawn, made>>

LoadVector(t) ==
  /\ phase = "vrt" /\ pc[t] = "push"
  /\ reg' = [reg EXCEPT ![t].vector = vrt[reg[t].place]]
  /\ pc' = [pc EXCEPT ![t] = "pushed"]
  /\ UNCHANGED <<setup, phase, left, class, map, drawn, made>>

NewEntry(t) == [bit |-> reg[t].bit, class |-> class[t]]
Unwritten   == [bit |-> AnyBit, class |-> -1]

\* What push_back of e leaves in a vector that was old when it began.
Pushed(old, now, e) ==
  {Append(old, e)}
    \cup IF Len(now) > Len(old)
           THEN {Append([now EXCEPT ![Len(old) + 1] = e], Unwritten)} ELSE {}

StoreVector(t) ==
  /\ phase = "vrt" /\ pc[t] = "pushed"
  /\ LET p == reg[t].place
     IN \/ /\ vrt' \in {[vrt EXCEPT ![p] = v] : v \in Pushed(reg[t].vector, vrt[p], NewEntry(t))}
           /\ UNCHANGED phase
        \/ /\ vrt[p] # reg[t].vector
           /\ phase' = "crashed"
           /\ UNCHANGED vrt
  /\ made' = [made EXCEPT ![class[t]] = @ + 1]
  /\ reg' = [reg EXCEPT ![t] = NoReg]
  /\ left' = [left EXCEPT ![t] = @ - 1]
  /\ pc' = [pc EXCEPT ![t] = "loop"]
  /\ UNCHANGED <<setup, class, hardfault, vrt_size, drawn>>

(* Mutant: the class loop does not advance. *)
SameClass(t) ==
  /\ phase = "vrt" /\ pc[t] = "loop" /\ left[t] = 0
  /\ class[t] < LastClass(t)
  /\ left' = [left EXCEPT ![t] = ClassShare(class[t])]
  /\ UNCHANGED <<setup, phase, pc, class, reg, map, drawn, made>>

\* The outer loop of BetaDistFaultModel, or the next loop of NaiveFaultModel.
NextClass(t) ==
  /\ phase = "vrt" /\ pc[t] = "loop" /\ left[t] = 0
  /\ class[t] < LastClass(t)
  /\ class' = [class EXCEPT ![t] = @ + 1]
  /\ left' = [left EXCEPT ![t] = ClassShare(class[t] + 1)]
  /\ UNCHANGED <<setup, phase, pc, reg, map, drawn, made>>

-----------------------------------------------------------------------------
(* Main: join, and start the next generator. *)

Idle(t) == pc[t] = "loop" /\ left[t] = 0

StartVrt ==
  /\ phase = "hard"
  /\ \A t \in Threads : Idle(t)
  /\ phase' = "vrt"
  \* A thread whose range is empty starts behind it and has nothing to do.
  /\ class' = [t \in Threads |-> FirstClass(t)]
  /\ left' = [t \in Threads |->
                IF FirstClass(t) <= LastClass(t) THEN ClassShare(FirstClass(t)) ELSE 0]
  /\ UNCHANGED <<setup, pc, reg, map, drawn, made>>

Done ==
  /\ phase = "vrt"
  /\ \A t \in Threads : Idle(t) /\ class[t] >= LastClass(t)
  /\ phase' = "done"
  /\ UNCHANGED <<setup, pc, left, class, reg, map, drawn, made>>

Thread(t) ==
  \/ LoadHard(t) \/ StoreHard(t)
  \/ LoadSize(t) \/ StoreSize(t) \/ LoadVector(t) \/ StoreVector(t)
  \/ NextClass(t)

Next == (\E t \in Threads : Thread(t)) \/ StartVrt \/ Done

Spec == Init /\ [][Next]_vars

\* The threads and main are scheduled by the operating system, and none waits
\* for another but in join.  Thread numbers are below the largest thread_num.
AnyThread == UNION {0 .. s.thread_num - 1 : s \in Setups}
FairSpec ==
  /\ Spec
  /\ \A t \in AnyThread : WF_vars(t \in Threads /\ Thread(t))
  /\ WF_vars(StartVrt \/ Done)

-----------------------------------------------------------------------------
Alone == Cardinality(Threads) <= 1

(* Types of the variables. *)
GeneratorsTypeOK ==
  /\ setup \in Setups
  /\ phase \in {"hard", "vrt", "done", "crashed"}
  /\ pc \in [Threads -> {"loop", "store", "push", "pushed"}]
  /\ left \in [Threads -> Nat]
  /\ class \in [Threads -> Nat]
  /\ hardfault \in [Places -> SUBSET Bits]
  /\ vrt_size \in [Places -> 0 .. SizeModulus - 1]
  /\ \A p \in Places : \A k \in 1 .. Len(vrt[p]) :
       vrt[p][k] \in [bit : Bits, class : AllClasses] \cup {Unwritten}
  /\ drawn \subseteq Places \X Bits
  /\ made \in [AllClasses -> Nat]

Pairs == {q \in Places \X Bits : q[2] \in hardfault[q[1]]}

(* One thread alone loses nothing: between two iterations every hard fault    *)
(* drawn is in the map, every entry made is in a vector, and the counts are   *)
(* the lengths as 8 bits can hold them - more than 255 entries in one word    *)
(* make the first ones invisible to VRTFaultError and to the fault-map file.  *)
AloneNothingIsLost ==
  Alone /\ (\A t \in Threads : pc[t] = "loop") =>
    /\ Pairs = drawn
    /\ \A p \in Places : vrt_size[p] = Len(vrt[p]) % SizeModulus
    /\ \A i \in AllClasses :
         made[i] = Cardinality(UNION {{p} \X {k \in 1 .. Len(vrt[p]) :
                                        vrt[p][k].class = i} : p \in Places})

(* However the threads interleave, the map holds no hard fault that was not   *)
(* drawn, no more than were asked for, and loses all of them in no word: the  *)
(* last store to a word leaves its own bit (HardFaultGeneratorThread).        *)
RacesOnlyLose ==
  /\ Pairs \subseteq drawn
  /\ Cardinality(drawn) <= HardCount
  /\ phase # "hard" =>
       \A p \in Places : hardfault[p] = {} => ~\E b \in Bits : <<p, b>> \in drawn

(* No class is generated beyond its count, whatever the number of threads:    *)
(* the ranges of the threads do not overlap, the shares do not exceed the     *)
(* whole, and the class of the certain faults is left to the hard ones.       *)
(* Where the number of threads divides the number of classes,                 *)
(* BetaDistFaultModel on all its threads makes each of them in full.          *)
ClassesKept ==
  /\ \A i \in AllClasses :
       made[i] <= IF ~Beta THEN NaiveCounts[i]
                  ELSE IF i \in {0, NumClasses} THEN 0 ELSE BetaCount(i)
  /\ phase = "done" /\ Beta /\ Cardinality(Threads) = setup.thread_num
       /\ NumClasses % setup.thread_num = 0 =>
       \A i \in 1 .. NumClasses - 1 : made[i] = BetaCount(i)

(* The constructor of the fault model comes to its end, or the race on a      *)
(* vector has corrupted the heap - which needs two threads.                   *)
GenerationEnds == <>(phase = "done" \/ (phase = "crashed" /\ ~Alone))
=============================================================================
